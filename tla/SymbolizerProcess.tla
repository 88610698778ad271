------------------------- MODULE SymbolizerProcess -------------------------
(***************************************************************************)
(* One SymbolizerProcess object (lib/symbolizer.h, lib/symbolizer.cpp):    *)
(* the library's side of a conversation with an external symbolizer that   *)
(* runs as a child process behind two pipes.  The object sends a command,  *)
(* reads until the end-of-output mark, restarts the child when the command *)
(* cannot be sent, gives up for good after kMaxTimesRestarted rounds, and  *)
(* is stopped by StopTheWorld.                                             *)
(*                                                                         *)
(* The library runs in one thread; `pc' names the system call it is about  *)
(* to make.  The child, the kernel and other threads of the host program   *)
(* act between any two of its system calls: those threads open and close   *)
(* descriptors of their own at any time, under any number that is free.    *)
(*                                                                         *)
(* Data is abstract.  A command is the number of the SendCommand call that *)
(* sent it.  The output it provokes is the sequence of pieces <<c, 1>> ..  *)
(* <<c, Pieces>>, a piece being whatever reaches the pipe in one go; the   *)
(* last piece ends with the end-of-output mark of the tool.  addr2line     *)
(* answers an unknown address with that mark, so there the output is the   *)
(* mark twice.                                                             *)
(*                                                                         *)
(* A definition whose name ends in _Slip is the definition that follows it *)
(* with a plausible slip in it; none is part of the specification.         *)
(***************************************************************************)
EXTENDS Integers, Sequences

CONSTANTS
  Tool,                \* "llvm-symbolizer" or "addr2line": which subclass
  kMaxTimesRestarted,  \* symbolizer.h:130 (5 in the code)
  Pieces,              \* pieces in the output of one command
  UnknownAddresses,    \* commands whose address addr2line does not know
  FD,                  \* descriptor numbers above stderr that the host and the library share
  MaxCalls,            \* bound: SendCommand calls made in a behaviour
  Faults,              \* what may go wrong around the library, see FaultKinds
  SigpipeIgnored       \* the host ignores or handles SIGPIPE (symbolizer.cpp:221-229); if
                       \* FALSE, it may be at its default when the library writes

FaultKinds == { "child-dies",   \* the child exits on its own or is killed
                "start-fails",  \* the path is gone, pipe() or fork() fails
                "eintr" }       \* a signal interrupts a blocked read() or write()

ASSUME ToolAssumption == Tool \in {"llvm-symbolizer", "addr2line"}
ASSUME BoundAssumption == /\ kMaxTimesRestarted \in Nat \ {0}
                          /\ MaxCalls \in Nat \ {0}
ASSUME PiecesAssumption == /\ Pieces \in Nat \ {0}
                           /\ Tool = "addr2line" => Pieces > 1
ASSUME UnknownAssumption == /\ UnknownAddresses \subseteq 1..MaxCalls
                            /\ Tool # "addr2line" => UnknownAddresses = {}
ASSUME FDAssumption == FD \subseteq {n \in Nat : n > 2}
ASSUME FaultsAssumption == Faults \subseteq FaultKinds
ASSUME SigpipeAssumption == SigpipeIgnored \in BOOLEAN

VARIABLES
  pc,                \* the system call the library is about to make
  stopping,          \* Kill was called by StopTheWorld, not by Restart
  cmd,               \* number of the latest SendCommand call
  ret,               \* what that call returned: "none" yet, "null", or "data" in buffer_
  active_pid_, input_fd_, output_fd_, buffer_, times_restarted_, failed_to_start_,
  forks,             \* children forked so far; the youngest has this pid
  child,             \* pid -> what has become of that child
  fdt,               \* the host process's table of open descriptors
  todo,              \* pieces the youngest child will write for the commands it was sent
  pipe,              \* pieces in the youngest child's stdout pipe
  reused             \* history: during a call another thread of the host was given a
                     \* number the object still keeps, and no child was forked since

object == <<active_pid_, input_fd_, output_fd_, buffer_, times_restarted_, failed_to_start_>>
system == <<forks, child, fdt, todo, pipe, reused>>
vars   == <<pc, stopping, cmd, ret, object, system>>

kInvalidFd == -1
NoPid      == -1
Pids       == 1..kMaxTimesRestarted
Command    == 1..MaxCalls
NotOurs    == 0            \* what is read from a descriptor of the host's
Piece      == (Command \cup {NotOurs}) \X Nat

\* Owners of a descriptor: nobody, the host's own code, or the library: the
\* end of child g's stdout that it reads, the end of g's stdin that it writes.
Free   == <<"free", 0>>
Host   == <<"host", 0>>
In(g)  == <<"in", g>>
Out(g) == <<"out", g>>
Owner  == {Free, Host} \cup {In(g) : g \in Pids} \cup {Out(g) : g \in Pids}

\* A child that is "exiting" has had its descriptors closed by the kernel but
\* cannot be waited for yet; a "zombie" can, and is "reaped" when it has been.
ChildState == {"unborn", "running", "exiting", "zombie", "reaped"}

InCall  == {"send", "read", "restart", "kill", "sigkill", "close", "start", "startup"}
Control == InCall \cup {"idle", "stopped", "dead"}

Init ==
  /\ pc = "idle" /\ stopping = FALSE /\ cmd = 0 /\ ret = "none"
  /\ active_pid_ = NoPid
  /\ input_fd_ = kInvalidFd /\ output_fd_ = kInvalidFd
  /\ buffer_ = <<>>
  /\ times_restarted_ = 0 /\ failed_to_start_ = FALSE
  /\ forks = 0 /\ child = [g \in Pids |-> "unborn"]
  /\ fdt \in [FD -> {Free, Host}]
  /\ todo = <<>> /\ pipe = <<>> /\ reused = FALSE

Size(c)   == IF c \in UnknownAddresses THEN 2 ELSE Pieces
Answer(c) == [i \in 1..Size(c) |-> <<c, i>>]

CloseBoth_Slip ==
  /\ fdt' = [f \in FD |-> IF f = input_fd_ THEN Free ELSE fdt[f]]
  /\ todo' = <<>> /\ pipe' = <<>>

\* close() on both descriptors, whoever owns the numbers by now.
CloseBoth ==
  /\ fdt' = [f \in FD |-> IF f \in {input_fd_, output_fd_} THEN Free ELSE fdt[f]]
  /\ todo' = <<>> /\ pipe' = <<>>

-----------------------------------------------------------------------------
(* SendCommand                                                             *)

SendCommand ==
  /\ pc = "idle" /\ cmd < MaxCalls
  /\ cmd' = cmd + 1
  /\ IF failed_to_start_ THEN pc' = "idle" /\ ret' = "null"
                         ELSE pc' = "send" /\ ret' = "none"
  /\ UNCHANGED <<stopping, object, system>>

GiveUp ==
  /\ pc = "send" /\ times_restarted_ >= kMaxTimesRestarted
  /\ failed_to_start_' = TRUE
  /\ pc' = "idle" /\ ret' = "null"
  /\ UNCHANGED <<stopping, cmd, active_pid_, input_fd_, output_fd_, buffer_,
                 times_restarted_, system>>

NotStarted == input_fd_ = kInvalidFd \/ output_fd_ = kInvalidFd
MayTry_Slip == pc = "send" /\ times_restarted_ <= kMaxTimesRestarted
MayTry     == pc = "send" /\ times_restarted_ < kMaxTimesRestarted

SendNotStarted ==
  /\ MayTry /\ NotStarted
  /\ pc' = "restart"
  /\ UNCHANGED <<stopping, cmd, ret, object, system>>

\* The child that reads the other end of output_fd_.
Reader(g) == fdt[output_fd_] = Out(g)

\* The buffer is not cleared for a new command.
Write_Slip ==
  /\ MayTry /\ ~NotStarted
  /\ \E g \in Pids : Reader(g) /\ child[g] = "running"
  /\ todo' = todo \o Answer(cmd)
  /\ pc' = "read"
  /\ UNCHANGED <<stopping, cmd, ret, object, forks, reused, child, fdt, pipe>>

\* A write that was cut short passes for a whole one: the child waits for the rest.
Write_SlipShort ==
  /\ MayTry /\ ~NotStarted
  /\ \E g \in Pids : Reader(g) /\ child[g] = "running"
  /\ buffer_' = <<>>
  /\ pc' = "read"
  /\ UNCHANGED <<stopping, cmd, ret, active_pid_, input_fd_, output_fd_,
                 times_restarted_, failed_to_start_, forks, reused, child, fdt, todo, pipe>>

Write ==
  /\ MayTry /\ ~NotStarted
  /\ \E g \in Pids : Reader(g) /\ child[g] = "running"
  /\ todo' = todo \o Answer(cmd)
  /\ buffer_' = <<>>
  /\ pc' = "read"
  /\ UNCHANGED <<stopping, cmd, ret, active_pid_, input_fd_, output_fd_,
                 times_restarted_, failed_to_start_, forks, reused, child, fdt, pipe>>

\* write() fails with EPIPE, unless SIGPIPE kills the host first.
FailsOrKills == pc' \in {"restart"} \cup IF SigpipeIgnored THEN {} ELSE {"dead"}

WriteBrokenPipe ==
  /\ MayTry /\ ~NotStarted
  /\ \E g \in Pids : Reader(g) /\ child[g] # "running"
  /\ FailsOrKills
  /\ UNCHANGED <<stopping, cmd, ret, object, system>>

\* EBADF: the last StartSymbolizerSubprocess failed and left closed numbers behind.
WriteBadDescriptor ==
  /\ MayTry /\ ~NotStarted
  /\ fdt[output_fd_] = Free
  /\ pc' = "restart"
  /\ UNCHANGED <<stopping, cmd, ret, object, system>>

\* The number is a descriptor of the host's by now.  It may take the command; or it
\* cannot be written to, or takes a part, or is a pipe that nobody reads.
WriteForeign ==
  /\ MayTry /\ ~NotStarted
  /\ fdt[output_fd_] = Host
  /\ \/ pc' = "read" /\ buffer_' = <<>>
     \/ FailsOrKills /\ UNCHANGED buffer_
  /\ UNCHANGED <<stopping, cmd, ret, active_pid_, input_fd_, output_fd_,
                 times_restarted_, failed_to_start_, system>>

\* write() blocks only when commands the child has not read yet fill the pipe; a
\* signal ends it with EINTR, or short of the whole command.  The child is alive.
WriteInterrupted ==
  /\ "eintr" \in Faults
  /\ MayTry /\ ~NotStarted /\ todo # <<>>
  /\ \E g \in Pids : Reader(g) /\ child[g] = "running"
  /\ pc' = "restart"
  /\ UNCHANGED <<stopping, cmd, ret, object, system>>

-----------------------------------------------------------------------------
(* ReadFromSymbolizer                                                      *)

EndsOutput(piece) == piece[1] \in UnknownAddresses \/ piece[2] = Pieces

ReachedEndOfOutput_Slip(buf) == EndsOutput(buf[Len(buf)])

\* addr2line's mark is itself a legal answer, so one piece alone never ends its output.
ReachedEndOfOutput(buf) ==
  /\ Len(buf) > IF Tool = "addr2line" THEN 1 ELSE 0
  /\ EndsOutput(buf[Len(buf)])

\* Where the override of Addr2LineProcess may find its mark: not at the very start.
Terminators(buf) == {i \in 2..Len(buf) : EndsOutput(buf[i])}

\* Trims one piece too few.
FinishRead_Slip(buf) ==
  /\ UNCHANGED <<stopping, cmd, active_pid_, input_fd_, output_fd_,
                 times_restarted_, failed_to_start_, forks, reused, child, fdt, todo>>
  /\ pc' = "idle" /\ ret' = "data"
  /\ \E i \in Terminators(buf) : /\ \A j \in Terminators(buf) : i <= j
                                 /\ buffer_' = SubSeq(buf, 1, i)

\* The end of ReadFromSymbolizer, on whichever way out of its loop.  The loop's
\* own `ret' shadows the one that is returned, so a failed read() is reported as
\* success with what was read so far.  Addr2LineProcess then looks for its mark
\* and CHECKs that it is there; a failed CHECK exits the host.
FinishRead(buf) ==
  /\ UNCHANGED <<stopping, cmd, active_pid_, input_fd_, output_fd_,
                 times_restarted_, failed_to_start_, forks, reused, child, fdt, todo>>
  /\ IF Tool = "addr2line" /\ Terminators(buf) = {}
     THEN pc' = "dead" /\ UNCHANGED <<ret, buffer_>>
     ELSE /\ pc' = "idle" /\ ret' = "data"
          /\ \/ Tool # "addr2line" /\ buffer_' = buf
             \/ /\ Tool = "addr2line"
                /\ \E i \in Terminators(buf) : /\ \A j \in Terminators(buf) : i <= j
                                              /\ buffer_' = SubSeq(buf, 1, i - 1)

\* read() returns some of what the pipe holds.
ReadSome ==
  /\ pc = "read"
  /\ \E n \in 1..Len(pipe) :
       LET buf == buffer_ \o SubSeq(pipe, 1, n) IN
       /\ pipe' = SubSeq(pipe, n + 1, Len(pipe))
       /\ IF ReachedEndOfOutput(buf)
          THEN FinishRead(buf)
          ELSE /\ buffer_' = buf
               /\ UNCHANGED <<pc, stopping, cmd, ret, active_pid_, input_fd_, output_fd_,
                              times_restarted_, failed_to_start_, forks, reused, child, fdt, todo>>

\* The child that writes the other end of input_fd_.
Writer(g) == fdt[input_fd_] = In(g)

\* read() returns 0: nothing is left in the pipe and nobody can write to it.
ReadEndOfFile ==
  /\ pc = "read" /\ pipe = <<>>
  /\ \E g \in Pids : Writer(g) /\ child[g] # "running"
  /\ FinishRead(buffer_)
  /\ UNCHANGED pipe

\* read() was blocked and returns -1 with EINTR.
ReadInterrupted ==
  /\ "eintr" \in Faults
  /\ pc = "read" /\ pipe = <<>>
  /\ \E g \in Pids : Writer(g) /\ child[g] = "running"
  /\ FinishRead(buffer_)
  /\ UNCHANGED pipe

\* EBADF: the command went to a descriptor of the host's, and the number to read
\* from is closed.
ReadBadDescriptor ==
  /\ pc = "read" /\ fdt[input_fd_] = Free
  /\ FinishRead(buffer_)
  /\ UNCHANGED pipe

\* The number to read from is a descriptor of the host's: the whole loop as one step,
\* which ends with nothing read, with no mark in what was read, or at a mark.
ReadForeign ==
  /\ pc = "read" /\ fdt[input_fd_] = Host
  /\ \E buf \in {<<>>, <<<<NotOurs, 0>>>>, <<<<NotOurs, 0>>, <<NotOurs, Pieces>>>>} :
       FinishRead(buf)
  /\ UNCHANGED pipe

-----------------------------------------------------------------------------
(* Restart, Kill and StartSymbolizerSubprocess                             *)

\* waitpid(pid, WNOHANG) as the kernel answers it: 0 for a child that has not
\* exited, its pid (and it is reaped) when it has, ECHILD when it is no child.
StillRunning(g) == child[g] \in {"running", "exiting"}
WaitReaps(g)    == child' = [child EXCEPT ![g] = IF @ = "zombie" THEN "reaped" ELSE @]

\* IsRunning, the first statement of Restart.
RestartIsRunning ==
  /\ pc = "restart"
  /\ IF active_pid_ # NoPid /\ StillRunning(active_pid_)
     THEN pc' = "kill" /\ UNCHANGED child
     ELSE /\ pc' = "close"
          /\ IF active_pid_ = NoPid THEN UNCHANGED child ELSE WaitReaps(active_pid_)
  /\ UNCHANGED <<stopping, cmd, ret, object, forks, reused, fdt, todo, pipe>>

\* StopTheWorld of the tool calls Kill and deletes the object.
StopTheWorld ==
  /\ pc = "idle"
  /\ pc' = "kill" /\ stopping' = TRUE /\ ret' = "none"
  /\ UNCHANGED <<cmd, object, system>>

AfterKill == pc' = IF stopping THEN "stopped" ELSE "close"

\* Keeps the pid of the child it forgets.
KillSucceeds_Slip ==
  /\ CloseBoth
  /\ AfterKill
  /\ UNCHANGED <<stopping, cmd, ret, object, forks, reused>>

\* Leaves the descriptors to Restart, which StopTheWorld does not call.
KillSucceeds_SlipOpen ==
  /\ active_pid_' = NoPid
  /\ AfterKill
  /\ UNCHANGED <<stopping, cmd, ret, input_fd_, output_fd_, buffer_, times_restarted_,
                 failed_to_start_, forks, reused, fdt, todo, pipe>>

\* Kill returned true: the object forgets the child and closes its descriptors
\* (but keeps their numbers).
KillSucceeds ==
  /\ active_pid_' = NoPid
  /\ CloseBoth
  /\ AfterKill
  /\ UNCHANGED <<stopping, cmd, ret, input_fd_, output_fd_, buffer_, times_restarted_,
                 failed_to_start_, forks, reused>>

\* Closes the descriptors although no child was killed.
KillFails_Slip == AfterKill /\ CloseBoth /\ UNCHANGED <<stopping, cmd, ret, object, forks, reused>>

KillFails == AfterKill /\ UNCHANGED <<stopping, cmd, ret, object, forks, reused, fdt, todo, pipe>>

\* KillChildProcess asks waitpid first and sends no signal to a child that is
\* still running.
Kill ==
  /\ pc = "kill"
  /\ \/ active_pid_ = NoPid /\ KillFails /\ UNCHANGED child
     \/ active_pid_ # NoPid /\ StillRunning(active_pid_) /\ KillSucceeds /\ UNCHANGED child
     \/ active_pid_ # NoPid /\ child[active_pid_] = "reaped" /\ KillFails /\ UNCHANGED child
     \/ /\ active_pid_ # NoPid /\ child[active_pid_] = "zombie"
        /\ WaitReaps(active_pid_)
        /\ pc' = "sigkill"
        /\ UNCHANGED <<stopping, cmd, ret, object, forks, reused, fdt, todo, pipe>>

\* kill(pid, SIGKILL): no such process, or one that was given the pid meanwhile.
Sigkill ==
  /\ pc = "sigkill"
  /\ KillFails \/ KillSucceeds
  /\ UNCHANGED child

\* The two CloseFile calls of Restart.
CloseFiles ==
  /\ pc = "close"
  /\ CloseBoth
  /\ pc' = "start"
  /\ UNCHANGED <<stopping, cmd, ret, object, forks, reused, child>>

\* Restart returned; SendCommand ignores its result and counts the round.
RoundEnds == pc' = "send" /\ times_restarted_' = times_restarted_ + 1

\* SendCommand returns as soon as a restart fails.
StartFails_SlipReturn ==
  /\ pc = "start"
  /\ "start-fails" \in Faults
  /\ pc' = "idle" /\ ret' = "null" /\ times_restarted_' = times_restarted_ + 1
  /\ UNCHANGED <<stopping, cmd, active_pid_, input_fd_, output_fd_, buffer_,
                 failed_to_start_, system>>

\* A failed start is marked as final, but the loop goes on.
StartFails_SlipFinal ==
  /\ pc = "start"
  /\ "start-fails" \in Faults
  /\ RoundEnds
  /\ failed_to_start_' = TRUE
  /\ UNCHANGED <<stopping, cmd, ret, active_pid_, input_fd_, output_fd_, buffer_, system>>

\* A failed start does not count as a round.
StartFails_SlipFree ==
  /\ pc = "start"
  /\ "start-fails" \in Faults
  /\ pc' = "send"
  /\ UNCHANGED <<stopping, cmd, ret, object, system>>

\* FileExists, CreateTwoHighNumberedPipes or fork() failed: nothing is kept open.
StartFails ==
  /\ pc = "start"
  /\ "start-fails" \in Faults \/ ~\E f1, f2 \in FD : f1 # f2 /\ {fdt[f1], fdt[f2]} = {Free}
  /\ RoundEnds
  /\ UNCHANGED <<stopping, cmd, ret, active_pid_, input_fd_, output_fd_, buffer_,
                 failed_to_start_, system>>

\* Two pipes and fork(): the parent keeps one end of each pipe.
StartForks ==
  /\ pc = "start"
  /\ \E infd, outfd \in FD :
       /\ infd # outfd /\ fdt[infd] = Free /\ fdt[outfd] = Free
       /\ input_fd_' = infd /\ output_fd_' = outfd
       /\ fdt' = [fdt EXCEPT ![infd] = In(forks + 1), ![outfd] = Out(forks + 1)]
  /\ forks' = forks + 1 /\ reused' = FALSE
  /\ child' = [child EXCEPT ![forks + 1] = "running"]
  /\ todo' = <<>> /\ pipe' = <<>>
  /\ pc' = "startup"
  /\ UNCHANGED <<stopping, cmd, ret, active_pid_, buffer_, times_restarted_, failed_to_start_>>

\* A child that came up renews the budget.
StartupCheck_Slip ==
  /\ pc = "startup"
  /\ WaitReaps(forks)
  /\ active_pid_' = IF StillRunning(forks) THEN forks ELSE active_pid_
  /\ pc' = "send" /\ times_restarted_' = 0
  /\ UNCHANGED <<stopping, cmd, ret, input_fd_, output_fd_, buffer_, failed_to_start_,
                 forks, reused, fdt, todo, pipe>>

\* The check after kSymbolizerStartupTimeMillis.
StartupCheck ==
  /\ pc = "startup"
  /\ WaitReaps(forks)
  /\ active_pid_' = IF StillRunning(forks) THEN forks ELSE active_pid_
  /\ RoundEnds
  /\ UNCHANGED <<stopping, cmd, ret, input_fd_, output_fd_, buffer_, failed_to_start_,
                 forks, reused, fdt, todo, pipe>>

-----------------------------------------------------------------------------
(* The child, the kernel and the host                                      *)

IsOpen(owner) == \E f \in FD : fdt[f] = owner

\* The youngest child writes the next piece of its output.
ChildWrites ==
  /\ pc # "dead" /\ todo # <<>> /\ child[forks] = "running"
  /\ pipe' = Append(pipe, Head(todo))
  /\ todo' = Tail(todo)
  /\ UNCHANGED <<pc, stopping, cmd, ret, object, forks, reused, child, fdt>>

\* What a child had not written yet dies with it; what it wrote stays in the pipe.
Exits(g) ==
  /\ child[g] = "running"
  /\ child' = [child EXCEPT ![g] = "exiting"]
  /\ todo' = IF g = forks THEN <<>> ELSE todo
  /\ UNCHANGED <<pc, stopping, cmd, ret, object, forks, reused, fdt, pipe>>

ChildDies(g)  == "child-dies" \in Faults /\ pc # "dead" /\ Exits(g)

\* A symbolizer leaves when its stdin is closed.
ChildSeesEndOfInput(g) == pc # "dead" /\ ~IsOpen(Out(g)) /\ Exits(g)

ChildBecomesZombie(g) ==
  /\ pc # "dead" /\ child[g] = "exiting"
  /\ child' = [child EXCEPT ![g] = "zombie"]
  /\ UNCHANGED <<pc, stopping, cmd, ret, object, forks, reused, fdt, todo, pipe>>

\* The threads of the host open and close descriptors of their own, between calls
\* and during one, between any two system calls of the library.
HostOpens(f) ==
  /\ pc # "dead" /\ fdt[f] = Free
  /\ fdt' = [fdt EXCEPT ![f] = Host]
  /\ reused' = (reused \/ (pc \in InCall /\ ~stopping /\ f \in {input_fd_, output_fd_}))
  /\ UNCHANGED <<pc, stopping, cmd, ret, object, forks, child, todo, pipe>>

HostCloses(f) ==
  /\ pc # "dead" /\ fdt[f] = Host
  /\ fdt' = [fdt EXCEPT ![f] = Free]
  /\ UNCHANGED <<pc, stopping, cmd, ret, object, forks, reused, child, todo, pipe>>

-----------------------------------------------------------------------------
Library ==
  \/ GiveUp \/ SendNotStarted \/ Write \/ WriteBrokenPipe \/ WriteBadDescriptor
  \/ ReadSome \/ ReadEndOfFile \/ ReadBadDescriptor
  \/ RestartIsRunning \/ Kill \/ Sigkill \/ CloseFiles
  \/ StartFails \/ StartForks \/ StartupCheck

Child ==
  \/ ChildWrites
  \/ \E g \in Pids : ChildDies(g) \/ ChildSeesEndOfInput(g) \/ ChildBecomesZombie(g)

HostProgram ==
  \/ SendCommand \/ StopTheWorld
  \/ \E f \in FD : HostOpens(f) \/ HostCloses(f)

\* Nothing happens any more once the host is gone, or has stopped the tool.
Done == pc \in {"stopped", "dead"} /\ UNCHANGED vars

Signal == ReadInterrupted \/ WriteInterrupted

\* Calls on a descriptor of the host's, which may block for as long as the host likes.
Foreign == WriteForeign \/ ReadForeign

Next == Library \/ Signal \/ Foreign \/ Child \/ HostProgram \/ Done

Spec == Init /\ [][Next]_vars

\* The library's thread runs; a child writes the output of the commands it read,
\* leaves at the end of its input, and the kernel completes its exit.  Nothing
\* makes the host call, a fault happen, a signal arrive or a call on a descriptor of
\* the host's return.
Fairness ==
  /\ WF_vars(Library)
  /\ WF_vars(ChildWrites)
  /\ \A g \in Pids : WF_vars(ChildSeesEndOfInput(g)) /\ WF_vars(ChildBecomesZombie(g))

FairSpec == Spec /\ Fairness

-----------------------------------------------------------------------------
(* Properties                                                              *)

(***************************************************************************)
(* A thread of the host can be given a number in the middle of a call that *)
(* the object has closed and will still write to, read from or close:      *)
(* between the closes of Kill and those of Restart, and from a start that  *)
(* failed to the next round's write.  Nothing protects a descriptor opened *)
(* there, and what is written to or read from it is not a conversation     *)
(* with a symbolizer.  `reused' marks the calls this has happened to, up   *)
(* to the next fork; a property that does not survive it says so.          *)
(***************************************************************************)

\* Every variable keeps its type.  Not for free: forks and the domain of child
\* stay in range only because the restart budget bounds the calls of fork(), and
\* SendCommand's loop condition is the only bound in the code.
TypeOK ==
  /\ pc \in Control /\ stopping \in BOOLEAN
  /\ cmd \in 0..MaxCalls /\ ret \in {"none", "null", "data"}
  /\ active_pid_ \in {NoPid} \cup Pids
  /\ input_fd_ \in {kInvalidFd} \cup FD /\ output_fd_ \in {kInvalidFd} \cup FD
  /\ buffer_ \in Seq(Piece)
  /\ times_restarted_ \in 0..kMaxTimesRestarted /\ failed_to_start_ \in BOOLEAN
  /\ forks \in 0..kMaxTimesRestarted /\ child \in [Pids -> ChildState]
  /\ fdt \in [FD -> Owner]
  /\ todo \in Seq(Piece) /\ pipe \in Seq(Piece) /\ reused \in BOOLEAN

\* What SendCommand returns is the beginning of the output of that very command:
\* no answer to an earlier command, and nothing from an earlier child, survives
\* a restart to be taken for the answer to this one.  The header promises the
\* result "after the last request sent out".
ReplyAnswersRequest ==
  pc = "idle" /\ ret = "data" /\ ~reused =>
    /\ Len(buffer_) <= Size(cmd)
    /\ \A i \in 1..Len(buffer_) : buffer_[i] = Answer(cmd)[i]

\* A successful SendCommand returns the whole output of the command, for
\* addr2line without the answer to the dummy address that ends it.
Complete(c)   == IF Tool = "addr2line" THEN SubSeq(Answer(c), 1, Size(c) - 1) ELSE Answer(c)
ReplyComplete == pc = "idle" /\ ret = "data" /\ ~reused => buffer_ = Complete(cmd)

\* Only a child that is gone leaves a reply short: as long as it lives, wherever
\* read() cuts the output, the reply is whole and trimmed of the mark, although
\* addr2line's mark is a legal answer too.
LivingChildIsHeardOut ==
  pc = "idle" /\ ret = "data" /\ ~reused /\ child[forks] = "running" => buffer_ = Complete(cmd)

\* The CHECK on the end mark, or SIGPIPE, takes the host down only if the child is gone.
HostOutlivesChild == pc = "dead" /\ ~reused => child[forks] # "running"

\* The pipe ends the library holds are those of the youngest child, under the
\* numbers the object knows: whatever sequence of failed starts, kills and
\* restarts came before, no descriptor of an earlier child is left open (an
\* earlier child therefore sees the end of its input).
NoLeakedDescriptor ==
  \A f \in FD, g \in Pids :
    /\ fdt[f] = In(g)  => g = forks /\ f = input_fd_
    /\ fdt[f] = Out(g) => g = forks /\ f = output_fd_

\* Kill closes descriptors only when waitpid found active_pid_ unreaped; then they
\* are the pipes of that very child, although active_pid_ and the descriptors are
\* updated at different points of StartSymbolizerSubprocess and Kill, and each
\* may outlive the other.
KillClosesOwnPipes ==
  active_pid_ # NoPid /\ child[active_pid_] # "reaped" =>
    /\ active_pid_ = forks
    /\ input_fd_ # kInvalidFd /\ output_fd_ # kInvalidFd
    /\ fdt[input_fd_] = In(forks) /\ fdt[output_fd_] = Out(forks)

\* The object keeps the numbers of closed descriptors from one call to the next, and
\* the host may be given the same numbers between the calls; still no command is
\* written to, and no reply read from, one of these.  What the library does use of
\* the host's is a number that was reused since, in the middle of this very call.
NoForeignIO ==
  ~reused => /\ MayTry /\ ~NotStarted => fdt[output_fd_] # Host
             /\ pc = "read" => fdt[input_fd_] = In(forks)

\* The closing of stale numbers (Kill and then Restart close the same pair twice)
\* closes no descriptor of the host, unless it was opened between the two.
HostDescriptorsUntouched ==
  [][~reused => \A f \in FD : fdt[f] = Host => fdt'[f] = Host \/ HostCloses(f)]_vars

\* The restart budget is for the life of the object: rounds are counted, never
\* reset, every fork belongs to one round, and the object fails for good exactly
\* when the budget is spent.
BudgetAccountsForks ==
  /\ forks <= times_restarted_ + (IF pc = "startup" THEN 1 ELSE 0)
  /\ failed_to_start_ => times_restarted_ = kMaxTimesRestarted
  /\ times_restarted_ = kMaxTimesRestarted => failed_to_start_ \/ pc = "send"

\* After giving up the object never starts a child, never uses a pipe and never
\* returns an answer again, whatever becomes of the child it still holds.
FailureIsFinal ==
  [][failed_to_start_ => /\ failed_to_start_' /\ ret' # "data"
                         /\ UNCHANGED <<forks, times_restarted_, buffer_>>]_vars

\* No CHECK and no SIGPIPE takes the host program down, but for a conversation with
\* one of its own descriptors.
HostSurvives == pc = "dead" => reused

\* "Send SIGKILL to a child process and wait for it" (symbolizer.cpp:268): the
\* signal goes to a child that is still there.
SigkillHitsChild == pc = "sigkill" => child[active_pid_] # "reaped"

\* "Destroy all SymbolizerProcess related stuffs" (symbolizer.h:72): nothing of
\* the object's is left open when StopTheWorld is over.
StopReleasesAll == pc = "stopped" => \A f \in FD : fdt[f] \in {Free, Host}

\* read() has no timeout, and it never waits for a child that has nothing more to
\* write: however the output was cut, and whatever late answer came before it, the
\* end of the answer to the current command is recognised when it has been read.
NeverWaitsInVain ==
  pc = "read" /\ ~reused /\ pipe = <<>> /\ child[forks] = "running" => todo # <<>>

\* How far a call is from its end: the rounds left, the steps left of the round, and
\* what may still be read.
StepsLeft == [send |-> 7, restart |-> 6, kill |-> 5, sigkill |-> 4, close |-> 3, start |-> 2,
              startup |-> 1, read |-> 1]
Unread == Len(pipe) + Len(todo)

ComesNearer ==
  \/ times_restarted_' > times_restarted_
  \/ times_restarted_' = times_restarted_ /\ StepsLeft[pc'] < StepsLeft[pc]
  \/ times_restarted_' = times_restarted_ /\ pc' = pc /\ Unread' < Unread

\* The library stands still, and there is not more to read than before.
StaysAsNear == UNCHANGED <<pc, stopping, cmd, ret, object>> /\ Unread' <= Unread

\* The restart loop and the loop of ReadFromSymbolizer cannot go round for ever: every
\* step of a call brings it nearer to its end, whatever fails, and nothing a child
\* does meanwhile takes it back.
CallMakesProgress ==
  [][{pc, pc'} \subseteq InCall => ComesNearer \/ StaysAsNear]_vars

\* The library waits for somebody other than its child.
WaitsForHost ==
  \/ pc = "read" /\ fdt[input_fd_] = Host
  \/ MayTry /\ ~NotStarted /\ fdt[output_fd_] = Host

\* A call of SendCommand returns (or takes the host down), unless it comes to use a
\* descriptor of another thread: the restart loop is bounded and every blocking read
\* of a pipe of its own is ended by an answer or by the child's exit.
CallReturns == pc \in InCall /\ ~stopping ~> pc \in {"idle", "dead"} \/ (reused /\ WaitsForHost)

\* StopTheWorld comes to an end, and although Kill signals nobody, in the end no
\* child is left running: its stdin was closed.
StoppedChildrenLeave == stopping ~> pc = "stopped" /\ \A g \in Pids : child[g] # "running"

=============================================================================
