--------------------- MODULE SymbolizerProcessInvariant ---------------------
(***************************************************************************)
(* The inductive invariant of SymbolizerProcess: what is true between any  *)
(* two system calls of the library, and why the properties of that module  *)
(* hold.  Budget, Wiring and Awaited hold whatever goes wrong; Transfer    *)
(* needs that no signal interrupts a read, FedIsRunning that no child dies *)
(* on its own.                                                             *)
(***************************************************************************)
EXTENDS SymbolizerProcess

\* The restart budget, the call in progress and the verdict against the control state.
Budget ==
  /\ BudgetAccountsForks
  /\ stopping => pc \in {"kill", "sigkill", "stopped"}
  /\ pc \in InCall /\ ~stopping => ~failed_to_start_ /\ cmd > 0
  /\ pc \in InCall => ret = "none"
  /\ failed_to_start_ => ret # "data"

\* The two descriptors are the library's ends of the youngest child's pipes.
OwnPipes ==
  /\ forks \in Pids
  /\ input_fd_ \in FD /\ fdt[input_fd_] = In(forks)
  /\ output_fd_ \in FD /\ fdt[output_fd_] = Out(forks)

Numbers == {input_fd_, output_fd_} \cap FD

\* No pipe end is open but those, and which numbers are known to be good when.
NothingElseOpen  == \A f \in FD : fdt[f] \notin {Free, Host} => OwnPipes /\ f \in Numbers
ClosedAtStart    == pc = "start" => \A f \in FD : fdt[f] \in {Free, Host}
OpenInUse        == pc \in {"startup", "sigkill"} \/ (pc = "read" /\ ~reused) => OwnPipes
NumbersInUse     == pc = "read" => {input_fd_, output_fd_} \subseteq FD
ReadyBetween     == pc = "idle" /\ ~failed_to_start_ /\ ~reused =>
                      \/ OwnPipes
                      \/ input_fd_ = kInvalidFd /\ output_fd_ = kInvalidFd
NumbersNotReused == pc \in InCall /\ ~stopping /\ ~reused => \A f \in Numbers : fdt[f] # Host
\* Only numbers that are closed can be reused: the pipes of a new child end the matter.
ReusedAreClosed  == reused => ~OwnPipes
NothingInClosed  == ~OwnPipes => pipe = <<>> /\ todo = <<>>

\* The active child against the descriptors and the control state.
ActiveIsBorn     == active_pid_ # NoPid => active_pid_ \in 1..forks /\ child[active_pid_] # "unborn"
ActiveHoldsPipes == active_pid_ # NoPid /\ child[active_pid_] # "reaped" =>
                      active_pid_ = forks /\ OwnPipes
ActiveIsDone     == pc \in {"close", "start", "startup"} /\ active_pid_ # NoPid =>
                      child[active_pid_] = "reaped"
SignalledIsDone  == pc = "sigkill" => active_pid_ = forks /\ child[forks] = "reaped"

Wiring ==
  /\ NothingElseOpen /\ ClosedAtStart /\ OpenInUse /\ NumbersInUse /\ ReadyBetween
  /\ NumbersNotReused /\ ReusedAreClosed /\ NothingInClosed
  /\ ActiveIsBorn /\ ActiveHoldsPipes /\ ActiveIsDone /\ SignalledIsDone

\* Children are born in the order of their pids, and a child that is fed commands
\* and still runs is the active one, except until its startup check.
BornInOrder == \A g \in Pids : child[g] = "unborn" <=> g > forks
FedIsActive == pc # "startup" /\ OwnPipes /\ child[forks] = "running" => active_pid_ = forks
Lives == BornInOrder /\ FedIsActive

\* s continues the answer to the current command after its first n pieces.
Continues(s, n) == \A i \in 1..Len(s) : s[i] = <<cmd, n + i>>

\* Read, in the pipe, and not written yet: together these make up the answer to
\* the current command, until a child that leaves takes the last part with it.
InTransit ==
  /\ Continues(buffer_, 0)
  /\ Continues(pipe, Len(buffer_))
  /\ Continues(todo, Len(buffer_) + Len(pipe))
  /\ Len(buffer_) < Size(cmd)
  /\ Len(buffer_) + Len(pipe) + Len(todo) <= Size(cmd)
  /\ child[forks] # "running" => todo = <<>>

Transfer ==
  /\ pc = "read" /\ ~reused => InTransit
  /\ pc \notin {"read", "dead"} => pipe = <<>> /\ todo = <<>>
  /\ ReplyAnswersRequest

\* Whatever a signal left in the pipe before it, the answer to the current command is
\* on its way as long as the child lives: its last piece is the last one written, in
\* the pipe or read, and when it has been read the end is recognised.
Awaited ==
  pc = "read" /\ ~reused =>
    /\ ~ReachedEndOfOutput(buffer_)
    /\ child[forks] = "running" =>
         LET last == <<cmd, Size(cmd)>> IN
         /\ Len(buffer_) + Len(pipe) + Len(todo) >= Size(cmd)
         /\ todo # <<>> => todo[Len(todo)] = last
         /\ todo = <<>> /\ pipe # <<>> => pipe[Len(pipe)] = last
         /\ todo = <<>> /\ pipe = <<>> => buffer_[Len(buffer_)] = last

\* Unless a child dies on its own, one whose stdin is open runs.
FedIsRunning == \A g \in Pids : IsOpen(Out(g)) => child[g] = "running"

=============================================================================
