--------------------------- MODULE StartSubprocess ---------------------------
(***************************************************************************)
(* How the pipes of a symbolizer child are made and handed over:           *)
(* CreateTwoHighNumberedPipes and StartSubprocess of lib/symbolizer.cpp,   *)
(* as SymbolizerProcess::StartSymbolizerSubprocess calls them.  The parent *)
(* makes pipes until two of them have only descriptors above stderr (the   *)
(* host may have closed its standard streams), closes the others and       *)
(* forks; the child moves its ends to stdin and stdout and closes the      *)
(* rest.  Other threads of the host open and close descriptors of their    *)
(* own all the while.                                                      *)
(*                                                                         *)
(* A definition whose name ends in _Slip is the definition that follows it *)
(* with a plausible slip in it; none is part of the specification.         *)
(***************************************************************************)
EXTENDS Integers

CONSTANTS
  FD,            \* the descriptor numbers the host may have open (RLIMIT_NOFILE)
  MaxHostMoves   \* bound: descriptors opened or closed by other threads

ASSUME FDAssumption == FD \subseteq Nat /\ 0..2 \subseteq FD
ASSUME MovesAssumption == MaxHostMoves \in Nat

VARIABLES
  fdt,           \* the parent's table of open descriptors
  pc, i, j,      \* the parent: step, loop counters
  sock_pair,     \* sock_pair[k]: the descriptors of the k-th pipe, read end and write end
  infd, outfd,   \* the pipes chosen, None while there is none
  cpc, cfd,      \* the child: step, table of open descriptors
  moves          \* what the other threads have done so far

parent == <<pc, i, j, sock_pair, infd, outfd>>
kid    == <<cpc, cfd>>
vars   == <<fdt, parent, kid, moves>>

kPipes_Slip == 4
kPipes == 5
Pipes  == 0..kPipes - 1
None   == -1

Free == <<"free", 0>>
Host == <<"host", 0>>
R(k) == <<"read end", k>>
W(k) == <<"write end", k>>
End  == {R(k) : k \in Pipes} \cup {W(k) : k \in Pipes}
Open == {Free, Host} \cup End

Init ==
  /\ fdt \in [FD -> {Free, Host}]
  /\ pc = "pipe" /\ i = 0 /\ j = 0
  /\ sock_pair = [k \in Pipes |-> <<0, 0>>]
  /\ infd = None /\ outfd = None
  /\ cpc = "unborn" /\ cfd = fdt
  /\ moves = 0

-----------------------------------------------------------------------------
(* CreateTwoHighNumberedPipes                                              *)

\* pipe() failed (no descriptor left, or any other reason): undo.
PipeFails ==
  /\ pc = "pipe"
  /\ pc' = "undo" /\ j' = 0
  /\ UNCHANGED <<fdt, i, sock_pair, infd, outfd, kid, moves>>

High(pair) == pair[1] > 2 /\ pair[2] > 2

\* The kernel hands out the lowest free numbers, in order.
Lowest(a, b) == /\ a \in FD /\ b \in FD /\ a < b /\ fdt[a] = Free /\ fdt[b] = Free
                /\ \A f \in FD : fdt[f] = Free => f \in {a, b} \/ f > b

PipeOpens(a, b) ==
  /\ pc = "pipe"
  /\ Lowest(a, b)
  /\ fdt' = [fdt EXCEPT ![a] = R(i), ![b] = W(i)]
  /\ sock_pair' = [sock_pair EXCEPT ![i] = <<a, b>>]

\* The end of a round of the loop that found no second pair.
NextRound == i' = i + 1 /\ pc' = IF i + 1 < kPipes THEN "pipe" ELSE "check"

PipeTooLow(a, b) ==
  /\ PipeOpens(a, b) /\ ~High(<<a, b>>)
  /\ NextRound
  /\ UNCHANGED <<j, infd, outfd, kid, moves>>

FirstPipe_Slip(a, b) ==
  /\ PipeOpens(a, b) /\ infd = None
  /\ infd' = i
  /\ NextRound
  /\ UNCHANGED <<j, outfd, kid, moves>>

FirstPipe(a, b) ==
  /\ PipeOpens(a, b) /\ High(<<a, b>>) /\ infd = None
  /\ infd' = i
  /\ NextRound
  /\ UNCHANGED <<j, outfd, kid, moves>>

SecondPipe_Slip(a, b) ==
  /\ PipeOpens(a, b) /\ High(<<a, b>>) /\ infd # None
  /\ outfd' = i + 1
  /\ pc' = "tidy" /\ j' = 0
  /\ UNCHANGED <<i, infd, kid, moves>>

SecondPipe(a, b) ==
  /\ PipeOpens(a, b) /\ High(<<a, b>>) /\ infd # None
  /\ outfd' = i
  /\ pc' = "tidy" /\ j' = 0
  /\ UNCHANGED <<i, infd, kid, moves>>

Ends(k) == {sock_pair[k][1], sock_pair[k][2]}
Close(fds) == fdt' = [f \in FD |-> IF f \in fds THEN Free ELSE fdt[f]]

\* The pairs before the i-th are closed one by one: all of them, or all but infd.
Undo ==
  /\ pc = "undo" /\ j < i
  /\ Close(Ends(j)) /\ j' = j + 1
  /\ UNCHANGED <<pc, i, sock_pair, infd, outfd, kid, moves>>

Undone ==
  /\ pc = "undo" /\ j = i
  /\ pc' = "failed"
  /\ UNCHANGED <<fdt, i, j, sock_pair, infd, outfd, kid, moves>>

\* Starts from the first pair again at every round.
Tidy_Slip ==
  /\ pc = "tidy" /\ j < i
  /\ Close(UNION {Ends(k) : k \in (0..j) \ {infd}})
  /\ j' = j + 1
  /\ UNCHANGED <<pc, i, sock_pair, infd, outfd, kid, moves>>

Tidy ==
  /\ pc = "tidy" /\ j < i
  /\ IF j = infd THEN UNCHANGED fdt ELSE Close(Ends(j))
  /\ j' = j + 1
  /\ UNCHANGED <<pc, i, sock_pair, infd, outfd, kid, moves>>

Tidied ==
  /\ pc = "tidy" /\ j = i
  /\ pc' = "check"
  /\ UNCHANGED <<fdt, i, j, sock_pair, infd, outfd, kid, moves>>

\* CHECK(infd); CHECK(outfd): a failed CHECK exits the host.
Check ==
  /\ pc = "check"
  /\ pc' = IF infd = None \/ outfd = None THEN "dead" ELSE "fork"
  /\ UNCHANGED <<fdt, i, j, sock_pair, infd, outfd, kid, moves>>

-----------------------------------------------------------------------------
(* StartSubprocess                                                         *)

stdin_fd  == sock_pair[outfd][1]
stdout_fd == sock_pair[infd][2]

\* The library's own ends, input_fd_ and output_fd_ of the SymbolizerProcess.
input_fd  == sock_pair[infd][1]
output_fd == sock_pair[outfd][2]

Fork ==
  /\ pc = "fork"
  /\ pc' = "close"
  /\ cpc' = "stdin" /\ cfd' = fdt
  /\ UNCHANGED <<fdt, i, j, sock_pair, infd, outfd, moves>>

\* The caller returns without closing its own two.
ForkFails_Slip ==
  /\ pc = "fork"
  /\ pc' = "failed"
  /\ Close({stdin_fd, stdout_fd})
  /\ UNCHANGED <<i, j, sock_pair, infd, outfd, kid, moves>>

\* file_closer runs in the parent; the caller closes the other two.
ForkFails ==
  /\ pc = "fork"
  /\ pc' = "failed"
  /\ Close({stdin_fd, stdout_fd} \cup {input_fd, output_fd})
  /\ UNCHANGED <<i, j, sock_pair, infd, outfd, kid, moves>>

\* file_closer in the parent of a running child.
ParentCloses_Slip ==
  /\ pc = "close"
  /\ pc' = "started"
  /\ Close({stdin_fd})
  /\ UNCHANGED <<i, j, sock_pair, infd, outfd, kid, moves>>

ParentCloses ==
  /\ pc = "close"
  /\ pc' = "started"
  /\ Close({stdin_fd, stdout_fd})
  /\ UNCHANGED <<i, j, sock_pair, infd, outfd, kid, moves>>

\* dup2(fd, std); close(fd), in the child.
Moved(fd, std) ==
  cfd' = [f \in FD |-> IF f = fd THEN Free ELSE IF f = std THEN cfd[fd] ELSE cfd[f]]

ChildMovesStdin ==
  /\ cpc = "stdin"
  /\ cpc' = "stdout"
  /\ Moved(stdin_fd, 0)
  /\ UNCHANGED <<fdt, parent, moves>>

ChildMovesStdout ==
  /\ cpc = "stdout"
  /\ cpc' = "close all"
  /\ Moved(stdout_fd, 1)
  /\ UNCHANGED <<fdt, parent, moves>>

\* Every number above stderr, up to the limit, and execv.
ChildExecs ==
  /\ cpc = "close all"
  /\ cpc' = "exec"
  /\ cfd' = [f \in FD |-> IF f > 2 THEN Free ELSE cfd[f]]
  /\ UNCHANGED <<fdt, parent, moves>>

-----------------------------------------------------------------------------
(* Other threads of the host                                               *)

HostOpens(f) ==
  /\ moves < MaxHostMoves /\ moves' = moves + 1
  /\ fdt[f] = Free /\ \A g \in FD : fdt[g] = Free => f <= g
  /\ fdt' = [fdt EXCEPT ![f] = Host]
  /\ UNCHANGED <<parent, kid>>

HostCloses(f) ==
  /\ moves < MaxHostMoves /\ moves' = moves + 1
  /\ fdt[f] = Host
  /\ fdt' = [fdt EXCEPT ![f] = Free]
  /\ UNCHANGED <<parent, kid>>

-----------------------------------------------------------------------------
CreateTwoHighNumberedPipes ==
  \/ PipeFails
  \/ \E a, b \in FD : PipeTooLow(a, b) \/ FirstPipe(a, b) \/ SecondPipe(a, b)
  \/ Undo \/ Undone \/ Tidy \/ Tidied \/ Check

Start == Fork \/ ForkFails \/ ParentCloses \/ ChildMovesStdin \/ ChildMovesStdout \/ ChildExecs

HostThreads == \E f \in FD : HostOpens(f) \/ HostCloses(f)

Done ==
  /\ pc \in {"failed", "dead"} \/ (pc = "started" /\ cpc = "exec")
  /\ UNCHANGED vars

Next == CreateTwoHighNumberedPipes \/ Start \/ HostThreads \/ Done

Spec == Init /\ [][Next]_vars

-----------------------------------------------------------------------------
(* Properties                                                              *)

TypeOK ==
  /\ fdt \in [FD -> Open] /\ cfd \in [FD -> Open]
  /\ pc \in {"pipe", "undo", "tidy", "check", "fork", "close", "started", "failed", "dead"}
  /\ cpc \in {"unborn", "stdin", "stdout", "close all", "exec"}
  /\ i \in 0..kPipes /\ j \in 0..kPipes
  /\ sock_pair \in [Pipes -> FD \X FD]
  /\ infd \in {None} \cup Pipes /\ outfd \in {None} \cup Pipes
  /\ moves \in 0..MaxHostMoves

\* Five pipes are enough, whatever the other threads do between two calls of pipe():
\* the two CHECKs of CreateTwoHighNumberedPipes never take the host down.
ChecksPass == pc # "dead"

\* When all is done the parent holds its own two ends, both above stderr, and
\* nothing else of any pipe; when it failed it holds nothing.
NothingLost ==
  /\ pc = "failed"  => \A f \in FD : fdt[f] \in {Free, Host}
  /\ pc = "started" => /\ input_fd > 2 /\ fdt[input_fd] = R(infd)
                       /\ output_fd > 2 /\ fdt[output_fd] = W(outfd)
                       /\ \A f \in FD : fdt[f] \in {Free, Host} \/ f \in {input_fd, output_fd}

\* The program started reads what the parent writes on its stdin and writes what
\* the parent reads on its stdout, and holds no other end of a pipe: it sees the
\* end of its input when the parent closes output_fd, and the parent the end of
\* the output when it exits.
ChildIsWired ==
  cpc = "exec" => /\ infd # outfd
                  /\ cfd[0] = R(outfd) /\ cfd[1] = W(infd)
                  /\ \A f \in FD \ {0, 1} : cfd[f] \in {Free, Host}

\* No descriptor of the host is closed or replaced but by the host itself, although
\* the pairs out of the way are closed by number long after they were opened.
HostDescriptorsUntouched ==
  [][\A f \in FD : fdt[f] = Host => fdt'[f] = Host \/ HostCloses(f)]_vars

=============================================================================
