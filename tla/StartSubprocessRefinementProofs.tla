------------------- MODULE StartSubprocessRefinementProofs -------------------
(***************************************************************************)
(* StartSubprocess implements AtomicStart for any limit on descriptors,    *)
(* any set of open ones and any number of moves by other threads.          *)
(*                                                                         *)
(* The steps before the last one leave the host's descriptors as they are, *)
(* which is all that shows while the start is under way (Hidden).  The     *)
(* step that ends it is a success or a failure of the abstract start by    *)
(* what the invariant of StartSubprocessProofs says of the state after it. *)
(***************************************************************************)
EXTENDS StartSubprocessRefinement, StartSubprocessProofs

LEMMA InitRefines == Init => Atomic!Init
<1> SUFFICES ASSUME Init PROVE Atomic!Init
  OBVIOUS
<1>1. State = "starting" /\ fdt \in [FD -> {Free, Host}]
  BY DEF Init, State
<1>2. Table \in [FD -> {Free, Host}]
  BY <1>1 DEF Table
<1> QED BY <1>1, <1>2 DEF Atomic!Init, Atomic!Free, Atomic!Host, Free, Host

\* The library's own steps neither close a descriptor of the host nor make one.
LEMMA LibraryKeepsHosts ==
  ASSUME IInv, CreateTwoHighNumberedPipes \/ Start
  PROVE  \A f \in FD : fdt'[f] = Host <=> fdt[f] = Host
<1>0. fdt \in [FD -> Open]
  BY DEF IInv, TypeOK
<1>1. ASSUME NEW fds, Close(fds) PROVE \A f \in FD : fdt'[f] = Host => fdt[f] = Host
  BY <1>1, Owners DEF Close
<1>2. CASE Undo \/ Tidy \/ ForkFails \/ ParentCloses
  <2>1. HostKept
    BY <1>2, UndoInv, TidyInv, ForkFailsInv, ParentClosesInv
  <2>2. UNCHANGED fdt \/ \E fds : Close(fds)
    BY <1>2 DEF Undo, Tidy, ForkFails, ParentCloses
  <2> QED BY <1>1, <2>1, <2>2 DEF HostKept
<1>3. CASE UNCHANGED fdt
  BY <1>3
<1>4. ASSUME NEW a \in FD, NEW b \in FD, PipeOpens(a, b)
      PROVE  \A f \in FD : fdt'[f] = Host <=> fdt[f] = Host
  <2>1. fdt[a] = Free /\ fdt[b] = Free /\ fdt' = [fdt EXCEPT ![a] = R(i), ![b] = W(i)]
    BY <1>4 DEF PipeOpens, Lowest
  <2>2. R(i) # Host /\ W(i) # Host /\ Free # Host
    BY DEF R, W, Host, Free
  <2> QED BY <1>0, <2>1, <2>2
<1>5. CASE \E a, b \in FD : PipeTooLow(a, b) \/ FirstPipe(a, b) \/ SecondPipe(a, b)
  <2>1. PICK a \in FD, b \in FD : PipeOpens(a, b)
    BY <1>5 DEF PipeTooLow, FirstPipe, SecondPipe
  <2> QED BY <1>4, <2>1
<1> QED
  BY <1>2, <1>3, <1>5
  DEF CreateTwoHighNumberedPipes, Start, PipeFails, Undone, Tidied, Check, Fork,
      ChildMovesStdin, ChildMovesStdout, ChildExecs

\* As long as the start is under way, only the host's descriptors show.
LEMMA Hidden ==
  ASSUME State = "starting", State' = "starting",
         \A f \in FD : fdt'[f] = Host <=> fdt[f] = Host
  PROVE  UNCHANGED Table
BY DEF Table

\* Once it is over and failed, nothing but the host's descriptors is there to show.
LEMMA FailedStep ==
  ASSUME IInv, IInv', State = "starting", State' = "failed",
         \A f \in FD : fdt'[f] = Host <=> fdt[f] = Host
  PROVE  Atomic!Fails
<1>1. pc' = "failed" /\ fdt' \in [FD -> Open]
  BY DEF State, IInv, TypeOK
<1>2. \A f \in FD : fdt'[f] \in {Free, Host}
  <2>1. ReadEnds' = {} /\ WriteEnds' = {}
    BY <1>1 DEF ReadEnds, WriteEnds, Both
  <2> QED BY <1>1, <2>1, Owners DEF IInv, NothingElse
<1>3. Table' = fdt' /\ Table = [f \in FD |-> IF fdt[f] = Host THEN Host ELSE Free]
  BY DEF Table
<1>4. Table' = Table
  BY <1>1, <1>2, <1>3
<1> QED BY <1>4 DEF Atomic!Fails

\* Once it is over and succeeded, two numbers that were free are the library's.
LEMMA StartedStep ==
  ASSUME IInv, IInv', ParentCloses
  PROVE  Atomic!Succeeds
<1>0. /\ pc = "close" /\ pc' = "started" /\ UNCHANGED <<sock_pair, infd, outfd>>
      /\ State = "starting" /\ State' = "started"
  BY DEF ParentCloses, State
<1>1. /\ infd \in Pipes /\ outfd \in Pipes /\ infd # outfd
      /\ input_fd \in FD /\ output_fd \in FD /\ input_fd > 2 /\ output_fd > 2
  BY <1>0, Pair, Numbers DEF High, input_fd, output_fd
<1>2. fdt[input_fd] = R(infd) /\ fdt[output_fd] = W(outfd)
  BY <1>0 DEF IInv, Held, ReadEnds, WriteEnds, Both, input_fd, output_fd
<1>3. fdt'[input_fd] = R(infd) /\ fdt'[output_fd] = W(outfd)
  <2>1. infd \in ReadEnds' /\ outfd \in WriteEnds'
    BY <1>0 DEF ReadEnds, WriteEnds, Both
  <2> QED BY <1>0, <2>1 DEF IInv, Held, input_fd, output_fd
<1>4. \A f \in FD \ {input_fd, output_fd} : fdt'[f] \in {Free, Host}
  <2>1. ReadEnds' = {infd} /\ WriteEnds' = {outfd} /\ fdt' \in [FD -> Open]
    BY <1>0 DEF ReadEnds, WriteEnds, Both, IInv, TypeOK
  <2> QED BY <1>0, <2>1, Owners DEF IInv, NothingElse, input_fd, output_fd
<1>5. \A f \in FD : fdt'[f] = Host <=> fdt[f] = Host
  BY LibraryKeepsHosts DEF Start
<1>6. input_fd # output_fd
  BY <1>2, Owners
<1>7. /\ Table[input_fd] = Free /\ Table[output_fd] = Free
      /\ Table = [f \in FD |-> IF fdt[f] = Host THEN Host ELSE Free]
  BY <1>0, <1>1, <1>2, Owners DEF Table
<1>8. Table' = [f \in FD |-> IF fdt'[f] = R(infd) THEN In ELSE IF fdt'[f] = W(outfd) THEN Out ELSE fdt'[f]]
  BY <1>0 DEF Table
<1>9. Table' = [Table EXCEPT ![input_fd] = In, ![output_fd] = Out]
  <2>1. Table'[input_fd] = In /\ Table'[output_fd] = Out
    BY <1>1, <1>3, <1>8, Owners
  <2>2. ASSUME NEW f \in FD \ {input_fd, output_fd} PROVE Table'[f] = Table[f]
    BY <1>1, <1>4, <1>5, <1>7, <1>8, Owners
  <2> QED BY <1>1, <1>6, <1>7, <1>8, <2>1, <2>2
<1> QED
  BY <1>0, <1>1, <1>6, <1>7, <1>9
  DEF Atomic!Succeeds, Atomic!Free, Atomic!In, Atomic!Out, Free, In, Out

\* What other threads do shows as it is, in every state of the start.
LEMMA HostStep ==
  ASSUME IInv, HostThreads
  PROVE  Atomic!Next
<1>1. PICK g \in FD : HostOpens(g) \/ HostCloses(g)
  BY DEF HostThreads
<1>2. UNCHANGED <<pc, sock_pair, infd, outfd>> /\ UNCHANGED State /\ fdt \in [FD -> Open]
  BY <1>1 DEF HostOpens, HostCloses, parent, State, IInv, TypeOK
<1>3. \A k : R(k) # Free /\ W(k) # Free /\ R(k) # Host /\ W(k) # Host
  BY DEF R, W, Free, Host
<1>4. ASSUME NEW from \in {Free, Host}, NEW to \in {Free, Host}, from # to,
             fdt[g] = from, fdt' = [fdt EXCEPT ![g] = to]
      PROVE  Atomic!HostMoves(g, from, to)
  <2>1. Table[g] = from /\ DOMAIN Table = FD
    BY <1>2, <1>3, <1>4 DEF Table
  <2>2. Table'[g] = to /\ DOMAIN Table' = FD /\ \A f \in FD \ {g} : Table'[f] = Table[f]
    BY <1>2, <1>3, <1>4 DEF Table
  <2>3. Table' = [Table EXCEPT ![g] = to]
    BY <1>2, <1>4, <2>1, <2>2 DEF Table
  <2> QED BY <1>2, <2>1, <2>3 DEF Atomic!HostMoves
<1>5. Atomic!HostMoves(g, Free, Host) \/ Atomic!HostMoves(g, Host, Free)
  BY <1>1, <1>4, Owners DEF HostOpens, HostCloses
<1> QED BY <1>5 DEF Atomic!Next, Atomic!Free, Atomic!Host, Free, Host

LEMMA StepRefines == IInv /\ IInv' /\ [Next]_vars => [Atomic!Next]_(Atomic!vars)
<1> SUFFICES ASSUME IInv, IInv', [Next]_vars PROVE Atomic!Next \/ UNCHANGED <<Table, State>>
  BY DEF Atomic!vars
<1>0. pc # "dead" /\ pc' # "dead"
  BY DEF IInv, ChecksPass
<1>1. CASE HostThreads
  BY <1>1, HostStep
<1>2. CASE ParentCloses
  BY <1>2, StartedStep DEF Atomic!Next
<1>3. CASE Undone \/ ForkFails
  <2>1. State = "starting" /\ State' = "failed"
    BY <1>3 DEF Undone, ForkFails, State
  <2>2. Atomic!Fails
    BY <1>3, <2>1, FailedStep, LibraryKeepsHosts DEF CreateTwoHighNumberedPipes, Start
  <2> QED BY <2>2 DEF Atomic!Next
<1>4. CASE CreateTwoHighNumberedPipes \/ Fork
  <2>1. CASE ~Undone
    <3>1. State = "starting" /\ State' = "starting"
      BY <1>0, <1>4, <2>1 
      DEF CreateTwoHighNumberedPipes, PipeFails, PipeTooLow, FirstPipe, SecondPipe, PipeOpens,
          NextRound, Undo, Tidy, Tidied, Check, Fork, State
    <3> QED BY <1>4, <3>1, Hidden, LibraryKeepsHosts DEF Start
  <2> QED BY <1>3, <2>1
<1>5. CASE ChildMovesStdin \/ ChildMovesStdout \/ ChildExecs \/ UNCHANGED vars
  <2>1. UNCHANGED <<fdt, pc, sock_pair, infd, outfd>>
    BY <1>5 DEF ChildMovesStdin, ChildMovesStdout, ChildExecs, vars, parent
  <2> QED BY <2>1 DEF Table, State
<1> QED BY <1>1, <1>2, <1>3, <1>4, <1>5 DEF Next, Start, Done

\* The many calls of a start, with other threads in between, are one step for the
\* rest of the library: two descriptors above stderr, or no trace.
THEOREM StartIsAtomic == Spec => ImplementsAtomicStart
BY Invariance, InitRefines, StepRefines, PTL DEF Spec, ImplementsAtomicStart, Atomic!Spec

=============================================================================
