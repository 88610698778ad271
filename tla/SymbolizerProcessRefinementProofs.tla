------------------ MODULE SymbolizerProcessRefinementProofs ------------------
(***************************************************************************)
(* SymbolizerProcess implements ProcessLife, and CommandChannel unless a   *)
(* signal interrupts a read, for every value of the constants.             *)
(***************************************************************************)
EXTENDS SymbolizerProcessRefinement, SymbolizerProcessProofs

Inv == TypeOK /\ Budget /\ Wiring /\ Transfer

\* Inv is an invariant of the process.
LEMMA InvHolds ==
  ASSUME "eintr" \notin Faults
  PROVE  Spec => []Inv
<1>1. Init => Inv
  BY TypeInit, BudgetInit, WiringInit, TransferInit DEF Inv
<1>2. Inv /\ [Next]_vars => Inv'
  <2>. SUFFICES ASSUME TypeOK, Budget, Wiring, Transfer, [Next]_vars PROVE Inv'
    BY DEF Inv
  <2>1. TypeOK'
    BY TypeStep
  <2>2. Budget' /\ Wiring'
    BY <2>1, BudgetStep, WiringStep
  <2>3. Transfer'
    BY <2>1, <2>2, TransferStep, Zenon
  <2>. QED  BY <2>1, <2>2, <2>3 DEF Inv
<1>. QED  BY <1>1, <1>2, PTL DEF Spec

\* A reply that answers the current command is a beginning of its output.
LEMMA ReplyIsBeginning ==
  ASSUME NEW c \in Command, NEW s \in Seq(Piece), Len(s) <= Size(c),
         \A i \in 1..Len(s) : s[i] = Answer(c)[i]
  PROVE  s \in Channel!Beginnings(Answer(c))
<1>1. Len(s) \in 0..Len(Answer(c))
  BY AnswerIsSequence, LenProperties
<1>2. /\ SubSeq(Answer(c), 1, Len(s)) \in Seq(Piece)
      /\ Len(SubSeq(Answer(c), 1, Len(s))) = Len(s)
      /\ \A i \in 1..Len(s) : SubSeq(Answer(c), 1, Len(s))[i] = Answer(c)[i]
  BY <1>1, AnswerIsSequence, Cut
<1>3. s = SubSeq(Answer(c), 1, Len(s))
  BY <1>2, SeqEqual
<1>. QED  BY <1>1, <1>3, Zenon DEF Channel!Beginnings

LEMMA InitRefines == Init => Channel!Init
BY DEF Init, Channel!Init, Phase, InCall


\* A step of a call in which a number was reused, into one or out of one.
LEMMA VoidChannel ==
  ASSUME TypeOK, Budget, [Next]_vars, reused \/ reused'
  PROVE  Channel!Void
BY FinalStep DEF Channel!Void, Final, Phase

LEMMA StepRefines == Inv /\ Inv' /\ [Next]_vars => [Channel!Next]_(Channel!vars)
<1>. SUFFICES ASSUME Inv, Inv', [Next]_vars, ~reused, ~reused'
              PROVE  Channel!Next \/ UNCHANGED Channel!vars
  BY VoidChannel DEF Inv, Channel!Next
<1>. USE DEF object, system, Phase, InCall
<1>a. /\ stopping => pc \in {"kill", "sigkill", "stopped"}
      /\ stopping' => pc' \in {"kill", "sigkill", "stopped"}
      /\ pc \in InCall => ret = "none"
      /\ pc \in InCall /\ ~stopping => ~failed_to_start_ /\ cmd \in Command
  BY Constants DEF Inv, TypeOK, Budget, Command
<1>1. CASE SendCommand
  <2>1. Channel!Call
    BY <1>1, <1>a DEF SendCommand, Channel!Call
  <2>. QED  BY <2>1 DEF Channel!Next
<1>2. CASE GiveUp
  <2>1. Channel!ReturnNull
    BY <1>2, <1>a DEF GiveUp, Channel!ReturnNull
  <2>. QED  BY <2>1 DEF Channel!Next
<1>3. CASE SendNotStarted \/ Write \/ WriteBadDescriptor \/ WriteInterrupted
  BY <1>3, <1>a DEF SendNotStarted, Write, WriteBadDescriptor, WriteInterrupted, MayTry, Channel!vars
<1>4. CASE WriteBrokenPipe
  <2>1. CASE pc' = "restart"
    BY <1>4, <1>a, <2>1 DEF WriteBrokenPipe, MayTry, Channel!vars
  <2>2. CASE pc' = "dead"
    <3>1. Channel!HostDies
      BY <1>4, <1>a, <2>2 DEF WriteBrokenPipe, MayTry, Channel!HostDies
    <3>. QED  BY <3>1 DEF Channel!Next
  <2>. QED  BY <1>4, <2>1, <2>2 DEF WriteBrokenPipe, FailsOrKills
<1>5. ASSUME NEW buf, pc = "read", FinishRead(buf) PROVE Channel!Next
  <2>1. CASE pc' = "dead"
    <3>1. Channel!HostDies
      BY <1>5, <1>a, <2>1 DEF FinishRead, Channel!HostDies
    <3>. QED  BY <3>1 DEF Channel!Next
  <2>2. CASE pc' = "idle"
    <3>1. ret' = "data" /\ UNCHANGED <<stopping, cmd, failed_to_start_>>
      BY <1>5, <2>2 DEF FinishRead
    <3>2. buffer_' \in Channel!Beginnings(Answer(cmd))
      BY <1>5, <1>a, <2>2, <3>1, ReplyIsBeginning DEF Inv, TypeOK, Transfer, ReplyAnswersRequest
    <3>3. Channel!Reply
      BY <1>5, <1>a, <2>2, <3>1, <3>2 DEF Channel!Reply
    <3>. QED  BY <3>3 DEF Channel!Next
  <2>. QED  BY <1>5, <2>1, <2>2 DEF FinishRead
<1>6. CASE ReadSome \/ ReadEndOfFile \/ ReadInterrupted
  <2>1. pc = "read" /\ ((\E buf : FinishRead(buf)) \/ UNCHANGED <<pc, stopping, cmd, ret, failed_to_start_>>)
    BY <1>6 DEF ReadSome, ReadEndOfFile, ReadInterrupted
  <2>. QED  BY <1>5, <1>a, <2>1 DEF Channel!vars
<1>7. CASE RestartIsRunning \/ CloseFiles \/ StartFails \/ StartForks \/ StartupCheck
  BY <1>7, <1>a DEF RestartIsRunning, CloseFiles, StartFails, StartForks, StartupCheck, RoundEnds,
                    Channel!vars
<1>8. CASE Kill \/ Sigkill
  <2>1. /\ UNCHANGED <<stopping, cmd, ret, buffer_, failed_to_start_>> /\ pc \in {"kill", "sigkill"}
        /\ pc' = "sigkill" \/ AfterKill
    BY <1>8 DEF Kill, Sigkill, KillFails, KillSucceeds
  <2>2. CASE stopping /\ AfterKill
    <3>1. Channel!Stopped
      BY <2>1, <2>2 DEF AfterKill, Channel!Stopped
    <3>. QED  BY <3>1 DEF Channel!Next
  <2>3. CASE ~(stopping /\ AfterKill)
    BY <2>1, <2>3 DEF AfterKill, Channel!vars
  <2>. QED  BY <2>2, <2>3
<1>9. CASE StopTheWorld
  <2>1. Channel!Stop
    BY <1>9, <1>a DEF StopTheWorld, Channel!Stop
  <2>. QED  BY <2>1 DEF Channel!Next
<1>10. CASE ChildWrites
  BY <1>10 DEF ChildWrites, Channel!vars
<1>11. ASSUME NEW g \in Pids, Exits(g) \/ ChildBecomesZombie(g) PROVE UNCHANGED Channel!vars
  BY <1>11 DEF Exits, ChildBecomesZombie, Channel!vars
<1>12. ASSUME NEW f \in FD, HostOpens(f) \/ HostCloses(f) PROVE UNCHANGED Channel!vars
  BY <1>12 DEF HostOpens, HostCloses, Channel!vars
<1>13. CASE UNCHANGED vars
  BY <1>13 DEF vars, Channel!vars
<1>14. ~(WriteForeign \/ ReadBadDescriptor \/ ReadForeign)
  BY ForeignIsReuse DEF Inv
<1>. QED
  BY <1>1, <1>2, <1>3, <1>4, <1>6, <1>7, <1>8, <1>9, <1>10, <1>11, <1>12, <1>13, <1>14
  DEF Next, Library, Signal, Foreign, Child, HostProgram, Done, ChildDies, ChildSeesEndOfInput

\* The process, its children and its restarts look like a channel that answers each
\* command with a beginning of its own output, or gives up for good.
THEOREM ProcessImplementsChannel ==
  ASSUME "eintr" \notin Faults
  PROVE  Spec => ImplementsChannel
BY InvHolds, InitRefines, StepRefines, PTL DEF Spec, ImplementsChannel, Channel!Spec

-----------------------------------------------------------------------------
(* The life of the process, with any fault                                 *)

LEMMA LivesInit == Init => Lives
BY Constants, Distinct DEF Init, Lives, BornInOrder, FedIsActive, OwnPipes, Pids

\* waitpid changes nothing but a zombie, which it reaps.
LEMMA WaitReapsOnly ==
  ASSUME TypeOK, NEW h \in Int, WaitReaps(h)
  PROVE  \A g \in Pids : child'[g] = child[g] \/ (child[g] = "zombie" /\ child'[g] = "reaped")
BY DEF TypeOK, WaitReaps

LEMMA LivesStep == TypeOK /\ Budget /\ Wiring /\ TypeOK' /\ Lives /\ [Next]_vars => Lives'
<1>. SUFFICES ASSUME TypeOK, Budget, Wiring, TypeOK', Lives, [Next]_vars PROVE Lives'
  OBVIOUS
<1>. USE Constants, Distinct DEF Lives, BornInOrder, FedIsActive, OwnPipes, TypeOK, object, system
<1>1. CASE SendCommand \/ GiveUp \/ SendNotStarted \/ Write \/ WriteBrokenPipe \/ WriteBadDescriptor
           \/ WriteForeign \/ WriteInterrupted \/ StopTheWorld
  BY <1>1 DEF SendCommand, GiveUp, SendNotStarted, Write, WriteBrokenPipe, WriteBadDescriptor,
              WriteForeign, WriteInterrupted, StopTheWorld, FailsOrKills, MayTry
<1>2. CASE ReadSome \/ ReadEndOfFile \/ ReadBadDescriptor \/ ReadForeign \/ ReadInterrupted
  BY <1>2 DEF ReadSome, ReadEndOfFile, ReadBadDescriptor, ReadForeign, ReadInterrupted, FinishRead
<1>3. CASE RestartIsRunning \/ ChildWrites \/ StartFails
  BY <1>3 DEF RestartIsRunning, ChildWrites, WaitReaps, StartFails, RoundEnds
<1>4. CASE Kill \/ Sigkill \/ CloseFiles
  <2>0. UNCHANGED child \/ WaitReaps(active_pid_)
    BY <1>4 DEF Kill, Sigkill, CloseFiles
  <2>1. /\ pc # "startup" /\ UNCHANGED <<forks, input_fd_, output_fd_>>
        /\ \A g \in Pids : child'[g] = child[g] \/ (child[g] = "zombie" /\ child'[g] = "reaped")
    <3>1. pc # "startup" /\ UNCHANGED <<forks, input_fd_, output_fd_>>
      BY <1>4 DEF Kill, Sigkill, KillFails, KillSucceeds, CloseFiles
    <3>2. active_pid_ \in Int
      BY DEF NoPid, Pids
    <3>3. CASE UNCHANGED child
      BY <3>1, <3>3
    <3>. QED  BY <2>0, <3>1, <3>2, <3>3, WaitReapsOnly
  <2>2. UNCHANGED <<fdt, active_pid_>> \/ CloseBoth
    BY <1>4 DEF Kill, Sigkill, KillFails, KillSucceeds, CloseFiles
  <2>3. CASE CloseBoth
    BY <2>1, <2>3 DEF CloseBoth
  <2>4. CASE UNCHANGED <<fdt, active_pid_>>
    BY <2>1, <2>4
  <2>. QED  BY <2>2, <2>3, <2>4
<1>5. CASE StartForks
  BY <1>5 DEF StartForks, Pids
<1>6. CASE StartupCheck
  <2>1. /\ UNCHANGED <<forks, input_fd_, output_fd_, fdt>> /\ pc' = "send"
        /\ \A g \in Pids : child'[g] = child[g] \/ (child[g] = "zombie" /\ child'[g] = "reaped")
    <3>1. WaitReaps(forks) /\ UNCHANGED <<forks, input_fd_, output_fd_, fdt>> /\ pc' = "send"
      BY <1>6 DEF StartupCheck, RoundEnds
    <3>. QED  BY <3>1, WaitReapsOnly
  <2>2. BornInOrder'
    BY <2>1
  <2>3. forks \in Pids => (child'[forks] = "running" => active_pid_' = forks)
    BY <1>6 DEF StartupCheck, WaitReaps, StillRunning
  <2>. QED  BY <2>1, <2>2, <2>3
<1>7. ASSUME NEW g \in Pids, Exits(g) \/ ChildBecomesZombie(g) PROVE Lives'
  BY <1>7 DEF Exits, ChildBecomesZombie
<1>8. ASSUME NEW f \in FD, HostOpens(f) \/ HostCloses(f) PROVE Lives'
  <2>1. /\ UNCHANGED <<pc, forks, child, input_fd_, output_fd_, active_pid_>>
        /\ \A e \in FD : fdt'[e] = fdt[e] \/ fdt'[e] \in {Free, Host}
    BY <1>8 DEF HostOpens, HostCloses
  <2>2. OwnPipes' => OwnPipes
    BY <2>1
  <2>3. Lives'
    BY <2>1, <2>2
  <2>. QED  BY <2>3
<1>9. CASE UNCHANGED vars
  BY <1>9 DEF vars
<1>. QED
  BY <1>1, <1>2, <1>3, <1>4, <1>5, <1>6, <1>7, <1>8, <1>9
  DEF Next, Library, Signal, Foreign, Child, HostProgram, Done, ChildDies, ChildSeesEndOfInput

LifeInv == TypeOK /\ Budget /\ Wiring /\ Lives

LEMMA LifeInvHolds == Spec => []LifeInv
<1>1. Init => LifeInv
  BY TypeInit, BudgetInit, WiringInit, LivesInit DEF LifeInv
<1>2. LifeInv /\ [Next]_vars => LifeInv'
  BY TypeStep, BudgetStep, WiringStep, LivesStep DEF LifeInv
<1>. QED  BY <1>1, <1>2, PTL DEF Spec

\* The only child with an open input is the youngest, if the library has its pipes.
OwnFate(g) ==
  CASE child[g] = "unborn" -> "unborn"
    [] child[g] = "running" -> IF OwnPipes /\ g = forks THEN "running" ELSE "leaving"
    [] child[g] = "exiting" -> "leaving"
    [] OTHER -> "dead"
ViewIsOwn == /\ Current = IF OwnPipes THEN forks ELSE 0
             /\ \A g \in Pids : Fate(g) = OwnFate(g)

LEMMA OnlyYoungestIsFed ==
  TypeOK /\ Wiring => \A g \in Pids : IsOpen(Out(g)) <=> OwnPipes /\ g = forks
<1>. SUFFICES ASSUME TypeOK, Wiring, NEW g \in Pids PROVE IsOpen(Out(g)) <=> OwnPipes /\ g = forks
  OBVIOUS
<1>1. ASSUME IsOpen(Out(g)) PROVE OwnPipes /\ g = forks
  <2>1. PICK f \in FD : fdt[f] = Out(g)
    BY <1>1 DEF IsOpen
  <2>2. OwnPipes /\ f \in Numbers
    BY <2>1, Distinct DEF Wiring, NothingElseOpen, Pids
  <2>3. fdt[f] = In(forks) \/ fdt[f] = Out(forks)
    BY <2>2 DEF OwnPipes, Numbers
  <2>. QED  BY <2>1, <2>2, <2>3, Distinct DEF OwnPipes, Pids
<1>2. ASSUME OwnPipes, g = forks PROVE IsOpen(Out(g))
  BY <1>2 DEF OwnPipes, IsOpen
<1>. QED  BY <1>1, <1>2

LEMMA View == TypeOK /\ Wiring => ViewIsOwn
<1>. SUFFICES ASSUME TypeOK, Wiring PROVE ViewIsOwn
  OBVIOUS
<1>1. \A g \in Pids : IsOpen(Out(g)) <=> OwnPipes /\ g = forks
  BY OnlyYoungestIsFed
<1>2. forks # 0 <=> forks \in Pids
  BY Constants DEF TypeOK, Pids
<1>. QED  BY <1>1, <1>2 DEF ViewIsOwn, Current, Fate, OwnFate, OwnPipes

LEMMA ViewNext == TypeOK' /\ Wiring' => ViewIsOwn'
BY View, PTL

Kids == [g \in Pids |-> Fate(g)]

\* The owner's view depends on three variables.
LEMMA SameView == UNCHANGED <<forks, child, fdt>> => UNCHANGED <<Current, Kids>>
BY DEF Current, Kids, Fate, IsOpen

\* Reaping a child is invisible to the owner.
LEMMA ReapedView ==
  ASSUME TypeOK, NEW h \in Int, UNCHANGED child \/ WaitReaps(h), UNCHANGED <<forks, fdt>>
  PROVE  UNCHANGED <<Current, Kids>>
<1>1. CASE UNCHANGED child
  BY <1>1, SameView
<1>2. CASE WaitReaps(h)
  <2>1. ASSUME NEW g \in Pids PROVE Fate(g)' = Fate(g)
    BY <1>2, <2>1, WaitReapsOnly DEF Fate, IsOpen
  <2>. QED  BY <2>1 DEF Kids, Current, IsOpen
<1>. QED  BY <1>1, <1>2

\* Closing the descriptors takes its input from the child that was fed, if any.
LEMMA ClosedView ==
  ASSUME LifeInv, LifeInv', CloseBoth, UNCHANGED <<forks, child, input_fd_, output_fd_>>
  PROVE  /\ ~OwnPipes' /\ Current' = 0
         /\ Kids' = [g \in Pids |-> IF g = Current /\ Kids[g] = "running" THEN "leaving" ELSE Kids[g]]
<1>1. ~OwnPipes'
  BY Distinct DEF CloseBoth, OwnPipes, Pids
<1>2. ViewIsOwn /\ ViewIsOwn'
  BY View, ViewNext DEF LifeInv
<1>3. ASSUME NEW g \in Pids
      PROVE  Fate(g)' = IF g = Current /\ Fate(g) = "running" THEN "leaving" ELSE Fate(g)
  <2>1. Fate(g) = OwnFate(g) /\ Fate(g)' = OwnFate(g)'
    BY <1>2 DEF ViewIsOwn
  <2>2. g = Current <=> OwnPipes /\ g = forks
    BY <1>2 DEF ViewIsOwn, Pids
  <2>. QED  BY <1>1, <2>1, <2>2 DEF OwnFate
<1>. QED  BY <1>1, <1>2, <1>3 DEF ViewIsOwn, Kids

\* A step of a call in which a number was reused, into one or out of one.
LEMMA VoidLife ==
  ASSUME LifeInv, LifeInv', [Next]_vars, reused \/ reused'
  PROVE  Life!Void
<1>. USE DEF object, system
<1>1. reused => Current = 0
  BY View DEF LifeInv, Wiring, ReusedAreClosed, ViewIsOwn
<1>2. failed_to_start_ => failed_to_start_'
  BY FinalStep DEF LifeInv, Final
<1>3. ASSUME NEW g \in Pids, child[g] \in {"zombie", "reaped"}
      PROVE  child'[g] \in {"zombie", "reaped"}
  <2>. USE <1>3 DEF LifeInv, TypeOK
  <2>1. ASSUME NEW h \in Int, WaitReaps(h) PROVE child'[g] \in {"zombie", "reaped"}
    BY <2>1, WaitReapsOnly
  <2>2. active_pid_ \in Int /\ forks \in Int
    BY DEF NoPid, Pids
  <2>3. CASE RestartIsRunning \/ Kill \/ Sigkill \/ CloseFiles \/ StartFails \/ StartupCheck
    BY <2>1, <2>2, <2>3 DEF RestartIsRunning, Kill, Sigkill, CloseFiles, StartFails, StartupCheck
  <2>4. CASE StartForks
    <3>1. child[forks + 1] = "unborn"
      BY <2>4, Constants DEF StartForks, Budget, BudgetAccountsForks, Lives, BornInOrder, InCall, Pids
    <3>. QED  BY <2>4, <3>1 DEF StartForks
  <2>5. CASE GiveUp \/ SendNotStarted \/ Write \/ WriteBrokenPipe \/ WriteBadDescriptor
             \/ WriteForeign \/ WriteInterrupted
    BY <2>5 DEF GiveUp, SendNotStarted, Write, WriteBrokenPipe, WriteBadDescriptor, WriteForeign,
                WriteInterrupted
  <2>6. CASE ReadSome \/ ReadEndOfFile \/ ReadBadDescriptor \/ ReadForeign \/ ReadInterrupted
    BY <2>6 DEF ReadSome, ReadEndOfFile, ReadBadDescriptor, ReadForeign, ReadInterrupted, FinishRead
  <2>7. CASE ChildWrites \/ SendCommand \/ StopTheWorld \/ UNCHANGED vars
    BY <2>7 DEF ChildWrites, SendCommand, StopTheWorld, vars
  <2>8. ASSUME NEW h \in Pids, Exits(h) \/ ChildBecomesZombie(h)
        PROVE  child'[g] \in {"zombie", "reaped"}
    BY <2>8 DEF Exits, ChildBecomesZombie
  <2>9. ASSUME NEW f \in FD, HostOpens(f) \/ HostCloses(f) PROVE child'[g] \in {"zombie", "reaped"}
    BY <2>9 DEF HostOpens, HostCloses
  <2>. QED
    BY <2>3, <2>4, <2>5, <2>6, <2>7, <2>8, <2>9
    DEF Next, Library, Signal, Foreign, Child, HostProgram, Done, ChildDies, ChildSeesEndOfInput
<1>4. \A g \in Pids : Kids[g] = "dead" => Kids'[g] = "dead"
  <2>1. \A g \in Pids : child[g] \in ChildState /\ child'[g] \in ChildState
    BY DEF LifeInv, TypeOK
  <2>. QED  BY <1>3, <2>1 DEF Kids, Fate, ChildState
<1>5. (Phase = "void" <=> reused) /\ (Phase' = "void" <=> reused')
  BY DEF Phase, LifeInv, TypeOK, Control, InCall
<1>. QED  BY <1>1, <1>2, <1>4, <1>5 DEF Life!Void, Life!None, Kids

LEMMA LifeInit == Init => Life!Init
<1>. SUFFICES ASSUME Init PROVE Life!Init
  OBVIOUS
<1>1. Current = 0 /\ Kids = [g \in Pids |-> "unborn"]
  BY DEF Init, Current, Kids, Fate
<1>. QED  BY <1>1 DEF Init, Life!Init, Life!None, Phase, InCall, Kids

\* A system call that leaves the object's account of its children alone.
LEMMA QuietStep ==
  ASSUME ~reused, ~reused',
         UNCHANGED <<Current, Kids, forks, stopping, ret, failed_to_start_>>,
         pc' = pc \/ (~stopping /\ pc \in InCall /\ pc' \in InCall)
                  \/ (stopping /\ pc # "stopped" /\ pc' # "stopped")
  PROVE  UNCHANGED Life!vars
BY DEF Life!vars, Kids, Phase, InCall

\* The two CloseFile calls, of Restart or of Kill.
LEMMA ClosingStep ==
  ASSUME LifeInv, LifeInv', ~reused, ~reused', CloseBoth,
         UNCHANGED <<forks, child, input_fd_, output_fd_, stopping, ret, failed_to_start_>>,
         \/ stopping /\ pc \in {"kill", "sigkill"} /\ pc' = "stopped"
         \/ ~stopping /\ pc \in {"kill", "sigkill", "close"} /\ pc' \in {"close", "start"}
  PROVE  [Life!Next]_(Life!vars)
<1>. USE DEF Phase, InCall
<1>1. /\ Current' = 0
      /\ Kids' = [g \in Pids |-> IF g = Current /\ Kids[g] = "running" THEN "leaving" ELSE Kids[g]]
  BY ClosedView
<1>2. /\ Life!CloseInput(Current) = Kids'
      /\ ret = "none" /\ (~stopping => ~failed_to_start_)
  BY <1>1, Zenon DEF LifeInv, Budget, Life!CloseInput, Kids
<1>3. CASE stopping
  <2>1. Life!Stopped
    BY <1>1, <1>2, <1>3 DEF Life!Stopped, Life!None, Kids
  <2>. QED  BY <2>1 DEF Life!Next
<1>4. CASE ~stopping /\ Current # 0
  <2>1. Life!Restarts
    BY <1>1, <1>2, <1>4 DEF Life!Restarts, Life!None, Kids
  <2>. QED  BY <2>1 DEF Life!Next
<1>5. CASE ~stopping /\ Current = 0
  <2>1. Kids' = Kids
    BY <1>1, <1>5 DEF Kids, Pids
  <2>. QED  BY <1>1, <1>5, <2>1, QuietStep
<1>. QED  BY <1>3, <1>4, <1>5

\* Kill gave up: with the object kept, nothing happened; at the end of its life,
\* no child that still runs was left with an open input.
LEMMA KillFailsStep ==
  ASSUME LifeInv, LifeInv', ~reused, ~reused', KillFails, UNCHANGED child,
         \/ pc = "kill" /\ (active_pid_ = NoPid \/ child[active_pid_] = "reaped")
         \/ pc = "sigkill"
  PROVE  [Life!Next]_(Life!vars)
<1>. USE DEF Phase, InCall, object
<1>1. UNCHANGED <<Current, Kids, forks, fdt, child, stopping, ret, failed_to_start_>>
  BY SameView DEF KillFails
<1>2. CASE ~stopping
  BY <1>1, <1>2, QuietStep DEF KillFails, AfterKill
<1>3. CASE stopping
  <2>1. Current # 0 => Kids[Current] # "running"
    <3>1. ASSUME OwnPipes, child[forks] = "running" PROVE FALSE
      <4>1. active_pid_ = forks
        BY <3>1 DEF LifeInv, Lives, FedIsActive
      <4>. QED  BY <3>1, <4>1, Distinct DEF OwnPipes, LifeInv, Wiring, SignalledIsDone
    <3>2. ViewIsOwn
      BY View DEF LifeInv
    <3>. QED  BY <3>1, <3>2 DEF ViewIsOwn, OwnFate, Kids, OwnPipes
  <2>2. Life!CloseInput(Current) = Kids
    BY <2>1 DEF Life!CloseInput, Kids, Pids
  <2>3. ret = "none"
    BY DEF LifeInv, Budget
  <2>4. Life!Stopped
    BY <1>1, <1>3, <2>2, <2>3 DEF KillFails, AfterKill, Life!Stopped, Kids
  <2>. QED  BY <2>4 DEF Life!Next
<1>. QED  BY <1>2, <1>3

\* A child is forked when no pipe is open.
LEMMA StartForksStep ==
  ASSUME LifeInv, LifeInv', ~reused, ~reused', StartForks
  PROVE  Life!Starts
<1>1. /\ pc = "start" /\ pc' = "startup" /\ forks' = forks + 1
      /\ child' = [child EXCEPT ![forks + 1] = "running"]
      /\ UNCHANGED <<stopping, ret, failed_to_start_>>
  BY DEF StartForks
<1>2. ret = "none" /\ ~stopping /\ ~failed_to_start_
  BY <1>1 DEF LifeInv, Budget, InCall
<1>3. forks + 1 \in Pids /\ child[forks + 1] = "unborn"
  BY <1>1, Constants DEF LifeInv, TypeOK, Lives, BornInOrder, Pids
<1>4. ~OwnPipes /\ OwnPipes'
  BY <1>1, Distinct DEF LifeInv, Wiring, ClosedAtStart, OpenInUse, OwnPipes, Pids
<1>5. ViewIsOwn /\ ViewIsOwn'
  BY View, ViewNext DEF LifeInv
<1>6. Current = 0 /\ Current' = forks + 1
  BY <1>1, <1>4, <1>5 DEF ViewIsOwn
<1>7. ASSUME NEW g \in Pids
      PROVE  Fate(g)' = IF g = forks + 1 THEN "running" ELSE Fate(g)
  <2>1. Fate(g) = OwnFate(g) /\ Fate(g)' = OwnFate(g)'
    BY <1>5 DEF ViewIsOwn
  <2>2. child \in [Pids -> ChildState]
    BY DEF LifeInv, TypeOK
  <2>3. child'[g] = IF g = forks + 1 THEN "running" ELSE child[g]
    BY <1>1, <2>2
  <2>. QED  BY <1>1, <1>4, <2>1, <2>3 DEF OwnFate
<1>8. Kids[forks + 1] = "unborn" /\ Kids' = [Kids EXCEPT ![forks + 1] = "running"]
  BY <1>3, <1>7 DEF Kids, Fate
<1>. QED  BY <1>1, <1>2, <1>3, <1>6, <1>8 DEF Life!Starts, Life!None, Phase, InCall, Kids

\* A child leaves, or the kernel completes its exit.
LEMMA ExitStep ==
  ASSUME LifeInv, ~reused, ~reused', NEW g \in Pids, Exits(g) \/ ChildBecomesZombie(g)
  PROVE  [Life!Next]_(Life!vars)
<1>1. /\ child \in [Pids -> ChildState] /\ UNCHANGED <<pc, stopping, ret, failed_to_start_, forks, fdt>>
      /\ \A h \in Pids : h # g => child'[h] = child[h]
      /\ \/ child[g] = "running" /\ child'[g] = "exiting"
         \/ child[g] = "exiting" /\ child'[g] = "zombie"
  BY DEF LifeInv, TypeOK, Exits, ChildBecomesZombie, object
<1>2. Current' = Current /\ \A h \in Pids : h # g => Fate(h)' = Fate(h)
  BY <1>1 DEF Current, Fate, IsOpen
<1>3. \/ Fate(g) \in {"running", "leaving"} /\ Fate(g)' = "leaving"
      \/ Fate(g) = "leaving" /\ Fate(g)' = "dead"
  BY <1>1 DEF Fate
<1>4. CASE Fate(g)' = Fate(g)
  <2>1. Kids' = Kids
    BY <1>2, <1>4 DEF Kids
  <2>. QED  BY <1>1, <1>2, <2>1, QuietStep
<1>5. ASSUME Fate(g)' # Fate(g) PROVE Kids' = [Kids EXCEPT ![g] = Fate(g)'] /\ Kids[g] = Fate(g)
  BY <1>2 DEF Kids
<1>6. CASE Fate(g) = "running" /\ Fate(g)' = "leaving"
  <2>1. Life!ChildLeaves(g)
    BY <1>1, <1>2, <1>5, <1>6 DEF Life!ChildLeaves, Phase, Kids
  <2>. QED  BY <2>1 DEF Life!Next
<1>7. CASE Fate(g) = "leaving" /\ Fate(g)' = "dead"
  <2>1. Life!ChildIsGone(g)
    BY <1>1, <1>2, <1>5, <1>7 DEF Life!ChildIsGone, Phase, Kids
  <2>. QED  BY <2>1 DEF Life!Next
<1>. QED  BY <1>3, <1>4, <1>6, <1>7

\* The host's own descriptors are invisible to the owner.
LEMMA HostStep ==
  ASSUME NEW f \in FD, HostOpens(f) \/ HostCloses(f), LifeInv, ~reused, ~reused'
  PROVE  UNCHANGED Life!vars
<1>1. /\ UNCHANGED <<pc, stopping, ret, failed_to_start_, forks, child>>
      /\ \A e \in FD : fdt'[e] = fdt[e] \/ {fdt[e], fdt'[e]} \subseteq {Free, Host}
  BY DEF HostOpens, HostCloses, LifeInv, TypeOK, object
<1>2. \A g \in Int : IsOpen(Out(g))' = IsOpen(Out(g))
  BY <1>1, Distinct DEF IsOpen
<1>3. UNCHANGED <<Current, Kids>>
  BY <1>1, <1>2 DEF Current, Kids, Fate, LifeInv, TypeOK, Pids
<1>. QED  BY <1>1, <1>3, QuietStep

LEMMA LifeStep == LifeInv /\ LifeInv' /\ [Next]_vars => [Life!Next]_(Life!vars)
<1>. SUFFICES ASSUME LifeInv, LifeInv', [Next]_vars, ~reused, ~reused'
              PROVE  [Life!Next]_(Life!vars)
  BY VoidLife DEF Life!Next
<1>. USE DEF Phase, InCall, object, system
<1>a. /\ stopping => pc \in {"kill", "sigkill", "stopped"}
      /\ pc \in InCall => ret = "none"
      /\ pc \in InCall /\ ~stopping => ~failed_to_start_
  BY DEF LifeInv, Budget
<1>1. CASE SendCommand
  <2>1. UNCHANGED <<Current, Kids, forks>>
    BY <1>1, SameView DEF SendCommand
  <2>2. Life!Request
    BY <1>1, <1>a, <2>1 DEF SendCommand, Life!Request, Life!None, Kids
  <2>. QED  BY <2>2 DEF Life!Next
<1>2. CASE GiveUp
  <2>1. UNCHANGED <<Current, Kids, forks>>
    BY <1>2, SameView DEF GiveUp
  <2>2. Life!Fails
    BY <1>2, <1>a, <2>1 DEF GiveUp, Life!Fails, Kids
  <2>. QED  BY <2>2 DEF Life!Next
<1>3. CASE SendNotStarted \/ Write \/ WriteBadDescriptor \/ WriteInterrupted
  <2>1. /\ UNCHANGED <<forks, child, fdt, stopping, ret, failed_to_start_>>
        /\ pc = "send" /\ pc' \in {"restart", "read"}
    BY <1>3 DEF SendNotStarted, Write, WriteBadDescriptor, WriteInterrupted, MayTry
  <2>. QED  BY <1>a, <2>1, SameView, QuietStep
<1>4. CASE WriteBrokenPipe
  <2>1. /\ UNCHANGED <<forks, child, fdt, stopping, ret, failed_to_start_>>
        /\ pc = "send" /\ pc' \in {"restart", "dead"}
    BY <1>4 DEF WriteBrokenPipe, FailsOrKills, MayTry
  <2>2. CASE pc' = "restart"
    BY <1>a, <2>1, <2>2, SameView, QuietStep
  <2>3. CASE pc' = "dead"
    <3>1. Life!HostDies
      BY <1>a, <2>1, <2>3, SameView DEF Life!HostDies, Kids
    <3>. QED  BY <3>1 DEF Life!Next
  <2>. QED  BY <2>1, <2>2, <2>3
<1>5. ASSUME NEW buf, pc = "read", FinishRead(buf) PROVE Life!Next
  <2>1. UNCHANGED <<stopping, failed_to_start_, forks, child, fdt, Current, Kids>>
    BY <1>5, SameView DEF FinishRead
  <2>2. CASE pc' = "dead" /\ ret' = ret
    <3>1. Life!HostDies
      BY <1>5, <1>a, <2>1, <2>2 DEF Life!HostDies, Kids
    <3>. QED  BY <3>1 DEF Life!Next
  <2>3. CASE pc' = "idle" /\ ret' = "data"
    <3>1. Current = forks /\ forks # 0
      BY <1>5, View DEF LifeInv, Wiring, OpenInUse, OwnPipes, ViewIsOwn, Pids
    <3>2. Life!Answers
      BY <1>5, <1>a, <2>1, <2>3, <3>1 DEF Life!Answers, Life!None, Kids
    <3>. QED  BY <3>2 DEF Life!Next
  <2>. QED  BY <1>5, <2>2, <2>3 DEF FinishRead
<1>6. CASE ReadSome \/ ReadEndOfFile \/ ReadInterrupted
  <2>1. \/ pc = "read" /\ \E buf : FinishRead(buf)
        \/ UNCHANGED <<pc, stopping, ret, failed_to_start_, forks, child, fdt>>
    BY <1>6 DEF ReadSome, ReadEndOfFile, ReadInterrupted
  <2>. QED  BY <1>5, <2>1, SameView, QuietStep
<1>7. CASE RestartIsRunning \/ StartFails \/ StartupCheck
  <2>1. /\ UNCHANGED <<forks, fdt, stopping, ret, failed_to_start_>>
        /\ pc \in {"restart", "start", "startup"} /\ pc' \in {"kill", "close", "send"}
        /\ UNCHANGED child \/ WaitReaps(active_pid_) \/ WaitReaps(forks)
    BY <1>7 DEF RestartIsRunning, StartFails, StartupCheck, RoundEnds
  <2>2. active_pid_ \in Int /\ forks \in Int
    BY DEF LifeInv, TypeOK, NoPid, Pids
  <2>3. UNCHANGED <<Current, Kids>>
    BY <2>1, <2>2, ReapedView, SameView DEF LifeInv
  <2>. QED  BY <1>a, <2>1, <2>3, QuietStep
<1>8. CASE Kill \/ Sigkill
  <2>1. CASE KillFails
    <3>1. CASE pc = "kill" /\ active_pid_ # NoPid /\ StillRunning(active_pid_) /\ KillSucceeds
      <4>1. UNCHANGED active_pid_
        BY <2>1 DEF KillFails
      <4>. QED  BY <3>1, <4>1 DEF KillSucceeds
    <3>2. CASE pc' = "sigkill"
      BY <2>1, <3>2, <1>a, <1>8 DEF KillFails, AfterKill
    <3>. QED  BY <1>8, <2>1, <3>1, <3>2, KillFailsStep DEF Kill, Sigkill
  <2>2. CASE KillSucceeds /\ UNCHANGED child
    BY <1>8, <1>a, <2>2, ClosingStep DEF Kill, Sigkill, KillSucceeds, AfterKill
  <2>3. CASE pc = "kill" /\ WaitReaps(active_pid_) /\ pc' = "sigkill"
             /\ UNCHANGED <<forks, fdt, stopping, ret, failed_to_start_>>
    <3>1. active_pid_ \in Int
      BY DEF LifeInv, TypeOK, NoPid, Pids
    <3>2. UNCHANGED <<Current, Kids>>
      BY <2>3, <3>1, ReapedView DEF LifeInv
    <3>. QED  BY <2>3, <3>2, QuietStep
  <2>. QED  BY <1>8, <2>1, <2>2, <2>3 DEF Kill, Sigkill
<1>9. CASE CloseFiles
  BY <1>9, <1>a, ClosingStep DEF CloseFiles
<1>10. CASE StartForks
  BY <1>10, StartForksStep DEF Life!Next
<1>11. CASE StopTheWorld
  <2>1. UNCHANGED <<Current, Kids, forks>>
    BY <1>11, SameView DEF StopTheWorld
  <2>2. Life!Stop
    BY <1>11, <1>a, <2>1 DEF StopTheWorld, Life!Stop, Life!None, Kids
  <2>. QED  BY <2>2 DEF Life!Next
<1>12. CASE ChildWrites \/ UNCHANGED vars
  BY <1>12, SameView, QuietStep DEF ChildWrites, vars
<1>13. ~(WriteForeign \/ ReadBadDescriptor \/ ReadForeign)
  BY ForeignIsReuse DEF LifeInv
<1>. QED
  BY <1>1, <1>2, <1>3, <1>4, <1>6, <1>7, <1>8, <1>9, <1>10, <1>11, <1>12, <1>13, ExitStep, HostStep
  DEF Next, Library, Signal, Foreign, Child, HostProgram, Done, ChildDies, ChildSeesEndOfInput

\* Whatever fails, dies or is interrupted, and in whatever order: the owner of the
\* process is right to think of one fed child at a time, replaced only when a command
\* cannot be sent, and of Kill as the end of the child's input, although Kill goes by
\* an active_pid_ that is set and cleared at other points than the descriptors.
THEOREM ProcessImplementsLife == Spec => ImplementsLife
BY LifeInvHolds, LifeInit, LifeStep, PTL DEF Spec, ImplementsLife, Life!Spec

-----------------------------------------------------------------------------
\* Once the tool is stopped no child that still runs has an open input: each of them
\* can see that it is to leave.
NobodyWaitsAfterStop ==
  pc = "stopped" => \A g \in Pids : child[g] = "running" => ~IsOpen(Out(g))

\* The same of the one child that could be fed.
YoungestIsTold == pc = "stopped" /\ OwnPipes => child[forks] # "running"

\* Kill ends the life of the object: it either closed the pipes, or did nothing, since
\* the child it knew was gone.
LEMMA KillTells ==
  ASSUME LifeInv, Kill \/ Sigkill, pc' = "stopped", OwnPipes' PROVE child'[forks'] # "running"
<1>. USE DEF object
<1>1. UNCHANGED <<input_fd_, output_fd_, forks>>
  BY DEF Kill, Sigkill, KillFails, KillSucceeds
<1>2. ~KillSucceeds
  BY <1>1, Distinct DEF KillSucceeds, CloseBoth, OwnPipes, Pids
<1>3. KillFails /\ UNCHANGED child
  BY <1>2 DEF Kill, Sigkill
<1>4. OwnPipes
  BY <1>1, <1>3 DEF KillFails, OwnPipes
<1>5. ASSUME child[forks] = "running" PROVE FALSE
  <2>1. active_pid_ = forks /\ forks \in Pids
    BY <1>4, <1>5 DEF LifeInv, Lives, FedIsActive, Kill, Sigkill, OwnPipes
  <2>2. active_pid_ # NoPid /\ child[active_pid_] = "running"
    BY <1>5, <2>1 DEF Pids, NoPid
  <2>3. CASE pc = "sigkill"
    BY <1>5, <2>3 DEF LifeInv, Wiring, SignalledIsDone
  <2>4. CASE pc = "kill"
    BY <1>2, <2>2, <2>4 DEF Kill, Sigkill
  <2>. QED  BY <2>3, <2>4 DEF Kill, Sigkill
<1>. QED  BY <1>1, <1>3, <1>5

LEMMA ToldStep == LifeInv /\ LifeInv' /\ YoungestIsTold /\ [Next]_vars => YoungestIsTold'
<1>. SUFFICES ASSUME LifeInv, LifeInv', YoungestIsTold, [Next]_vars, pc' = "stopped", OwnPipes'
              PROVE  child'[forks'] # "running"
  BY DEF YoungestIsTold
<1>. USE DEF object, system
<1>1. CASE Library \/ Signal \/ Foreign
  <2>1. Kill \/ Sigkill
    <3>1. ASSUME NEW buf, FinishRead(buf) PROVE FALSE
      BY <3>1 DEF FinishRead
    <3>2. ~(ReadSome \/ ReadEndOfFile \/ ReadBadDescriptor \/ ReadForeign \/ ReadInterrupted)
      BY <3>1 DEF ReadSome, ReadEndOfFile, ReadBadDescriptor, ReadForeign, ReadInterrupted
    <3>3. ~(GiveUp \/ SendNotStarted \/ Write \/ WriteBrokenPipe \/ WriteBadDescriptor \/ WriteForeign
           \/ WriteInterrupted)
      BY DEF GiveUp, SendNotStarted, Write, WriteBrokenPipe, WriteBadDescriptor, WriteForeign,
             WriteInterrupted, FailsOrKills
    <3>4. ~(RestartIsRunning \/ CloseFiles \/ StartFails \/ StartForks \/ StartupCheck)
      BY DEF RestartIsRunning, CloseFiles, StartFails, StartForks, StartupCheck, RoundEnds
    <3>. QED  BY <1>1, <3>2, <3>3, <3>4 DEF Library, Signal, Foreign
  <2>. QED  BY <2>1, KillTells
<1>2. CASE SendCommand \/ StopTheWorld
  BY <1>2 DEF SendCommand, StopTheWorld
<1>3. CASE ChildWrites \/ UNCHANGED vars
  <2>1. UNCHANGED <<pc, forks, child, fdt, input_fd_, output_fd_>>
    BY <1>3 DEF ChildWrites, vars
  <2>. QED  BY <2>1 DEF YoungestIsTold, OwnPipes
<1>4. ASSUME NEW g \in Pids, Exits(g) \/ ChildBecomesZombie(g)
      PROVE  child'[forks'] # "running"
  <2>1. /\ UNCHANGED <<pc, forks, fdt, input_fd_, output_fd_>>
        /\ child \in [Pids -> ChildState] /\ forks \in Pids
        /\ \A h \in Pids : child'[h] = child[h] \/ child'[h] \in {"exiting", "zombie"}
    BY <1>4 DEF Exits, ChildBecomesZombie, LifeInv, TypeOK, OwnPipes
  <2>2. child[forks] # "running"
    BY <2>1 DEF YoungestIsTold, OwnPipes
  <2>. QED  BY <2>1, <2>2
<1>5. ASSUME NEW f \in FD, HostOpens(f) \/ HostCloses(f) PROVE child'[forks'] # "running"
  <2>1. /\ UNCHANGED <<pc, forks, child, input_fd_, output_fd_>>
        /\ \A e \in FD : fdt'[e] = fdt[e] \/ fdt'[e] \in {Free, Host}
    BY <1>5 DEF HostOpens, HostCloses, LifeInv, TypeOK
  <2>2. OwnPipes
    BY <2>1, Distinct DEF OwnPipes, Pids
  <2>. QED  BY <2>1, <2>2 DEF YoungestIsTold
<1>. QED
  BY <1>1, <1>2, <1>3, <1>4, <1>5
  DEF Next, Child, HostProgram, Done, ChildDies, ChildSeesEndOfInput

\* StopTheWorld leaves no running child behind that still waits for a command, although
\* Kill (symbolizer.cpp:268) signals nobody and goes by active_pid_: of
\* StoppedChildrenLeave what is left to fairness is that the child and the kernel
\* take their own steps.
THEOREM StopTellsChildren == Spec => []NobodyWaitsAfterStop
<1>1. Init => YoungestIsTold
  BY DEF Init, YoungestIsTold
<1>2. Spec => []YoungestIsTold
  BY <1>1, LifeInvHolds, ToldStep, PTL DEF Spec
<1>3. LifeInv /\ YoungestIsTold => NobodyWaitsAfterStop
  <2>. SUFFICES ASSUME LifeInv, YoungestIsTold, pc = "stopped",
                       NEW g \in Pids, child[g] = "running", IsOpen(Out(g))
                PROVE  FALSE
    BY DEF NobodyWaitsAfterStop
  <2>1. OwnPipes /\ g = forks
    BY OnlyYoungestIsFed DEF LifeInv
  <2>. QED  BY <2>1 DEF YoungestIsTold
<1>. QED  BY <1>2, <1>3, LifeInvHolds, PTL

=============================================================================
