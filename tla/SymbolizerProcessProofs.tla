----------------------- MODULE SymbolizerProcessProofs -----------------------
(***************************************************************************)
(* Proofs about SymbolizerProcess, for every value of its constants: any   *)
(* restart budget, any number of descriptors, calls and pieces, either     *)
(* tool, and every fault.                                                  *)
(*                                                                         *)
(* TypeOK, Budget and Wiring are proved to be preserved together by every  *)
(* action; the safety properties about descriptors, children and the       *)
(* restart budget follow from them.                                        *)
(***************************************************************************)
EXTENDS SymbolizerProcessInvariant, SequenceTheorems, TLAPS

\* What the assumptions on the constants give the provers.
LEMMA Constants ==
  /\ kMaxTimesRestarted \in Nat \ {0} /\ MaxCalls \in Nat \ {0} /\ Pieces \in Nat \ {0}
  /\ Tool \in {"llvm-symbolizer", "addr2line"}
  /\ Tool = "addr2line" => Pieces > 1
  /\ Tool # "addr2line" => UnknownAddresses = {}
  /\ FD \subseteq {n \in Nat : n > 2}
BY ToolAssumption, BoundAssumption, PiecesAssumption, UnknownAssumption, FDAssumption

\* The output of a command is a sequence of at least one piece.
LEMMA AnswerIsSequence ==
  ASSUME NEW c \in Command
  PROVE  /\ Size(c) \in Nat \ {0}
         /\ Answer(c) \in Seq(Piece) /\ Len(Answer(c)) = Size(c)
         /\ \A i \in 1..Size(c) : Answer(c)[i] = <<c, i>>
<1>1. Size(c) \in Nat \ {0}
  BY Constants DEF Size
<1>2. \A i \in 1..Size(c) : <<c, i>> \in Piece
  BY <1>1 DEF Piece
<1>3. Answer(c) \in [1..Size(c) -> Piece] /\ DOMAIN Answer(c) = 1..Size(c)
  BY <1>2 DEF Answer
<1>4. Answer(c) \in Seq(Piece) /\ Len(Answer(c)) = Size(c)
  BY <1>1, <1>3
<1>. QED  BY <1>1, <1>4 DEF Answer

\* A beginning of a sequence of pieces, and what remains of it.
LEMMA Cut ==
  ASSUME NEW s \in Seq(Piece), NEW n \in 0..Len(s)
  PROVE  /\ SubSeq(s, 1, n) \in Seq(Piece) /\ Len(SubSeq(s, 1, n)) = n
         /\ \A i \in 1..n : SubSeq(s, 1, n)[i] = s[i]
         /\ SubSeq(s, n + 1, Len(s)) \in Seq(Piece)
         /\ Len(SubSeq(s, n + 1, Len(s))) = Len(s) - n
         /\ \A i \in 1..Len(s) - n : SubSeq(s, n + 1, Len(s))[i] = s[n + i]
<1>1. Len(s) \in Nat /\ \A i \in 1..Len(s) : s[i] \in Piece
  BY ElementOfSeq, LenProperties
<1>2. /\ SubSeq(s, 1, n) \in Seq(Piece)
      /\ Len(SubSeq(s, 1, n)) = IF 1 <= n THEN n - 1 + 1 ELSE 0
      /\ \A i \in 1..n - 1 + 1 : SubSeq(s, 1, n)[i] = s[1 + i - 1]
  <2>1. \A i \in 1..n : s[i] \in Piece
    BY <1>1
  <2>. QED  BY <1>1, <2>1, SubSeqProperties
<1>3. /\ SubSeq(s, n + 1, Len(s)) \in Seq(Piece)
      /\ Len(SubSeq(s, n + 1, Len(s))) = IF n + 1 <= Len(s) THEN Len(s) - (n + 1) + 1 ELSE 0
      /\ \A i \in 1..Len(s) - (n + 1) + 1 : SubSeq(s, n + 1, Len(s))[i] = s[(n + 1) + i - 1]
  <2>1. \A i \in (n + 1)..Len(s) : s[i] \in Piece
    BY <1>1
  <2>. QED  BY <1>1, <2>1, SubSeqProperties
<1>. QED  BY <1>1, <1>2, <1>3

-----------------------------------------------------------------------------
(* Type correctness                                                        *)

LEMMA TypeInit == Init => TypeOK
<1>. SUFFICES ASSUME Init PROVE TypeOK
  OBVIOUS
<1>1. <<>> \in Seq(Piece)
  BY EmptySeq
<1>2. fdt \in [FD -> Owner]
  <2>1. {Free, Host} \subseteq Owner
    BY DEF Owner
  <2>. QED  BY <2>1 DEF Init
<1>3. child \in [Pids -> ChildState]
  BY DEF Init, ChildState
<1>4. buffer_ \in Seq(Piece) /\ todo \in Seq(Piece) /\ pipe \in Seq(Piece)
  BY <1>1 DEF Init
<1>5. cmd \in 0..MaxCalls /\ times_restarted_ \in 0..kMaxTimesRestarted /\ forks \in 0..kMaxTimesRestarted
  BY Constants DEF Init
<1>6. pc \in Control /\ ret \in {"none", "null", "data"} /\ stopping \in BOOLEAN /\ failed_to_start_ \in BOOLEAN
  BY DEF Init, Control
<1>. QED  BY <1>2, <1>3, <1>4, <1>5, <1>6 DEF Init, TypeOK

\* The steps that put pieces in the buffer.
LEMMA TypeFinishRead ==
  ASSUME TypeOK, NEW buf \in Seq(Piece), FinishRead(buf), pipe' \in Seq(Piece)
  PROVE  TypeOK'
<1>1. buffer_' \in Seq(Piece)
  <2>1. ASSUME NEW i \in Terminators(buf) PROVE SubSeq(buf, 1, i - 1) \in Seq(Piece)
    <3>1. i - 1 \in 0..Len(buf)
      BY LenProperties DEF Terminators
    <3>. QED  BY <3>1, Cut
  <2>. QED  BY <2>1 DEF FinishRead, TypeOK
<1>. QED  BY <1>1 DEF FinishRead, TypeOK, Control, InCall

\* What is read from a descriptor of the host's.
LEMMA ForeignIsSequence ==
  \A buf \in {<<>>, <<<<NotOurs, 0>>>>, <<<<NotOurs, 0>>, <<NotOurs, Pieces>>>>} : buf \in Seq(Piece)
<1>1. <<NotOurs, 0>> \in Piece /\ <<NotOurs, Pieces>> \in Piece
  BY Constants DEF Piece
<1>2. /\ <<>> \in Seq(Piece) /\ <<<<NotOurs, 0>>>> \in Seq(Piece)
      /\ <<<<NotOurs, 0>>, <<NotOurs, Pieces>>>> \in Seq(Piece)
  BY <1>1
<1>. QED  BY <1>2

LEMMA TypeStep == TypeOK /\ Budget /\ Wiring /\ [Next]_vars => TypeOK'
<1>. SUFFICES ASSUME TypeOK, Budget, Wiring, [Next]_vars PROVE TypeOK'
  OBVIOUS
<1>. USE Constants DEF TypeOK, Control, InCall, object, system, Free, Host
<1>1. CASE GiveUp
  BY <1>1 DEF GiveUp
<1>2. CASE SendNotStarted \/ WriteInterrupted
  BY <1>2 DEF SendNotStarted, WriteInterrupted
<1>3. CASE Write
  <2>1. cmd \in Command
    BY <1>3 DEF Write, MayTry, Command, Budget
  <2>. QED  BY <1>3, <2>1, AnswerIsSequence, ConcatProperties, EmptySeq DEF Write, MayTry
<1>4. CASE WriteBrokenPipe \/ WriteForeign
  BY <1>4, EmptySeq DEF WriteBrokenPipe, WriteForeign, FailsOrKills
<1>5. CASE WriteBadDescriptor
  BY <1>5 DEF WriteBadDescriptor
<1>6. CASE ReadSome
  <2>. SUFFICES ASSUME NEW n \in 1..Len(pipe),
                       LET buf == buffer_ \o SubSeq(pipe, 1, n) IN
                       /\ pipe' = SubSeq(pipe, n + 1, Len(pipe))
                       /\ IF ReachedEndOfOutput(buf)
                          THEN FinishRead(buf)
                          ELSE /\ buffer_' = buf
                               /\ UNCHANGED <<pc, stopping, cmd, ret, active_pid_, input_fd_,
                                              output_fd_, times_restarted_, failed_to_start_,
                                              forks, reused, child, fdt, todo>>
                PROVE  TypeOK'
    BY <1>6 DEF ReadSome
  <2>. DEFINE buf == buffer_ \o SubSeq(pipe, 1, n)
  <2>1. n \in 0..Len(pipe)
    BY LenProperties
  <2>2. buf \in Seq(Piece) /\ pipe' \in Seq(Piece)
    BY <2>1, Cut, ConcatProperties
  <2>. HIDE DEF buf
  <2>3. CASE ReachedEndOfOutput(buf)
    BY <2>2, <2>3, TypeFinishRead DEF buf
  <2>4. CASE ~ReachedEndOfOutput(buf)
    BY <2>2, <2>4 DEF buf
  <2>. QED  BY <2>3, <2>4
<1>7. CASE ReadEndOfFile \/ ReadBadDescriptor \/ ReadForeign
  BY <1>7, TypeFinishRead, ForeignIsSequence DEF ReadEndOfFile, ReadBadDescriptor, ReadForeign
<1>8. CASE ReadInterrupted
  BY <1>8, TypeFinishRead DEF ReadInterrupted
<1>9. CASE RestartIsRunning
  BY <1>9 DEF RestartIsRunning, WaitReaps, ChildState
<1>10. CASE Kill
  BY <1>10, EmptySeq DEF Kill, KillFails, KillSucceeds, AfterKill, CloseBoth, WaitReaps, ChildState,
              Owner
<1>11. CASE Sigkill
  BY <1>11, EmptySeq DEF Sigkill, KillFails, KillSucceeds, AfterKill, CloseBoth, Owner
<1>12. CASE CloseFiles
  BY <1>12, EmptySeq DEF CloseFiles, CloseBoth, Owner
<1>13. CASE StartFails
  BY <1>13 DEF StartFails, RoundEnds, Budget, BudgetAccountsForks
<1>14. CASE StartForks
  <2>1. forks + 1 \in Pids /\ forks + 1 \in 0..kMaxTimesRestarted
    BY <1>14 DEF StartForks, Budget, BudgetAccountsForks, Pids
  <2>2. PICK infd \in FD, outfd \in FD :
          /\ input_fd_' = infd /\ output_fd_' = outfd
          /\ fdt' = [fdt EXCEPT ![infd] = In(forks + 1), ![outfd] = Out(forks + 1)]
    BY <1>14 DEF StartForks
  <2>3. In(forks + 1) \in Owner /\ Out(forks + 1) \in Owner
    BY <2>1 DEF Owner
  <2>4. fdt' \in [FD -> Owner]
    BY <2>2, <2>3
  <2>5. child' \in [Pids -> ChildState]
    BY <1>14, <2>1 DEF StartForks, ChildState
  <2>. QED  BY <1>14, <2>1, <2>2, <2>4, <2>5, EmptySeq DEF StartForks
<1>15. CASE StartupCheck
  <2>1. times_restarted_ + 1 \in 0..kMaxTimesRestarted
    BY <1>15 DEF StartupCheck, Budget, BudgetAccountsForks
  <2>2. forks \in Pids
    BY <1>15 DEF StartupCheck, Wiring, OpenInUse, OwnPipes
  <2>. QED  BY <1>15, <2>1, <2>2 DEF StartupCheck, RoundEnds, WaitReaps, ChildState
<1>16. CASE ChildWrites
  BY <1>16, HeadTailProperties, AppendProperties DEF ChildWrites
<1>17. ASSUME NEW g \in Pids, Exits(g) PROVE TypeOK'
  BY <1>17, EmptySeq DEF Exits, ChildState
<1>18. ASSUME NEW g \in Pids, ChildBecomesZombie(g) PROVE TypeOK'
  BY <1>18 DEF ChildBecomesZombie, ChildState
<1>19. CASE SendCommand
  BY <1>19 DEF SendCommand
<1>20. CASE StopTheWorld
  BY <1>20 DEF StopTheWorld
<1>21. ASSUME NEW f \in FD, HostOpens(f) \/ HostCloses(f) PROVE TypeOK'
  BY <1>21 DEF HostOpens, HostCloses, Owner
<1>22. CASE UNCHANGED vars
  BY <1>22 DEF vars
<1>. QED
  BY <1>1, <1>2, <1>3, <1>4, <1>5, <1>6, <1>7, <1>8, <1>9, <1>10, <1>11, <1>12, <1>13, <1>14,
     <1>15, <1>16, <1>17, <1>18, <1>19, <1>20, <1>21, <1>22
  DEF Next, Library, Signal, Foreign, Child, HostProgram, Done, ChildDies, ChildSeesEndOfInput

-----------------------------------------------------------------------------
(* The restart budget                                                      *)

LEMMA BudgetInit == Init => Budget
BY Constants DEF Init, Budget, BudgetAccountsForks, InCall

LEMMA BudgetStep == TypeOK /\ Budget /\ [Next]_vars => Budget'
<1>. SUFFICES ASSUME TypeOK, Budget, [Next]_vars PROVE Budget'
  OBVIOUS
<1>. USE Constants DEF TypeOK, Budget, BudgetAccountsForks, InCall, object, system
<1>1. CASE GiveUp
  BY <1>1 DEF GiveUp
<1>2. CASE SendNotStarted \/ Write \/ WriteBrokenPipe \/ WriteBadDescriptor \/ WriteForeign
           \/ WriteInterrupted
  BY <1>2 DEF SendNotStarted, Write, WriteBrokenPipe, WriteBadDescriptor, WriteForeign,
              WriteInterrupted, FailsOrKills, MayTry
<1>3. ASSUME NEW buf, FinishRead(buf), pc = "read" PROVE Budget'
  BY <1>3 DEF FinishRead
<1>4. CASE ReadSome
  BY <1>3, <1>4 DEF ReadSome
<1>5. CASE ReadEndOfFile \/ ReadBadDescriptor \/ ReadForeign \/ ReadInterrupted
  BY <1>3, <1>5 DEF ReadEndOfFile, ReadBadDescriptor, ReadForeign, ReadInterrupted
<1>6. CASE RestartIsRunning
  BY <1>6 DEF RestartIsRunning
<1>7. CASE Kill \/ Sigkill
  BY <1>7 DEF Kill, Sigkill, KillFails, KillSucceeds, AfterKill
<1>8. CASE CloseFiles \/ StartFails \/ StartForks \/ StartupCheck
  BY <1>8 DEF CloseFiles, StartFails, StartForks, StartupCheck, RoundEnds
<1>9. CASE ChildWrites
  BY <1>9 DEF ChildWrites
<1>10. ASSUME NEW g \in Pids, Exits(g) \/ ChildBecomesZombie(g) PROVE Budget'
  BY <1>10 DEF Exits, ChildBecomesZombie
<1>11. CASE SendCommand \/ StopTheWorld
  BY <1>11 DEF SendCommand, StopTheWorld
<1>12. ASSUME NEW f \in FD, HostOpens(f) \/ HostCloses(f) PROVE Budget'
  BY <1>12 DEF HostOpens, HostCloses
<1>13. CASE UNCHANGED vars
  BY <1>13 DEF vars
<1>. QED
  BY <1>1, <1>2, <1>4, <1>5, <1>6, <1>7, <1>8, <1>9, <1>10, <1>11, <1>12, <1>13
  DEF Next, Library, Signal, Foreign, Child, HostProgram, Done, ChildDies, ChildSeesEndOfInput

-----------------------------------------------------------------------------
(* Descriptors and children                                                *)

\* The values that tell descriptors, pids and sentinels apart.
LEMMA Distinct ==
  /\ kInvalidFd \notin FD /\ NoPid \notin Pids /\ Free # Host
  /\ \A g \in Int : In(g) \notin {Free, Host} /\ Out(g) \notin {Free, Host}
  /\ \A g, h \in Int : In(g) # Out(h) /\ (In(g) = In(h) => g = h) /\ (Out(g) = Out(h) => g = h)
BY Constants DEF kInvalidFd, NoPid, Pids, Free, Host, In, Out

LEMMA WiringInit == Init => Wiring
BY Distinct, Constants DEF Init, Wiring, NothingElseOpen, ClosedAtStart, OpenInUse, ReadyBetween,
  NumbersInUse, NumbersNotReused, ReusedAreClosed, NothingInClosed, ActiveIsBorn, ActiveHoldsPipes, ActiveIsDone, SignalledIsDone, Numbers, InCall

LEMMA WiringStep == TypeOK /\ Budget /\ Wiring /\ TypeOK' /\ [Next]_vars => Wiring'
<1>. SUFFICES ASSUME TypeOK, Budget, Wiring, TypeOK', [Next]_vars PROVE Wiring'
  OBVIOUS
<1>. USE Constants, Distinct
     DEF Wiring, NothingElseOpen, ClosedAtStart, OpenInUse, ReadyBetween, NumbersNotReused,
         NumbersInUse, ReusedAreClosed, NothingInClosed,
         ActiveIsBorn, ActiveHoldsPipes, ActiveIsDone, SignalledIsDone, OwnPipes, Numbers,
         TypeOK, Budget, BudgetAccountsForks, InCall, object, system
<1>1. CASE GiveUp
  BY <1>1 DEF GiveUp
<1>2. CASE SendNotStarted \/ Write \/ WriteBrokenPipe \/ WriteBadDescriptor \/ WriteForeign
           \/ WriteInterrupted
  <2>1. CASE Write
    <3>1. output_fd_ \in FD /\ \E g \in Pids : fdt[output_fd_] = Out(g)
      BY <2>1 DEF Write, NotStarted, Reader
    <3>2. OwnPipes
      BY <3>1 DEF Pids
    <3>. QED  BY <2>1, <3>2 DEF Write, MayTry, NotStarted
  <2>2. CASE SendNotStarted \/ WriteBrokenPipe \/ WriteBadDescriptor \/ WriteInterrupted
    BY <2>2 DEF SendNotStarted, WriteBrokenPipe, WriteBadDescriptor, WriteInterrupted,
                FailsOrKills, MayTry
  <2>3. CASE WriteForeign
    <3>1. reused
      BY <2>3 DEF WriteForeign, MayTry, NotStarted
    <3>. QED  BY <2>3, <3>1 DEF WriteForeign, FailsOrKills, MayTry, NotStarted
  <2>. QED  BY <1>2, <2>1, <2>2, <2>3
<1>3. ASSUME NEW buf, FinishRead(buf), pc = "read", OwnPipes \/ pipe' = pipe PROVE Wiring'
  BY <1>3 DEF FinishRead
<1>4. CASE ReadSome
  <2>1. OwnPipes
    BY <1>4, EmptySeq DEF ReadSome
  <2>. QED  BY <1>3, <1>4, <2>1 DEF ReadSome
<1>5. CASE ReadEndOfFile \/ ReadBadDescriptor \/ ReadForeign \/ ReadInterrupted
  BY <1>3, <1>5 DEF ReadEndOfFile, ReadBadDescriptor, ReadForeign, ReadInterrupted
<1>6. CASE RestartIsRunning
  <2>1. CASE active_pid_ # NoPid /\ StillRunning(active_pid_)
    BY <1>6, <2>1 DEF RestartIsRunning
  <2>2. CASE active_pid_ # NoPid /\ ~StillRunning(active_pid_)
    BY <1>6, <2>2 DEF RestartIsRunning, WaitReaps, StillRunning, ChildState
  <2>3. CASE active_pid_ = NoPid
    BY <1>6, <2>3 DEF RestartIsRunning
  <2>. QED  BY <2>1, <2>2, <2>3
<1>7. CASE Kill
  <2>1. CASE active_pid_ = NoPid /\ KillFails /\ UNCHANGED child
    BY <1>7, <2>1 DEF Kill, KillFails, AfterKill
  <2>2. CASE active_pid_ # NoPid /\ StillRunning(active_pid_) /\ KillSucceeds /\ UNCHANGED child
    BY <1>7, <2>2 DEF Kill, KillSucceeds, AfterKill, CloseBoth
  <2>3. CASE active_pid_ # NoPid /\ child[active_pid_] = "reaped" /\ KillFails /\ UNCHANGED child
    BY <1>7, <2>3 DEF Kill, KillFails, AfterKill
  <2>4. CASE /\ active_pid_ # NoPid /\ child[active_pid_] = "zombie"
             /\ WaitReaps(active_pid_)
             /\ pc' = "sigkill"
             /\ UNCHANGED <<stopping, cmd, ret, object, forks, reused, fdt, todo, pipe>>
    BY <1>7, <2>4 DEF Kill, WaitReaps
  <2>. QED  BY <1>7, <2>1, <2>2, <2>3, <2>4 DEF Kill
<1>8. CASE Sigkill
  <2>1. CASE KillFails
    BY <1>8, <2>1 DEF Sigkill, KillFails, AfterKill
  <2>2. CASE KillSucceeds
    BY <1>8, <2>2 DEF Sigkill, KillSucceeds, AfterKill, CloseBoth
  <2>. QED  BY <1>8, <2>1, <2>2 DEF Sigkill
<1>9. CASE CloseFiles
  BY <1>9 DEF CloseFiles, CloseBoth
<1>10. CASE StartFails
  BY <1>10 DEF StartFails, RoundEnds
<1>11. CASE StartForks
  BY <1>11 DEF StartForks
<1>12. CASE StartupCheck
  <2>1. OwnPipes /\ OwnPipes'
    BY <1>12 DEF StartupCheck
  <2>2. pc' = "send" /\ ~stopping' /\ ActiveIsBorn' /\ ActiveHoldsPipes'
    <3>1. CASE StillRunning(forks)
      BY <1>12, <2>1, <3>1 DEF StartupCheck, RoundEnds, WaitReaps, StillRunning, Pids
    <3>2. CASE ~StillRunning(forks)
      BY <1>12, <2>1, <3>2 DEF StartupCheck, RoundEnds, WaitReaps, StillRunning, Pids
    <3>. QED  BY <3>1, <3>2
  <2>3. NothingElseOpen' /\ NumbersNotReused' /\ ReusedAreClosed' /\ NothingInClosed'
    BY <1>12, <2>1 DEF StartupCheck
  <2>. QED  BY <2>1, <2>2, <2>3
<1>13. CASE ChildWrites
  BY <1>13 DEF ChildWrites
<1>14. ASSUME NEW g \in Pids, Exits(g) \/ ChildBecomesZombie(g) PROVE Wiring'
  BY <1>14 DEF Exits, ChildBecomesZombie
<1>15. CASE SendCommand \/ StopTheWorld
  BY <1>15 DEF SendCommand, StopTheWorld
<1>16. ASSUME NEW f \in FD, HostOpens(f) \/ HostCloses(f) PROVE Wiring'
  <2>1. /\ fdt[f] \in {Free, Host} /\ fdt'[f] \in {Free, Host}
        /\ \A e \in FD : e # f => fdt'[e] = fdt[e]
        /\ UNCHANGED <<pc, stopping, forks, child, input_fd_, output_fd_, active_pid_, failed_to_start_,
                       pipe, todo>>
        /\ reused => reused'
    BY <1>16 DEF HostOpens, HostCloses
  <2>a. forks \in Pids => {In(forks), Out(forks)} \cap {Free, Host} = {}
    BY DEF Pids
  <2>2. OwnPipes <=> OwnPipes'
    BY <2>1, <2>a
  <2>3. /\ NothingElseOpen' /\ ClosedAtStart' /\ OpenInUse' /\ NumbersInUse' /\ ReadyBetween'
        /\ ActiveIsBorn' /\ ActiveHoldsPipes' /\ ActiveIsDone' /\ SignalledIsDone'
    BY <2>1, <2>2
  <2>4. NumbersNotReused'
    BY <1>16, <2>1 DEF HostOpens, HostCloses
  <2>5. ReusedAreClosed' /\ NothingInClosed'
    <3>1. reused' => reused \/ f \in {input_fd_, output_fd_}
      BY <1>16 DEF HostOpens, HostCloses
    <3>. QED  BY <2>1, <2>2, <2>a, <3>1
  <2>. QED  BY <2>3, <2>4, <2>5
<1>17. CASE UNCHANGED vars
  BY <1>17 DEF vars
<1>. QED
  BY <1>1, <1>2, <1>4, <1>5, <1>6, <1>7, <1>8, <1>9, <1>10, <1>11, <1>12, <1>13, <1>14, <1>15,
     <1>16, <1>17
  DEF Next, Library, Signal, Foreign, Child, HostProgram, Done, ChildDies, ChildSeesEndOfInput

-----------------------------------------------------------------------------
(* The theorems                                                            *)

\* The three parts are preserved together: typing needs the budget (a fork has a
\* pid in range because its round was granted) and the wiring (the child checked
\* after its start exists).
THEOREM Invariance == Spec => [](TypeOK /\ Budget /\ Wiring)
<1>1. Init => TypeOK /\ Budget /\ Wiring
  BY TypeInit, BudgetInit, WiringInit
<1>2. TypeOK /\ Budget /\ Wiring /\ [Next]_vars => (TypeOK /\ Budget /\ Wiring)'
  BY TypeStep, BudgetStep, WiringStep
<1>. QED  BY <1>1, <1>2, PTL DEF Spec

\* The variables keep their types: above all, no more children are ever forked than
\* kMaxTimesRestarted, however the calls of SendCommand are spread.
THEOREM TypeCorrect == Spec => []TypeOK
BY Invariance, PTL

\* Forks are paid for by rounds of the restart loop, and the object has failed
\* exactly when the rounds are spent.
THEOREM BudgetHolds == Spec => []BudgetAccountsForks
<1>1. Budget => BudgetAccountsForks
  BY DEF Budget
<1>. QED  BY <1>1, Invariance, PTL

\* No pipe end of an earlier child stays open and none of the youngest is held
\* under a number the object does not know.
THEOREM NoDescriptorLeaks == Spec => []NoLeakedDescriptor
<1>1. TypeOK /\ Wiring => NoLeakedDescriptor
  BY Distinct DEF TypeOK, Wiring, NothingElseOpen, NoLeakedDescriptor, OwnPipes, Numbers, Pids
<1>. QED  BY <1>1, Invariance, PTL

\* Whenever Kill would close descriptors they are those of the child it killed.
THEOREM KillIsPrecise == Spec => []KillClosesOwnPipes
<1>1. TypeOK /\ Wiring => KillClosesOwnPipes
  BY Distinct DEF TypeOK, Wiring, ActiveHoldsPipes, KillClosesOwnPipes, OwnPipes
<1>. QED  BY <1>1, Invariance, PTL

\* The library writes to and reads from pipes of its own, never a descriptor the host
\* opened under a number the object still remembers, unless another thread of the host
\* was given that number in the middle of the call.
THEOREM OwnDescriptorsOnly == Spec => []NoForeignIO
<1>1. TypeOK /\ Budget /\ Wiring => NoForeignIO
  BY DEF TypeOK, Budget, Wiring, OpenInUse, NumbersNotReused, NoForeignIO, OwnPipes, Numbers,
         MayTry, NotStarted, InCall
<1>. QED  BY <1>1, Invariance, PTL

\* No step of the library closes a descriptor of the host, although Restart closes
\* numbers that Kill has closed before, unless the host was given the number meanwhile.
THEOREM HostKeepsDescriptors == Spec => HostDescriptorsUntouched
<1>. DEFINE Kept == ~reused => \A f \in FD : fdt[f] = Host => fdt'[f] = Host \/ HostCloses(f)
<1>1. TypeOK /\ Budget /\ Wiring /\ [Next]_vars => [Kept]_vars
  <2>. SUFFICES ASSUME TypeOK, Budget, Wiring, [Next]_vars, ~reused PROVE Kept
    OBVIOUS
  <2>. USE Distinct DEF TypeOK, system
  <2>1. CASE GiveUp \/ SendNotStarted \/ Write \/ WriteBrokenPipe \/ WriteBadDescriptor \/ WriteForeign
             \/ WriteInterrupted
    BY <2>1 DEF GiveUp, SendNotStarted, Write, WriteBrokenPipe, WriteBadDescriptor, WriteForeign,
                WriteInterrupted
  <2>2. CASE ReadSome \/ ReadEndOfFile \/ ReadBadDescriptor \/ ReadForeign \/ ReadInterrupted
    BY <2>2 DEF ReadSome, ReadEndOfFile, ReadBadDescriptor, ReadForeign, ReadInterrupted, FinishRead
  <2>3. CASE RestartIsRunning \/ StartFails \/ StartupCheck \/ ChildWrites \/ SendCommand \/ StopTheWorld
    BY <2>3 DEF RestartIsRunning, StartFails, StartupCheck, ChildWrites, SendCommand, StopTheWorld
  <2>4. CASE Kill \/ Sigkill
    \* The child was not reaped, or has just been: its pipes are still held.
    <3>1. CASE OwnPipes
      <4>1. \A f \in FD : fdt[f] = Host => f \notin {input_fd_, output_fd_}
        BY <3>1 DEF OwnPipes, Pids
      <4>2. CloseBoth => Kept
        BY <4>1 DEF CloseBoth
      <4>3. CloseBoth \/ UNCHANGED fdt
        BY <2>4 DEF Kill, Sigkill, KillFails, KillSucceeds
      <4>. QED  BY <4>2, <4>3
    <3>2. CASE ~OwnPipes
      BY <2>4, <3>2 DEF Kill, Sigkill, KillFails, KillSucceeds, StillRunning, Wiring,
                        ActiveHoldsPipes, OpenInUse
    <3>. QED  BY <3>1, <3>2
  <2>5. CASE CloseFiles
    BY <2>5 DEF CloseFiles, CloseBoth, Budget, Wiring, NumbersNotReused, Numbers, InCall
  <2>6. CASE StartForks
    BY <2>6 DEF StartForks
  <2>7. ASSUME NEW g \in Pids, Exits(g) \/ ChildBecomesZombie(g) PROVE Kept
    BY <2>7 DEF Exits, ChildBecomesZombie
  <2>8. ASSUME NEW f \in FD, HostOpens(f) \/ HostCloses(f) PROVE Kept
    BY <2>8 DEF HostOpens, HostCloses
  <2>9. CASE UNCHANGED vars
    BY <2>9 DEF vars
  <2>. QED
    BY <2>1, <2>2, <2>3, <2>4, <2>5, <2>6, <2>7, <2>8, <2>9
    DEF Next, Library, Signal, Foreign, Child, HostProgram, Done, ChildDies, ChildSeesEndOfInput
<1>. QED  BY <1>1, Invariance, PTL DEF Spec, HostDescriptorsUntouched

\* What an object that has given up does in one step.
Final == failed_to_start_ => /\ failed_to_start_' /\ ret' # "data"
                             /\ UNCHANGED <<forks, times_restarted_, buffer_>>

LEMMA FinalStep == TypeOK /\ Budget /\ [Next]_vars => Final
<1>. SUFFICES ASSUME TypeOK, Budget, [Next]_vars, failed_to_start_ PROVE Final
  BY DEF Final
<1>. USE DEF Final, object, system
<1>1. pc \notin InCall \/ stopping
  BY DEF Budget
<1>2. ret # "data" /\ (stopping => pc \in {"kill", "sigkill", "stopped"})
  BY DEF Budget
<1>3. ~ReadSome /\ ~ReadEndOfFile /\ ~ReadBadDescriptor /\ ~ReadForeign /\ ~ReadInterrupted
  BY <1>1, <1>2 DEF ReadSome, ReadEndOfFile, ReadBadDescriptor, ReadForeign, ReadInterrupted, InCall
<1>4. /\ ~GiveUp /\ ~SendNotStarted /\ ~Write /\ ~WriteBrokenPipe /\ ~WriteBadDescriptor
      /\ ~WriteForeign /\ ~WriteInterrupted
      /\ ~RestartIsRunning /\ ~CloseFiles /\ ~StartFails /\ ~StartForks /\ ~StartupCheck
  BY <1>1, <1>2 DEF GiveUp, SendNotStarted, Write, WriteBrokenPipe, WriteBadDescriptor, WriteForeign,
                    WriteInterrupted, MayTry,
                    RestartIsRunning, CloseFiles, StartFails, StartForks, StartupCheck, InCall
<1>5. CASE Kill \/ Sigkill
  BY <1>2, <1>5 DEF Kill, Sigkill, KillFails, KillSucceeds
<1>6. CASE SendCommand \/ StopTheWorld \/ ChildWrites
  BY <1>2, <1>6 DEF SendCommand, StopTheWorld, ChildWrites
<1>7. ASSUME NEW g \in Pids, Exits(g) \/ ChildBecomesZombie(g) PROVE Final
  BY <1>2, <1>7 DEF Exits, ChildBecomesZombie
<1>8. ASSUME NEW f \in FD, HostOpens(f) \/ HostCloses(f) PROVE Final
  BY <1>2, <1>8 DEF HostOpens, HostCloses
<1>9. CASE UNCHANGED vars
  BY <1>2, <1>9 DEF vars
<1>. QED
  BY <1>3, <1>4, <1>5, <1>6, <1>7, <1>8, <1>9
  DEF Next, Library, Signal, Foreign, Child, HostProgram, Done, ChildDies, ChildSeesEndOfInput

\* Giving up is for good.
THEOREM GivingUpIsFinal == Spec => FailureIsFinal
<1>1. TypeOK /\ Budget /\ [Next]_vars => [Final]_vars
  BY FinalStep
<1>. QED  BY <1>1, Invariance, PTL DEF Spec, FailureIsFinal, Final

-----------------------------------------------------------------------------
(* Replies                                                                 *)

\* Who reads a pipe that holds something, or reads when no number was reused, reads the
\* youngest child's.
LEMMA ReadsOwn ==
  ASSUME TypeOK, Budget, Wiring, pc = "read",
         ~reused \/ pipe # <<>> \/ todo # <<>> \/ \E g \in Pids : fdt[input_fd_] = In(g)
  PROVE  ~reused /\ OwnPipes /\ cmd \in Command
<1>1. cmd \in Command
  BY DEF TypeOK, Budget, Command, InCall
<1>2. ASSUME NEW g \in Pids, fdt[input_fd_] = In(g), reused PROVE FALSE
  <2>1. CASE input_fd_ \in FD
    BY <1>2, <2>1, Distinct DEF Wiring, NothingElseOpen, ReusedAreClosed, Pids
  <2>2. CASE input_fd_ \notin FD
    BY <1>2, <2>2 DEF Wiring, NumbersInUse
  <2>. QED  BY <2>1, <2>2
<1>. QED  BY <1>1, <1>2 DEF Wiring, OpenInUse, ReusedAreClosed, NothingInClosed

\* A call of the library on a number it does not own finds every pipe closed.
LEMMA ForeignIsReuse ==
  ASSUME TypeOK, Budget, Wiring, WriteForeign \/ ReadBadDescriptor \/ ReadForeign
  PROVE  /\ reused /\ reused' /\ pipe' = <<>> /\ todo' = <<>>
         /\ UNCHANGED <<stopping, forks, child, fdt, failed_to_start_, input_fd_, output_fd_>>
<1>. USE DEF object, system
<1>1. reused
  <2>1. CASE WriteForeign
    BY <2>1 DEF WriteForeign, MayTry, NotStarted, TypeOK, Budget, Wiring, NumbersNotReused, Numbers, InCall
  <2>2. CASE ReadBadDescriptor \/ ReadForeign
    BY <2>2, Distinct DEF ReadBadDescriptor, ReadForeign, Wiring, OpenInUse, OwnPipes, Pids
  <2>. QED  BY <2>1, <2>2
<1>2. pipe = <<>> /\ todo = <<>>
  BY <1>1 DEF Wiring, ReusedAreClosed, NothingInClosed
<1>3. CASE WriteForeign
  BY <1>1, <1>2, <1>3 DEF WriteForeign
<1>4. CASE ReadBadDescriptor \/ ReadForeign
  BY <1>1, <1>2, <1>4 DEF ReadBadDescriptor, ReadForeign, FinishRead
<1>. QED  BY <1>3, <1>4

\* A buffer with a beginning of the answer to the current command is recognised
\* as the end of the output exactly when it is all of it.
LEMMA EndIsRecognised ==
  ASSUME TypeOK, cmd \in Command, NEW buf \in Seq(Piece), Continues(buf, 0),
         Len(buf) > 0, Len(buf) <= Size(cmd)
  PROVE  ReachedEndOfOutput(buf) <=> Len(buf) = Size(cmd)
<1>1. Len(buf) \in Nat /\ buf[Len(buf)] = <<cmd, Len(buf)>>
  BY LenProperties DEF Continues
<1>2. EndsOutput(buf[Len(buf)]) <=> cmd \in UnknownAddresses \/ Len(buf) = Pieces
  BY <1>1 DEF EndsOutput
<1>3. CASE cmd \in UnknownAddresses
  <2>1. Tool = "addr2line" /\ Size(cmd) = 2
    BY <1>3, Constants DEF Size
  <2>2. ReachedEndOfOutput(buf) <=> Len(buf) > 1
    BY <1>2, <1>3, <2>1 DEF ReachedEndOfOutput
  <2>3. \A n \in Nat : n <= 2 => (n > 1 <=> n = 2)
    OBVIOUS
  <2>. QED  BY <1>1, <2>1, <2>2, <2>3
<1>4. CASE cmd \notin UnknownAddresses
  <2>1. Size(cmd) = Pieces
    BY <1>4 DEF Size
  <2>. QED  BY <1>1, <1>2, <1>4, <2>1, Constants DEF ReachedEndOfOutput
<1>. QED  BY <1>3, <1>4

\* A reply made of a beginning of the answer answers the current command.
LEMMA TransferFinishRead ==
  ASSUME TypeOK, cmd \in Command, NEW buf \in Seq(Piece), Continues(buf, 0), Len(buf) <= Size(cmd),
         FinishRead(buf), todo = <<>>, pipe' = <<>>
  PROVE  Transfer'
<1>. USE DEF FinishRead, Transfer, ReplyAnswersRequest, Continues
<1>1. pc' \in {"idle", "dead"} /\ cmd' = cmd /\ todo' = <<>>
  OBVIOUS
<1>2. ASSUME pc' = "idle" PROVE Len(buffer_') <= Size(cmd) /\ Continues(buffer_, 0)'
  <2>1. CASE Tool # "addr2line"
    BY <1>2, <2>1
  <2>2. CASE Tool = "addr2line"
    <3>1. PICK i \in Terminators(buf) : buffer_' = SubSeq(buf, 1, i - 1)
      BY <1>2, <2>2
    <3>2. i - 1 \in 0..Len(buf) /\ Len(buf) \in Nat
      BY LenProperties DEF Terminators
    <3>. QED  BY <1>1, <3>1, <3>2, Cut, AnswerIsSequence
  <2>. QED  BY <2>1, <2>2
<1>3. ASSUME pc' = "idle" PROVE \A i \in 1..Len(buffer_') : buffer_'[i] = Answer(cmd)[i]
  <2>1. Len(buffer_') \in Nat
    <3>1. CASE Tool # "addr2line"
      BY <1>3, <3>1, LenProperties
    <3>2. CASE Tool = "addr2line"
      <4>1. PICK i \in Terminators(buf) : buffer_' = SubSeq(buf, 1, i - 1)
        BY <1>3, <3>2
      <4>2. i - 1 \in 0..Len(buf)
        BY LenProperties DEF Terminators
      <4>. QED  BY <4>1, <4>2, Cut
    <3>. QED  BY <3>1, <3>2
  <2>. SUFFICES ASSUME NEW i \in 1..Len(buffer_') PROVE buffer_'[i] = Answer(cmd)[i]
    OBVIOUS
  <2>2. i \in 1..Size(cmd)
    BY <1>2, <1>3, <2>1, AnswerIsSequence
  <2>3. buffer_'[i] = <<cmd, 0 + i>>
    BY <1>1, <1>2, <1>3
  <2>. QED  BY <2>2, <2>3, AnswerIsSequence
<1>. QED  BY <1>1, <1>2, <1>3

\* What ReadSome makes of buffer_ and the pipe, before it looks for the end.
Reading(buf) ==
  /\ Continues(buf, 0) /\ Continues(pipe', Len(buf)) /\ Len(buf) > 0 /\ Len(buf) <= Size(cmd)
  /\ Len(pipe') \in Nat /\ Len(buf) + Len(pipe') = Len(buffer_) + Len(pipe)
  /\ ReachedEndOfOutput(buf) <=> Len(buf) = Size(cmd)
  /\ IF ReachedEndOfOutput(buf)
     THEN FinishRead(buf)
     ELSE /\ buffer_' = buf
          /\ UNCHANGED <<pc, stopping, cmd, ret, active_pid_, input_fd_, output_fd_,
                         times_restarted_, failed_to_start_, forks, reused, child, fdt, todo>>

LEMMA ReadSomeReads ==
  ASSUME TypeOK, Budget, Wiring, Transfer, ReadSome
  PROVE  \E buf \in Seq(Piece) : Reading(buf)
<1>a. pc = "read" => cmd \in Command /\ OwnPipes /\ InTransit
  <2>1. pc = "read" /\ pipe # <<>>
    BY EmptySeq DEF ReadSome
  <2>. QED  BY <2>1, ReadsOwn DEF Transfer
<1>b. /\ buffer_ \in Seq(Piece) /\ Len(buffer_) \in Nat
      /\ pipe \in Seq(Piece) /\ Len(pipe) \in Nat
      /\ todo \in Seq(Piece) /\ Len(todo) \in Nat
  BY LenProperties DEF TypeOK
<1>c. cmd \in Command => Size(cmd) \in Nat
  BY AnswerIsSequence
<1>1. pc = "read"
  BY DEF ReadSome
<1>2. PICK n \in 1..Len(pipe) :
        LET buf == buffer_ \o SubSeq(pipe, 1, n) IN
        /\ pipe' = SubSeq(pipe, n + 1, Len(pipe))
        /\ IF ReachedEndOfOutput(buf)
           THEN FinishRead(buf)
           ELSE /\ buffer_' = buf
                /\ UNCHANGED <<pc, stopping, cmd, ret, active_pid_, input_fd_, output_fd_,
                               times_restarted_, failed_to_start_, forks, reused, child, fdt, todo>>
  BY DEF ReadSome
<1>. DEFINE buf == buffer_ \o SubSeq(pipe, 1, n)
<1>3. /\ SubSeq(pipe, 1, n) \in Seq(Piece) /\ Len(SubSeq(pipe, 1, n)) = n
      /\ \A i \in 1..n : SubSeq(pipe, 1, n)[i] = pipe[i]
      /\ Len(pipe') = Len(pipe) - n
      /\ \A i \in 1..Len(pipe) - n : pipe'[i] = pipe[n + i]
  BY <1>b, <1>2, Cut
<1>4. /\ buf \in Seq(Piece) /\ Len(buf) = Len(buffer_) + n
      /\ \A i \in 1..Len(buffer_) + n :
           buf[i] = IF i <= Len(buffer_) THEN buffer_[i] ELSE SubSeq(pipe, 1, n)[i - Len(buffer_)]
  BY <1>b, <1>3, ConcatProperties
<1>. HIDE DEF buf
<1>5. Continues(buf, 0) /\ Continues(pipe', Len(buf)) /\ Len(buf) <= Size(cmd) /\ Len(buf) > 0
  <2>1. Continues(buf, 0)
    <3>. SUFFICES ASSUME NEW i \in 1..Len(buf) PROVE buf[i] = <<cmd, 0 + i>>
      BY DEF Continues
    <3>1. CASE i <= Len(buffer_)
      <4>1. i \in 1..Len(buffer_) /\ i \in 1..Len(buffer_) + n
        BY <1>b, <1>4, <3>1
      <4>2. buf[i] = buffer_[i]
        BY <1>4, <3>1, <4>1
      <4>3. buffer_[i] = <<cmd, 0 + i>>
        BY <1>a, <1>1, <4>1 DEF InTransit, Continues
      <4>. QED  BY <4>2, <4>3
    <3>2. CASE i > Len(buffer_)
      <4>1. i - Len(buffer_) \in 1..n /\ n \in Nat /\ n <= Len(pipe)
        BY <1>b, <1>4, <3>2
      <4>2. buf[i] = pipe[i - Len(buffer_)]
        BY <1>b, <1>3, <1>4, <3>2, <4>1
      <4>3. pipe[i - Len(buffer_)] = <<cmd, Len(buffer_) + (i - Len(buffer_))>>
        <5>1. Continues(pipe, Len(buffer_))
          BY <1>a, <1>1 DEF InTransit
        <5>2. i - Len(buffer_) \in 1..Len(pipe)
          BY <1>b, <4>1
        <5>. QED  BY <5>1, <5>2 DEF Continues
      <4>. QED  BY <1>b, <4>2, <4>3
    <3>. QED  BY <1>b, <1>4, <3>1, <3>2
  <2>2. Continues(pipe', Len(buf))
    <3>. SUFFICES ASSUME NEW i \in 1..Len(pipe') PROVE pipe'[i] = <<cmd, Len(buf) + i>>
      BY DEF Continues
    <3>1. n + i \in 1..Len(pipe) /\ pipe'[i] = pipe[n + i]
      BY <1>b, <1>3
    <3>2. pipe[n + i] = <<cmd, Len(buffer_) + (n + i)>>
      BY <1>a, <1>1, <3>1 DEF InTransit, Continues
    <3>. QED  BY <1>b, <1>4, <3>1, <3>2
  <2>. QED  BY <1>a, <1>b, <1>c, <1>1, <1>4, <2>1, <2>2 DEF InTransit
<1>6. ReachedEndOfOutput(buf) <=> Len(buf) = Size(cmd)
  BY <1>a, <1>1, <1>4, <1>5, EndIsRecognised
<1>7. Len(pipe') \in Nat /\ Len(buf) + Len(pipe') = Len(buffer_) + Len(pipe)
  <2>1. n \in Nat /\ n <= Len(pipe)
    BY <1>b
  <2>. QED  BY <1>b, <1>3, <1>4, <2>1
<1>8. IF ReachedEndOfOutput(buf)
      THEN FinishRead(buf)
      ELSE /\ buffer_' = buf
           /\ UNCHANGED <<pc, stopping, cmd, ret, active_pid_, input_fd_, output_fd_,
                          times_restarted_, failed_to_start_, forks, reused, child, fdt, todo>>
  BY <1>2 DEF buf
<1>. QED  BY <1>4, <1>5, <1>6, <1>7, <1>8 DEF Reading

LEMMA TransferInit == Init => Transfer
BY DEF Init, Transfer, ReplyAnswersRequest

LEMMA TransferStep ==
  ASSUME "eintr" \notin Faults
  PROVE  TypeOK /\ Budget /\ Wiring /\ Transfer /\ TypeOK' /\ [Next]_vars => Transfer'
<1>. SUFFICES ASSUME TypeOK, Budget, Wiring, Transfer, TypeOK', [Next]_vars PROVE Transfer'
  OBVIOUS
<1>. USE DEF object, system
<1>a. /\ pc = "read" /\ ~reused => cmd \in Command /\ OwnPipes /\ InTransit
      /\ pc = "read" /\ (pipe # <<>> \/ todo # <<>>) => ~reused
  BY ReadsOwn DEF Transfer
<1>b. /\ buffer_ \in Seq(Piece) /\ Len(buffer_) \in Nat
      /\ pipe \in Seq(Piece) /\ Len(pipe) \in Nat
      /\ todo \in Seq(Piece) /\ Len(todo) \in Nat
  BY LenProperties DEF TypeOK
<1>c. cmd \in Command => Size(cmd) \in Nat
  BY AnswerIsSequence
<1>1. CASE GiveUp \/ SendNotStarted \/ WriteBrokenPipe \/ WriteBadDescriptor
  BY <1>1 DEF GiveUp, SendNotStarted, WriteBrokenPipe, WriteBadDescriptor, FailsOrKills, MayTry,
              Transfer, ReplyAnswersRequest
<1>2. CASE Write
  <2>1. cmd \in Command /\ pipe = <<>> /\ todo = <<>>
    BY <1>2 DEF Write, MayTry, TypeOK, Budget, Command, Transfer, InCall
  <2>2. PICK g \in Pids : fdt[output_fd_] = Out(g) /\ child[g] = "running"
    BY <1>2 DEF Write, Reader
  <2>3. g = forks
    BY <1>2, <2>2, Distinct DEF Write, NotStarted, TypeOK, Wiring, NothingElseOpen, OwnPipes, Pids
  <2>4. todo' = Answer(cmd) /\ buffer_' = <<>> /\ pipe' = <<>> /\ pc' = "read" /\ cmd' = cmd
        /\ child'[forks'] = "running"
    BY <1>2, <2>1, <2>2, <2>3, AnswerIsSequence, ConcatEmptySeq DEF Write
  <2>5. InTransit'
    BY <2>1, <2>4, AnswerIsSequence, EmptySeq DEF InTransit, Continues
  <2>. QED  BY <2>4, <2>5 DEF Transfer, ReplyAnswersRequest
<1>3. CASE ReadSome
  <2>1. pc = "read" /\ ~reused
    BY <1>3, <1>a, EmptySeq DEF ReadSome
  <2>2. PICK buf \in Seq(Piece) : Reading(buf)
    BY <1>3, ReadSomeReads
  <2>3. /\ Continues(buf, 0) /\ Continues(pipe', Len(buf)) /\ Len(buf) > 0 /\ Len(buf) <= Size(cmd)
        /\ Len(pipe') \in Nat /\ Len(buf) + Len(pipe') = Len(buffer_) + Len(pipe) /\ Len(buf) \in Nat
        /\ ReachedEndOfOutput(buf) <=> Len(buf) = Size(cmd)
    BY <2>2, LenProperties DEF Reading
  <2>4. Len(buf) + Len(pipe') + Len(todo) <= Size(cmd)
    BY <1>a, <1>b, <1>c, <2>1, <2>3 DEF InTransit
  <2>5. CASE ReachedEndOfOutput(buf)
    <3>1. FinishRead(buf)
      BY <2>2, <2>5 DEF Reading
    <3>2. Len(todo) = 0 /\ Len(pipe') = 0
      BY <1>a, <1>b, <1>c, <2>1, <2>3, <2>4, <2>5
    <3>3. todo = <<>> /\ pipe' = <<>>
      BY <1>b, <3>2, EmptySeq DEF TypeOK
    <3>. QED  BY <1>a, <2>1, <2>3, <3>1, <3>3, TransferFinishRead
  <2>6. CASE ~ReachedEndOfOutput(buf)
    <3>1. /\ buffer_' = buf /\ pc' = "read" /\ cmd' = cmd /\ todo' = todo
          /\ child' = child /\ forks' = forks
      BY <2>1, <2>2, <2>6 DEF Reading
    <3>2. Len(buf) < Size(cmd)
      BY <1>a, <1>c, <2>1, <2>3, <2>6
    <3>3. Continues(todo, Len(buf) + Len(pipe'))
      BY <1>a, <1>b, <2>1, <2>3 DEF InTransit, Continues
    <3>4. InTransit'
      BY <1>a, <2>1, <2>3, <2>4, <3>1, <3>2, <3>3 DEF InTransit, Continues
    <3>. QED  BY <3>1, <3>4 DEF Transfer, ReplyAnswersRequest
  <2>. QED  BY <2>5, <2>6
<1>4. CASE ReadEndOfFile
  <2>2. PICK g \in Pids : fdt[input_fd_] = In(g) /\ child[g] # "running"
    BY <1>4 DEF ReadEndOfFile, Writer
  <2>1. pc = "read" /\ ~reused /\ pipe' = <<>> /\ FinishRead(buffer_)
    BY <1>4, <2>2, ReadsOwn DEF ReadEndOfFile
  <2>3. g = forks
    BY <1>a, <2>1, <2>2, Distinct DEF OwnPipes, Pids
  <2>4. todo = <<>>
    BY <1>a, <2>1, <2>2, <2>3 DEF InTransit
  <2>5. Continues(buffer_, 0) /\ Len(buffer_) <= Size(cmd)
    BY <1>a, <1>b, <1>c, <2>1 DEF InTransit
  <2>. QED  BY <1>a, <1>b, <2>1, <2>4, <2>5, TransferFinishRead
<1>5. CASE Signal
  BY <1>5 DEF Signal, ReadInterrupted, WriteInterrupted
<1>6. CASE RestartIsRunning \/ StartFails \/ StartupCheck
  BY <1>6 DEF RestartIsRunning, StartFails, StartupCheck, RoundEnds, Transfer, ReplyAnswersRequest
<1>7. CASE Kill \/ Sigkill
  BY <1>7 DEF Kill, Sigkill, KillFails, KillSucceeds, AfterKill, CloseBoth, Transfer, ReplyAnswersRequest
<1>8. CASE CloseFiles \/ StartForks
  BY <1>8 DEF CloseFiles, StartForks, CloseBoth, Transfer, ReplyAnswersRequest
<1>9. CASE ChildWrites
  <2>1. pc = "read" /\ ~reused /\ todo # <<>> /\ InTransit
    BY <1>9, <1>a DEF ChildWrites, Transfer
  <2>2. /\ Head(todo) \in Piece /\ Head(todo) = todo[1] /\ Len(todo) > 0
        /\ Len(todo') = Len(todo) - 1
        /\ \A i \in 1..Len(todo') : todo'[i] = todo[i + 1]
    BY <1>9, <1>b, <2>1, HeadTailProperties, EmptySeq DEF ChildWrites
  <2>3. /\ Len(pipe') = Len(pipe) + 1 /\ pipe'[Len(pipe) + 1] = todo[1]
        /\ \A i \in 1..Len(pipe) : pipe'[i] = pipe[i]
    BY <1>9, <1>b, <2>2, AppendProperties DEF ChildWrites
  <2>4. /\ pc' = "read" /\ cmd' = cmd /\ buffer_' = buffer_ /\ child' = child /\ forks' = forks
        /\ child[forks] = "running"
    BY <1>9, <2>1 DEF ChildWrites
  <2>5. Continues(pipe', Len(buffer_)) /\ Continues(todo', Len(buffer_) + Len(pipe'))
    <3>1. todo[1] = <<cmd, Len(buffer_) + Len(pipe) + 1>>
      BY <1>b, <2>1, <2>2 DEF InTransit, Continues
    <3>2. Continues(pipe', Len(buffer_))
      <4>. SUFFICES ASSUME NEW i \in 1..Len(pipe') PROVE pipe'[i] = <<cmd, Len(buffer_) + i>>
        BY DEF Continues
      <4>1. CASE i \in 1..Len(pipe)
        BY <2>1, <2>3, <4>1 DEF InTransit, Continues
      <4>2. CASE i = Len(pipe) + 1
        BY <1>b, <2>3, <3>1, <4>2
      <4>. QED  BY <1>b, <2>3, <4>1, <4>2
    <3>3. Continues(todo', Len(buffer_) + Len(pipe'))
      <4>. SUFFICES ASSUME NEW i \in 1..Len(todo')
                    PROVE  todo'[i] = <<cmd, Len(buffer_) + Len(pipe') + i>>
        BY DEF Continues
      <4>1. i + 1 \in 1..Len(todo) /\ todo'[i] = todo[i + 1]
        BY <1>b, <2>2
      <4>2. todo[i + 1] = <<cmd, Len(buffer_) + Len(pipe) + (i + 1)>>
        BY <2>1, <4>1 DEF InTransit, Continues
      <4>. QED  BY <1>b, <2>3, <4>1, <4>2
    <3>. QED  BY <3>2, <3>3
  <2>6. Len(buffer_) + Len(pipe') + Len(todo') <= Size(cmd)
    BY <1>a, <1>b, <1>c, <2>1, <2>2, <2>3 DEF InTransit
  <2>7. InTransit'
    BY <2>1, <2>4, <2>5, <2>6 DEF InTransit, Continues
  <2>. QED  BY <2>4, <2>7 DEF Transfer, ReplyAnswersRequest
<1>10. ASSUME NEW g \in Pids, Exits(g) PROVE Transfer'
  <2>1. CASE pc = "read" /\ ~reused
    <3>1. forks \in Pids /\ child \in [Pids -> ChildState] /\ InTransit
      BY <1>a, <2>1 DEF TypeOK, OwnPipes
    <3>2. ASSUME g = forks PROVE InTransit'
      <4>1. todo' = <<>> /\ Len(todo') = 0 /\ UNCHANGED <<cmd, buffer_, pipe>>
        BY <1>10, <3>2, EmptySeq DEF Exits
      <4>2. Continues(buffer_, 0)' /\ Continues(pipe, Len(buffer_))'
        BY <3>1, <4>1 DEF InTransit, Continues
      <4>3. Continues(todo, Len(buffer_) + Len(pipe))'
        BY <4>1 DEF Continues
      <4>4. (Len(buffer_) + Len(pipe) + Len(todo) <= Size(cmd))'
        BY <1>a, <1>b, <1>c, <2>1, <3>1, <4>1 DEF InTransit
      <4>. QED  BY <3>1, <4>1, <4>2, <4>3, <4>4 DEF InTransit
    <3>3. ASSUME g # forks PROVE InTransit'
      <4>1. UNCHANGED <<cmd, buffer_, pipe, todo, forks>> /\ child'[forks] = child[forks]
        BY <1>10, <3>1, <3>3 DEF Exits
      <4>. QED  BY <3>1, <4>1 DEF InTransit, Continues
    <3>4. InTransit'
      BY <3>2, <3>3
    <3>. QED  BY <1>10, <2>1, <3>4 DEF Exits, Transfer, ReplyAnswersRequest
  <2>2. CASE pc # "read" \/ reused
    BY <1>10, <2>2 DEF Exits, Transfer, ReplyAnswersRequest
  <2>. QED  BY <2>1, <2>2
<1>11. ASSUME NEW g \in Pids, ChildBecomesZombie(g) PROVE Transfer'
  <2>1. pc = "read" /\ ~reused => InTransit'
    BY <1>11, <1>a DEF ChildBecomesZombie, InTransit, Continues, TypeOK, OwnPipes
  <2>. QED  BY <1>11, <2>1 DEF ChildBecomesZombie, Transfer, ReplyAnswersRequest
<1>12. CASE SendCommand \/ StopTheWorld
  BY <1>12 DEF SendCommand, StopTheWorld, Transfer, ReplyAnswersRequest
<1>13. ASSUME NEW f \in FD, HostOpens(f) \/ HostCloses(f) PROVE Transfer'
  <2>1. /\ UNCHANGED <<pc, cmd, ret, buffer_, pipe, todo, child, forks>>
        /\ reused => reused'
    BY <1>13 DEF HostOpens, HostCloses, TypeOK
  <2>2. (InTransit <=> InTransit') /\ UNCHANGED Answer(cmd)
    BY <2>1, Zenon DEF InTransit, Continues, Answer
  <2>. QED  BY <2>1, <2>2 DEF Transfer, ReplyAnswersRequest
<1>14. CASE UNCHANGED vars
  BY <1>14 DEF vars, Transfer, ReplyAnswersRequest, InTransit, Continues
<1>15. CASE WriteForeign \/ ReadBadDescriptor \/ ReadForeign
  BY <1>15, ForeignIsReuse DEF Transfer, ReplyAnswersRequest
<1>. QED
  BY <1>1, <1>2, <1>3, <1>4, <1>5, <1>6, <1>7, <1>8, <1>9, <1>10, <1>11, <1>12, <1>13, <1>14, <1>15
  DEF Next, Library, Signal, Foreign, Child, HostProgram, Done, ChildDies, ChildSeesEndOfInput

\* Unless a signal interrupts a read, what SendCommand returns is a beginning of
\* the answer to that very command: nothing stale survives restarts and deaths.
THEOREM RepliesAreCurrent ==
  ASSUME "eintr" \notin Faults
  PROVE  Spec => []ReplyAnswersRequest
<1>. DEFINE Inv == TypeOK /\ Budget /\ Wiring /\ Transfer
<1>1. Init => Inv
  BY TypeInit, BudgetInit, WiringInit, TransferInit
<1>2. Inv /\ [Next]_vars => Inv'
  BY TypeStep, BudgetStep, WiringStep, TransferStep
<1>3. Inv => ReplyAnswersRequest
  BY DEF Transfer
<1>. QED  BY <1>1, <1>2, <1>3, PTL DEF Spec

-----------------------------------------------------------------------------
(* What a living child is worth                                            *)

\* As long as the child lives, nothing of its answer is lost on the way.
NothingLostOnTheWay ==
  pc = "read" /\ ~reused /\ child[forks] = "running" =>
    Len(buffer_) + Len(pipe) + Len(todo) = Size(cmd)

\* Only a child can have answered, or be gone.
ThereIsAChild ==
  ~reused => (pc = "dead" \/ (pc = "idle" /\ ret = "data") => forks \in Pids)

Heard == NothingLostOnTheWay /\ ThereIsAChild /\ LivingChildIsHeardOut /\ HostOutlivesChild

\* Of a whole answer exactly the mark is trimmed, wherever the tool may find one.
LEMMA WholeAnswerIsTrimmed ==
  ASSUME TypeOK, cmd \in Command, NEW buf \in Seq(Piece), Continues(buf, 0), Len(buf) = Size(cmd),
         ReachedEndOfOutput(buf), FinishRead(buf)
  PROVE  pc' = "idle" /\ cmd' = cmd /\ buffer_' = Complete(cmd)
<1>1. /\ Size(cmd) \in Nat \ {0} /\ Answer(cmd) \in Seq(Piece) /\ Len(Answer(cmd)) = Size(cmd)
      /\ \A i \in 1..Size(cmd) : Answer(cmd)[i] = <<cmd, i>>
  BY AnswerIsSequence
<1>2. \A i \in 1..Len(buf) : buf[i] = <<cmd, i>>
  BY DEF Continues
<1>3. buf = Answer(cmd)
  BY <1>1, <1>2, SeqEqual
<1>4. CASE Tool # "addr2line"
  BY <1>3, <1>4 DEF FinishRead, Complete
<1>5. CASE Tool = "addr2line"
  <2>1. Size(cmd) > 1 /\ (cmd \in UnknownAddresses => Size(cmd) = 2)
        /\ (cmd \notin UnknownAddresses => Size(cmd) = Pieces)
    BY <1>5, Constants DEF Size
  <2>2. \A i \in 1..Len(buf) : EndsOutput(buf[i]) <=> cmd \in UnknownAddresses \/ i = Pieces
    BY <1>2 DEF EndsOutput
  <2>3. Terminators(buf) = {Size(cmd)}
    BY <1>1, <2>1, <2>2 DEF Terminators
  <2>4. pc' = "idle" /\ cmd' = cmd /\ buffer_' = SubSeq(buf, 1, Size(cmd) - 1)
    BY <1>5, <2>3 DEF FinishRead
  <2>. QED  BY <1>3, <1>5, <2>4 DEF Complete
<1>. QED  BY <1>4, <1>5

LEMMA HeardStep ==
  ASSUME "eintr" \notin Faults
  PROVE  TypeOK /\ Budget /\ Wiring /\ Transfer /\ Heard /\ TypeOK' /\ [Next]_vars => Heard'
<1>. SUFFICES ASSUME TypeOK, Budget, Wiring, Transfer, Heard, TypeOK', [Next]_vars PROVE Heard'
  OBVIOUS
<1>. USE DEF object, system, Heard, NothingLostOnTheWay, ThereIsAChild, LivingChildIsHeardOut,
            HostOutlivesChild
<1>a. /\ pc = "read" /\ ~reused => cmd \in Command /\ OwnPipes /\ InTransit
      /\ pc = "read" /\ (pipe # <<>> \/ todo # <<>>) => ~reused
  BY ReadsOwn DEF Transfer
<1>b. /\ Len(buffer_) \in Nat /\ Len(pipe) \in Nat /\ Len(todo) \in Nat
      /\ todo \in Seq(Piece) /\ pipe \in Seq(Piece)
  BY LenProperties DEF TypeOK
<1>1. CASE GiveUp \/ SendNotStarted \/ WriteBadDescriptor
  BY <1>1 DEF GiveUp, SendNotStarted, WriteBadDescriptor, MayTry
<1>2. CASE WriteBrokenPipe
  <2>1. PICK g \in Pids : fdt[output_fd_] = Out(g) /\ child[g] # "running"
    BY <1>2 DEF WriteBrokenPipe, Reader
  <2>2. g = forks
    BY <1>2, <2>1, Distinct DEF WriteBrokenPipe, NotStarted, TypeOK, Wiring, NothingElseOpen, OwnPipes, Pids
  <2>. QED  BY <1>2, <2>1, <2>2 DEF WriteBrokenPipe, FailsOrKills
<1>3. CASE Write
  <2>1. cmd \in Command /\ pipe = <<>> /\ todo = <<>>
    BY <1>3 DEF Write, MayTry, TypeOK, Budget, Command, Transfer, InCall
  <2>2. todo' = Answer(cmd) /\ buffer_' = <<>> /\ pipe' = <<>> /\ pc' = "read" /\ cmd' = cmd
    BY <1>3, <2>1, AnswerIsSequence, ConcatEmptySeq DEF Write
  <2>3. Len(buffer_') + Len(pipe') + Len(todo') = Size(cmd)
    BY <2>1, <2>2, AnswerIsSequence, EmptySeq
  <2>. QED  BY <2>2, <2>3
<1>4. CASE ReadSome
  <2>1. pc = "read" /\ ~reused
    BY <1>4, <1>a, EmptySeq DEF ReadSome
  <2>2. PICK buf \in Seq(Piece) : Reading(buf)
    BY <1>4, ReadSomeReads
  <2>3. CASE ReachedEndOfOutput(buf)
    <3>1. pc' = "idle" /\ buffer_' = Complete(cmd) /\ cmd' = cmd
      BY <1>a, <2>1, <2>2, <2>3, WholeAnswerIsTrimmed DEF Reading
    <3>2. forks' = forks /\ forks \in Pids
      BY <1>a, <2>1, <2>2, <2>3 DEF Reading, FinishRead, OwnPipes
    <3>. QED  BY <3>1, <3>2
  <2>4. CASE ~ReachedEndOfOutput(buf)
    <3>1. /\ Len(buf) + Len(pipe') = Len(buffer_) + Len(pipe) /\ buffer_' = buf
          /\ UNCHANGED <<pc, cmd, todo, child, forks, reused>>
          /\ Len(buf) \in Nat /\ Len(pipe') \in Nat
      BY <2>2, <2>4, LenProperties DEF Reading
    <3>. QED  BY <1>b, <2>1, <3>1
  <2>. QED  BY <2>3, <2>4
<1>5. CASE ReadEndOfFile
  <2>2. PICK g \in Pids : fdt[input_fd_] = In(g) /\ child[g] # "running"
    BY <1>5 DEF ReadEndOfFile, Writer
  <2>1. pc = "read" /\ ~reused /\ FinishRead(buffer_)
    BY <1>5, <2>2, ReadsOwn DEF ReadEndOfFile
  <2>3. g = forks
    BY <1>a, <2>1, <2>2, Distinct DEF OwnPipes, Pids
  <2>4. pc' \in {"idle", "dead"} /\ UNCHANGED <<child, forks>>
    BY <2>1 DEF FinishRead
  <2>5. forks \in Pids
    BY <2>3
  <2>. QED  BY <2>2, <2>3, <2>4, <2>5
<1>6. CASE Signal
  BY <1>6 DEF Signal, ReadInterrupted, WriteInterrupted
<1>7. CASE RestartIsRunning \/ StartFails \/ StartupCheck \/ CloseFiles \/ StartForks
  BY <1>7 DEF RestartIsRunning, StartFails, StartupCheck, RoundEnds, CloseFiles, StartForks
<1>8. CASE Kill \/ Sigkill
  BY <1>8 DEF Kill, Sigkill, KillFails, KillSucceeds, AfterKill
<1>9. CASE ChildWrites
  <2>1. pc = "read" /\ ~reused
    BY <1>9, <1>a DEF ChildWrites, Transfer
  <2>2. Len(todo') = Len(todo) - 1 /\ Len(todo) > 0 /\ Head(todo) \in Piece
    BY <1>9, <1>b, HeadTailProperties, EmptySeq DEF ChildWrites
  <2>3. Len(pipe') = Len(pipe) + 1
    BY <1>9, <1>b, <2>2, AppendProperties DEF ChildWrites
  <2>4. UNCHANGED <<pc, cmd, buffer_, child, forks, reused>>
    BY <1>9 DEF ChildWrites
  <2>5. Len(buffer_') + Len(pipe') + Len(todo') = Len(buffer_) + Len(pipe) + Len(todo)
    BY <1>b, <2>2, <2>3, <2>4
  <2>. QED  BY <2>1, <2>4, <2>5
<1>10. ASSUME NEW g \in Pids, Exits(g) \/ ChildBecomesZombie(g) PROVE Heard'
  <2>1. UNCHANGED <<pc, cmd, ret, buffer_, pipe, forks, reused>>
    BY <1>10 DEF Exits, ChildBecomesZombie
  <2>2. forks \in Pids /\ child'[forks] = "running" => child[forks] = "running" /\ UNCHANGED todo
    BY <1>10 DEF Exits, ChildBecomesZombie, TypeOK
  <2>3. pc = "read" /\ ~reused => forks \in Pids
    BY <1>a DEF OwnPipes
  <2>. QED  BY <2>1, <2>2, <2>3
<1>11. CASE SendCommand \/ StopTheWorld
  BY <1>11 DEF SendCommand, StopTheWorld
<1>12. ASSUME NEW f \in FD, HostOpens(f) \/ HostCloses(f) PROVE Heard'
  BY <1>12 DEF HostOpens, HostCloses
<1>13. CASE UNCHANGED vars
  BY <1>13 DEF vars
<1>14. CASE WriteForeign \/ ReadBadDescriptor \/ ReadForeign
  BY <1>14, ForeignIsReuse
<1>. QED
  BY <1>1, <1>2, <1>3, <1>4, <1>5, <1>6, <1>7, <1>8, <1>9, <1>10, <1>11, <1>12, <1>13, <1>14
  DEF Next, Library, Signal, Foreign, Child, HostProgram, Done, ChildDies, ChildSeesEndOfInput

LEMMA HeardHolds ==
  ASSUME "eintr" \notin Faults
  PROVE  Spec => []Heard
<1>. DEFINE Inv == TypeOK /\ Budget /\ Wiring /\ Transfer /\ Heard
<1>1. Init => Inv
  BY TypeInit, BudgetInit, WiringInit, TransferInit
  DEF Init, Heard, NothingLostOnTheWay, ThereIsAChild, LivingChildIsHeardOut, HostOutlivesChild
<1>2. Inv /\ [Next]_vars => Inv'
  BY TypeStep, BudgetStep, WiringStep, TransferStep, HeardStep
<1>. QED  BY <1>1, <1>2, PTL DEF Spec

\* Unless a signal interrupts a read, a reply is short only if the child is gone,
\* wherever read() cuts its output and although the mark is a legal answer too.
THEOREM RepliesAreWhole ==
  ASSUME "eintr" \notin Faults
  PROVE  Spec => []LivingChildIsHeardOut
<1>1. Heard => LivingChildIsHeardOut
  BY DEF Heard
<1>. QED  BY <1>1, HeardHolds, PTL

\* Unless a signal interrupts a read, neither the CHECK on the mark nor SIGPIPE
\* takes the host down while the child lives.
THEOREM HostDiesAfterChild ==
  ASSUME "eintr" \notin Faults
  PROVE  Spec => []HostOutlivesChild
<1>1. Heard => HostOutlivesChild
  BY DEF Heard
<1>. QED  BY <1>1, HeardHolds, PTL

-----------------------------------------------------------------------------
(* A child that is not taken away                                          *)

LEMMA FedIsRunningStep ==
  ASSUME "child-dies" \notin Faults
  PROVE  TypeOK /\ Budget /\ Wiring /\ FedIsRunning /\ [Next]_vars => FedIsRunning'
<1>. SUFFICES ASSUME TypeOK, Budget, Wiring, FedIsRunning, [Next]_vars PROVE FedIsRunning'
  OBVIOUS
<1>. USE Distinct DEF TypeOK, FedIsRunning, IsOpen, object, system
<1>1. CASE GiveUp \/ SendNotStarted \/ Write \/ WriteBrokenPipe \/ WriteBadDescriptor
  BY <1>1 DEF GiveUp, SendNotStarted, Write, WriteBrokenPipe, WriteBadDescriptor
<1>2. CASE ReadSome \/ ReadEndOfFile \/ Signal
  BY <1>2 DEF ReadSome, ReadEndOfFile, Signal, ReadInterrupted, WriteInterrupted, FinishRead
<1>15. CASE WriteForeign \/ ReadBadDescriptor \/ ReadForeign
  BY <1>15, ForeignIsReuse
<1>3. ASSUME NEW g \in Pids, WaitReaps(g), UNCHANGED fdt PROVE FedIsRunning'
  BY <1>3 DEF WaitReaps
<1>4. ASSUME CloseBoth, child' = child PROVE FedIsRunning'
  BY <1>4 DEF CloseBoth, Pids, Free, Out
<1>5. CASE RestartIsRunning
  BY <1>3, <1>5 DEF RestartIsRunning
<1>6. CASE Kill \/ Sigkill
  BY <1>3, <1>4, <1>6 DEF Kill, Sigkill, KillFails, KillSucceeds
<1>7. CASE CloseFiles
  BY <1>4, <1>7 DEF CloseFiles
<1>8. CASE StartFails
  BY <1>8 DEF StartFails
<1>9. CASE StartForks
  <2>1. forks + 1 \in Pids
    BY <1>9, Constants DEF StartForks, Budget, BudgetAccountsForks, InCall, Pids
  <2>2. \A g \in Pids, f \in FD : fdt'[f] = Out(g) => g = forks + 1 \/ fdt[f] = Out(g)
    BY <1>9, <2>1 DEF StartForks, Pids
  <2>3. \A g \in Pids : child'[g] = IF g = forks + 1 THEN "running" ELSE child[g]
    BY <1>9 DEF StartForks
  <2>. QED  BY <2>2, <2>3
<1>10. CASE StartupCheck
  <2>1. forks \in Pids
    BY <1>10 DEF StartupCheck, Wiring, OpenInUse, OwnPipes
  <2>. QED  BY <1>3, <1>10, <2>1 DEF StartupCheck
<1>11. CASE Child
  <2>1. CASE ChildWrites
    BY <2>1 DEF ChildWrites
  <2>2. ASSUME NEW g \in Pids, ChildSeesEndOfInput(g) PROVE FedIsRunning'
    BY <2>2 DEF ChildSeesEndOfInput, Exits
  <2>3. ASSUME NEW g \in Pids, ChildBecomesZombie(g) PROVE FedIsRunning'
    BY <2>3 DEF ChildBecomesZombie
  <2>. QED  BY <1>11, <2>1, <2>2, <2>3 DEF Child, ChildDies
<1>12. CASE SendCommand \/ StopTheWorld
  BY <1>12 DEF SendCommand, StopTheWorld
<1>13. ASSUME NEW f \in FD, HostOpens(f) \/ HostCloses(f) PROVE FedIsRunning'
  <2>1. PICK to \in {Free, Host} : fdt' = [fdt EXCEPT ![f] = to] /\ child' = child
    BY <1>13 DEF HostOpens, HostCloses
  <2>2. \A g \in Pids : Out(g) # to
    BY <2>1, Constants DEF Pids
  <2>. QED  BY <2>1, <2>2
<1>14. CASE UNCHANGED vars
  BY <1>14 DEF vars
<1>. QED
  BY <1>1, <1>2, <1>5, <1>6, <1>7, <1>8, <1>9, <1>10, <1>11, <1>12, <1>13, <1>14, <1>15
  DEF Next, Library, Foreign, HostProgram, Done

LEMMA FedIsRunningHolds ==
  ASSUME "child-dies" \notin Faults
  PROVE  Spec => []FedIsRunning
<1>1. Init => FedIsRunning
  BY Distinct DEF Init, FedIsRunning, IsOpen, Pids
<1>2. TypeOK /\ Budget /\ Wiring /\ FedIsRunning /\ [Next]_vars => FedIsRunning'
  BY FedIsRunningStep
<1>. QED  BY <1>1, <1>2, Invariance, PTL DEF Spec

\* A symbolizer that does not die and is not interrupted is always heard in full:
\* SendCommand returns the whole answer to its command, or nothing.
THEOREM SurvivorsAnswerInFull ==
  ASSUME "child-dies" \notin Faults, "eintr" \notin Faults
  PROVE  Spec => []ReplyComplete
<1>. DEFINE Inv == TypeOK /\ Budget /\ Wiring /\ Heard /\ FedIsRunning
<1>1. Init => ReplyComplete
  BY DEF Init, ReplyComplete
<1>2. Inv /\ Heard' /\ ReplyComplete /\ [Next]_vars => ReplyComplete'
  <2>. SUFFICES ASSUME Inv, Heard', ReplyComplete, [Next]_vars PROVE ReplyComplete'
    OBVIOUS
  <2>. USE DEF object, system, ReplyComplete
  <2>a. pc = "read" /\ ~reused => child[forks] = "running"
    BY DEF Wiring, OpenInUse, OwnPipes, FedIsRunning, IsOpen
  <2>1. ASSUME NEW buf, FinishRead(buf), pc = "read" PROVE ReplyComplete'
    <3>1. CASE ~reused
      <4>1. child'[forks'] = "running"
        BY <2>a, <2>1, <3>1 DEF FinishRead
      <4>. QED  BY <4>1 DEF Heard, LivingChildIsHeardOut
    <3>2. CASE reused
      BY <2>1, <3>2 DEF FinishRead
    <3>. QED  BY <3>1, <3>2
  <2>2. CASE ReadSome
    BY <2>1, <2>2 DEF ReadSome
  <2>3. CASE ReadEndOfFile
    BY <2>1, <2>3 DEF ReadEndOfFile
  <2>12. CASE WriteForeign \/ ReadBadDescriptor \/ ReadForeign
    BY <2>12, ForeignIsReuse
  <2>4. CASE Signal
    BY <2>4 DEF Signal, ReadInterrupted, WriteInterrupted
  <2>5. CASE GiveUp \/ SendNotStarted \/ Write \/ WriteBrokenPipe \/ WriteBadDescriptor
    BY <2>5 DEF GiveUp, SendNotStarted, Write, WriteBrokenPipe, WriteBadDescriptor, FailsOrKills, MayTry
  <2>6. CASE RestartIsRunning \/ CloseFiles \/ StartFails \/ StartForks \/ StartupCheck
    BY <2>6 DEF RestartIsRunning, CloseFiles, StartFails, StartForks, StartupCheck, RoundEnds
  <2>7. CASE Kill \/ Sigkill
    BY <2>7 DEF Kill, Sigkill, KillFails, KillSucceeds, AfterKill
  <2>8. CASE Child
    BY <2>8 DEF Child, ChildWrites, ChildDies, ChildSeesEndOfInput, ChildBecomesZombie, Exits
  <2>9. CASE SendCommand \/ StopTheWorld
    BY <2>9 DEF SendCommand, StopTheWorld
  <2>10. ASSUME NEW f \in FD, HostOpens(f) \/ HostCloses(f) PROVE ReplyComplete'
    BY <2>10 DEF HostOpens, HostCloses
  <2>11. CASE UNCHANGED vars
    BY <2>11 DEF vars
  <2>. QED
    BY <2>2, <2>3, <2>4, <2>5, <2>6, <2>7, <2>8, <2>9, <2>10, <2>11, <2>12
    DEF Next, Library, Foreign, HostProgram, Done
<1>. QED  BY <1>1, <1>2, Invariance, HeardHolds, FedIsRunningHolds, PTL DEF Spec

\* It takes the death of a child to take the host down, by SIGPIPE or by the CHECK of
\* addr2line on its mark.
THEOREM SurvivorsSpareTheHost ==
  ASSUME "child-dies" \notin Faults, "eintr" \notin Faults
  PROVE  Spec => []HostSurvives
<1>1. Init => HostSurvives
  BY DEF Init, HostSurvives
<1>2. TypeOK /\ Budget /\ Wiring /\ Heard' /\ FedIsRunning /\ HostSurvives /\ [Next]_vars => HostSurvives'
  <2>. SUFFICES ASSUME TypeOK, Budget, Wiring, Heard', FedIsRunning, HostSurvives, [Next]_vars
                PROVE  HostSurvives'
    OBVIOUS
  <2>. USE DEF object, system, HostSurvives
  <2>a. pc = "read" /\ ~reused => child[forks] = "running"
    BY DEF Wiring, OpenInUse, OwnPipes, FedIsRunning, IsOpen
  <2>1. ASSUME NEW buf, FinishRead(buf), pc = "read" PROVE HostSurvives'
    <3>1. CASE ~reused
      <4>1. child'[forks'] = "running"
        BY <2>a, <2>1, <3>1 DEF FinishRead
      <4>. QED  BY <4>1 DEF Heard, HostOutlivesChild
    <3>2. CASE reused
      BY <2>1, <3>2 DEF FinishRead
    <3>. QED  BY <3>1, <3>2
  <2>13. CASE WriteForeign \/ ReadBadDescriptor \/ ReadForeign
    BY <2>13, ForeignIsReuse
  <2>2. CASE ReadSome
    BY <2>1, <2>2 DEF ReadSome
  <2>3. CASE ReadEndOfFile
    BY <2>1, <2>3 DEF ReadEndOfFile
  <2>4. CASE Signal
    BY <2>4 DEF Signal, ReadInterrupted, WriteInterrupted
  <2>5. CASE GiveUp \/ SendNotStarted \/ Write \/ WriteBadDescriptor
    BY <2>5 DEF GiveUp, SendNotStarted, Write, WriteBadDescriptor
  <2>6. ~ WriteBrokenPipe
    <3>. SUFFICES ASSUME WriteBrokenPipe PROVE FALSE
      OBVIOUS
    <3>1. PICK g \in Pids : fdt[output_fd_] = Out(g) /\ child[g] # "running"
      BY DEF WriteBrokenPipe, Reader
    <3>2. output_fd_ \in FD
      BY DEF WriteBrokenPipe, NotStarted, TypeOK
    <3>. QED  BY <3>1, <3>2 DEF FedIsRunning, IsOpen
  <2>7. CASE RestartIsRunning \/ CloseFiles \/ StartFails \/ StartForks \/ StartupCheck
    BY <2>7 DEF RestartIsRunning, CloseFiles, StartFails, StartForks, StartupCheck, RoundEnds
  <2>8. CASE Kill \/ Sigkill
    BY <2>8 DEF Kill, Sigkill, KillFails, KillSucceeds, AfterKill
  <2>9. CASE Child
    BY <2>9 DEF Child, ChildWrites, ChildDies, ChildSeesEndOfInput, ChildBecomesZombie, Exits
  <2>10. CASE SendCommand \/ StopTheWorld
    BY <2>10 DEF SendCommand, StopTheWorld
  <2>11. ASSUME NEW f \in FD, HostOpens(f) \/ HostCloses(f) PROVE HostSurvives'
    BY <2>11 DEF HostOpens, HostCloses
  <2>12. CASE UNCHANGED vars
    BY <2>12 DEF vars
  <2>. QED
    BY <2>2, <2>3, <2>4, <2>5, <2>6, <2>7, <2>8, <2>9, <2>10, <2>11, <2>12, <2>13
    DEF Next, Library, Foreign, HostProgram, Done
<1>. QED  BY <1>1, <1>2, Invariance, HeardHolds, FedIsRunningHolds, PTL DEF Spec

-----------------------------------------------------------------------------
(* Calls come to an end, as far as it takes no fairness                    *)

\* Of two sequences one after the other, the last element is that of the second.
LEMMA LastOfTwo ==
  ASSUME NEW s \in Seq(Piece), NEW r \in Seq(Piece), Len(r) > 0
  PROVE  /\ s \o r \in Seq(Piece) /\ Len(s \o r) = Len(s) + Len(r)
         /\ (s \o r)[Len(s) + Len(r)] = r[Len(r)]
<1>. DEFINE c == s \o r
            k == Len(s) + Len(r)
<1>1. Len(s) \in Nat /\ Len(r) \in Nat
  BY LenProperties
<1>2. /\ c \in Seq(Piece) /\ Len(c) = Len(s) + Len(r)
      /\ \A i \in 1..Len(s) + Len(r) : c[i] = IF i <= Len(s) THEN s[i] ELSE r[i - Len(s)]
  BY ConcatProperties
<1>3. k \in 1..Len(s) + Len(r) /\ ~(k <= Len(s)) /\ k - Len(s) = Len(r)
  BY <1>1
<1>. HIDE DEF c, k
<1>4. c[k] = r[k - Len(s)]
  BY <1>2, <1>3
<1>5. c[k] = r[Len(r)]
  BY <1>3, <1>4, Zenon
<1>. QED  BY <1>2, <1>5 DEF c, k

\* An action that can only be taken outside a read, or ends it, keeps Awaited.
LEMMA NotReading == ASSUME pc' # "read" PROVE Awaited'
BY DEF Awaited

LEMMA AwaitedRead ==
  ASSUME TypeOK, Budget, Wiring, Awaited, ReadSome
  PROVE  Awaited'
<1>. USE DEF Awaited
<1>a. /\ buffer_ \in Seq(Piece) /\ Len(buffer_) \in Nat
      /\ pipe \in Seq(Piece) /\ Len(pipe) \in Nat
      /\ todo \in Seq(Piece) /\ Len(todo) \in Nat
  BY LenProperties DEF TypeOK
<1>1. PICK n \in 1..Len(pipe) :
        LET buf == buffer_ \o SubSeq(pipe, 1, n) IN
        /\ pipe' = SubSeq(pipe, n + 1, Len(pipe))
        /\ IF ReachedEndOfOutput(buf)
           THEN FinishRead(buf)
           ELSE /\ buffer_' = buf
                /\ UNCHANGED <<pc, stopping, cmd, ret, active_pid_, input_fd_, output_fd_,
                               times_restarted_, failed_to_start_, forks, reused, child, fdt, todo>>
  BY DEF ReadSome
<1>. DEFINE buf == buffer_ \o SubSeq(pipe, 1, n)
            last == <<cmd, Size(cmd)>>
<1>2. /\ SubSeq(pipe, 1, n) \in Seq(Piece) /\ Len(SubSeq(pipe, 1, n)) = n
      /\ \A i \in 1..n : SubSeq(pipe, 1, n)[i] = pipe[i]
      /\ pipe' \in Seq(Piece) /\ Len(pipe') = Len(pipe) - n
      /\ \A i \in 1..Len(pipe) - n : pipe'[i] = pipe[n + i]
  BY <1>a, <1>1, Cut
<1>3. /\ buf \in Seq(Piece) /\ Len(buf) = Len(buffer_) + n
      /\ \A i \in 1..Len(buffer_) + n :
           buf[i] = IF i <= Len(buffer_) THEN buffer_[i] ELSE SubSeq(pipe, 1, n)[i - Len(buffer_)]
  BY <1>a, <1>2, ConcatProperties
<1>4. n \in Nat /\ n > 0 /\ n <= Len(pipe) /\ pipe # <<>>
  BY <1>a, EmptySeq
<1>5. pc = "read" /\ ~reused
  BY <1>4, ReadsOwn DEF ReadSome
<1>. HIDE DEF buf
<1>6. CASE ReachedEndOfOutput(buf)
  <2>1. pc' # "read"
    BY <1>1, <1>6 DEF buf, FinishRead
  <2>. QED  BY <2>1, NotReading
<1>7. CASE ~ReachedEndOfOutput(buf)
  <2>1. buffer_' = buf /\ UNCHANGED <<pc, cmd, forks, child, todo, reused>>
    BY <1>1, <1>7 DEF buf
  <2>. SUFFICES ASSUME child[forks] = "running"
                PROVE  /\ Len(buffer_') + Len(pipe') + Len(todo') >= Size(cmd)
                       /\ todo' # <<>> => todo'[Len(todo')] = last
                       /\ todo' = <<>> /\ pipe' # <<>> => pipe'[Len(pipe')] = last
                       /\ todo' = <<>> /\ pipe' = <<>> => buffer_'[Len(buffer_')] = last
    BY <1>7, <2>1
  <2>2. /\ Len(buffer_) + Len(pipe) + Len(todo) >= Size(cmd)
        /\ todo # <<>> => todo[Len(todo)] = last
        /\ todo = <<>> => pipe[Len(pipe)] = last
    BY <1>4, <1>5
  <2>3. Len(buffer_') + Len(pipe') + Len(todo') = Len(buffer_) + Len(pipe) + Len(todo)
    <3>1. Len(buffer_') = Len(buffer_) + n /\ Len(pipe') = Len(pipe) - n /\ todo' = todo
      BY <1>2, <1>3, <2>1
    <3>2. Len(buffer_) \in Nat /\ Len(pipe) \in Nat /\ Len(todo) \in Nat
      BY <1>a
    <3>. QED  BY <1>4, <3>1, <3>2
  <2>4. pipe' # <<>> => pipe'[Len(pipe')] = pipe[Len(pipe)]
    <3>. SUFFICES ASSUME pipe' # <<>> PROVE pipe'[Len(pipe')] = pipe[Len(pipe)]
      OBVIOUS
    <3>1. Len(pipe') > 0
      BY <1>2, EmptySeq, LenProperties
    <3>2. Len(pipe') \in 1..Len(pipe) - n /\ n + Len(pipe') = Len(pipe)
      BY <1>a, <1>2, <1>4, <3>1
    <3>. QED  BY <1>2, <3>2
  <2>5. pipe' = <<>> => buf[Len(buf)] = pipe[Len(pipe)]
    <3>. SUFFICES ASSUME pipe' = <<>> PROVE buf[Len(buf)] = pipe[Len(pipe)]
      OBVIOUS
    <3>1. n = Len(pipe) /\ n \in 1..n
      BY <1>a, <1>2, <1>4, EmptySeq
    <3>2. Len(buf) \in 1..Len(buffer_) + n /\ ~(Len(buf) <= Len(buffer_)) /\ Len(buf) - Len(buffer_) = n
      BY <1>a, <1>3, <1>4
    <3>3. buf[Len(buf)] = SubSeq(pipe, 1, n)[n]
      BY <1>3, <3>2
    <3>. QED  BY <1>2, <3>1, <3>3
  <2>. QED  BY <2>1, <2>2, <2>3, <2>4, <2>5
<1>. QED  BY <1>6, <1>7

LEMMA AwaitedStep == TypeOK /\ Budget /\ Wiring /\ Awaited /\ [Next]_vars => Awaited'
<1>. SUFFICES ASSUME TypeOK, Budget, Wiring, Awaited, [Next]_vars PROVE Awaited'
  OBVIOUS
<1>. USE DEF object, system
<1>a. /\ pipe \in Seq(Piece) /\ Len(pipe) \in Nat
      /\ todo \in Seq(Piece) /\ Len(todo) \in Nat
  BY LenProperties DEF TypeOK
<1>1. CASE GiveUp \/ SendNotStarted \/ WriteBrokenPipe \/ WriteBadDescriptor \/ WriteInterrupted
  BY <1>1, NotReading DEF GiveUp, SendNotStarted, WriteBrokenPipe, FailsOrKills, WriteBadDescriptor,
                          WriteInterrupted
<1>2. CASE Write
  <2>1. cmd \in Command
    BY <1>2 DEF Write, MayTry, TypeOK, Budget, Command, InCall
  <2>2. /\ Size(cmd) \in Nat /\ Size(cmd) > 0 /\ Answer(cmd) \in Seq(Piece)
        /\ Len(Answer(cmd)) = Size(cmd) /\ Answer(cmd)[Size(cmd)] = <<cmd, Size(cmd)>>
    <3>1. Size(cmd) \in Nat \ {0} /\ Size(cmd) \in 1..Size(cmd)
      BY <2>1, AnswerIsSequence
    <3>. QED  BY <2>1, <3>1, AnswerIsSequence
  <2>3. buffer_' = <<>> /\ todo' = todo \o Answer(cmd) /\ UNCHANGED <<cmd, pipe, forks, child>>
    BY <1>2 DEF Write
  <2>4. /\ Len(todo') = Len(todo) + Size(cmd) /\ todo' \in Seq(Piece)
        /\ todo'[Len(todo) + Size(cmd)] = Answer(cmd)[Size(cmd)]
    BY <1>a, <2>2, <2>3, LastOfTwo
  <2>5. todo' # <<>>
    BY <1>a, <2>2, <2>4, EmptySeq
  <2>6. ~ReachedEndOfOutput(buffer_')
    BY <2>3, EmptySeq DEF ReachedEndOfOutput
  <2>7. Len(buffer_') + Len(pipe') + Len(todo') >= Size(cmd)
    BY <1>a, <2>2, <2>3, <2>4, EmptySeq
  <2>. QED  BY <2>2, <2>3, <2>4, <2>5, <2>6, <2>7 DEF Awaited, ReachedEndOfOutput
<1>3. CASE ReadSome
  BY <1>3, AwaitedRead
<1>4. CASE ReadEndOfFile \/ ReadInterrupted
  BY <1>4, NotReading DEF ReadEndOfFile, ReadInterrupted, FinishRead
<1>5. CASE RestartIsRunning \/ CloseFiles \/ StartFails \/ StartForks \/ StartupCheck
  BY <1>5, NotReading DEF RestartIsRunning, CloseFiles, StartFails, StartForks, StartupCheck, RoundEnds
<1>6. CASE Kill \/ Sigkill
  BY <1>6, NotReading DEF Kill, Sigkill, KillFails, KillSucceeds, AfterKill
<1>7. CASE ChildWrites
  <2>1. /\ todo # <<>> /\ pipe' = Append(pipe, Head(todo)) /\ todo' = Tail(todo)
        /\ UNCHANGED <<pc, cmd, buffer_, forks, child, reused>>
    BY <1>7 DEF ChildWrites
  <2>2. /\ Head(todo) \in Piece /\ Head(todo) = todo[1] /\ Len(todo) > 0
        /\ Tail(todo) \in Seq(Piece) /\ Len(Tail(todo)) = Len(todo) - 1
        /\ \A i \in 1..Len(Tail(todo)) : Tail(todo)[i] = todo[i + 1]
    BY <1>a, <2>1, HeadTailProperties, EmptySeq
  <2>3. /\ Len(pipe') = Len(pipe) + 1 /\ pipe'[Len(pipe')] = Head(todo) /\ pipe' # <<>>
    BY <1>a, <2>1, <2>2, AppendProperties, EmptySeq
  <2>4. todo' # <<>> => todo'[Len(todo')] = todo[Len(todo)]
    <3>. SUFFICES ASSUME todo' # <<>> PROVE todo'[Len(todo')] = todo[Len(todo)]
      OBVIOUS
    <3>1. Len(Tail(todo)) \in Nat /\ Len(Tail(todo)) # 0
      BY <2>1, <2>2, LenProperties, EmptySeq
    <3>2. Len(Tail(todo)) \in 1..Len(Tail(todo)) /\ Len(Tail(todo)) + 1 = Len(todo)
      BY <1>a, <2>2, <3>1
    <3>. QED  BY <2>1, <2>2, <3>2
  <2>5. todo' = <<>> => pipe'[Len(pipe')] = todo[Len(todo)]
    BY <1>a, <2>1, <2>2, <2>3, EmptySeq
  <2>6. Len(buffer_') + Len(pipe') + Len(todo') = Len(buffer_) + Len(pipe) + Len(todo)
    <3>1. Len(buffer_) \in Nat
      BY LenProperties DEF TypeOK
    <3>. QED  BY <1>a, <2>1, <2>2, <2>3, <3>1
  <2>. QED  BY <2>1, <2>3, <2>4, <2>5, <2>6 DEF Awaited, ReachedEndOfOutput
<1>8. ASSUME NEW g \in Pids, Exits(g) \/ ChildBecomesZombie(g) PROVE Awaited'
  <2>1. UNCHANGED <<pc, cmd, buffer_, pipe, forks, reused>>
    BY <1>8 DEF Exits, ChildBecomesZombie
  <2>2. forks \in Pids /\ child'[forks] = "running" => child[forks] = "running" /\ UNCHANGED todo
    BY <1>8 DEF Exits, ChildBecomesZombie, TypeOK
  <2>3. pc = "read" /\ ~reused => forks \in Pids
    BY DEF Wiring, OpenInUse, OwnPipes
  <2>. QED  BY <2>1, <2>2, <2>3 DEF Awaited, ReachedEndOfOutput
<1>9. CASE SendCommand \/ StopTheWorld
  BY <1>9, NotReading DEF SendCommand, StopTheWorld
<1>10. ASSUME NEW f \in FD, HostOpens(f) \/ HostCloses(f) PROVE Awaited'
  <2>1. UNCHANGED <<pc, cmd, buffer_, pipe, todo, forks, child>> /\ (reused => reused')
    BY <1>10 DEF HostOpens, HostCloses, TypeOK
  <2>2. UNCHANGED <<ReachedEndOfOutput(buffer_), Size(cmd)>>
    BY <2>1, Zenon DEF ReachedEndOfOutput, EndsOutput, Size
  <2>. QED  BY <2>1, <2>2 DEF Awaited
<1>11. CASE UNCHANGED vars
  BY <1>11 DEF vars, Awaited, ReachedEndOfOutput
<1>12. CASE WriteForeign \/ ReadBadDescriptor \/ ReadForeign
  BY <1>12, ForeignIsReuse DEF Awaited
<1>. QED
  BY <1>1, <1>2, <1>3, <1>4, <1>5, <1>6, <1>7, <1>8, <1>9, <1>10, <1>11, <1>12
  DEF Next, Library, Signal, Foreign, Child, HostProgram, Done, ChildDies, ChildSeesEndOfInput

\* ReadFromSymbolizer never waits for output that will not come: even when a signal has
\* put replies out of step, the end of the current answer is the end of what is read.
THEOREM ReadsEnd == Spec => []NeverWaitsInVain
<1>. DEFINE Inv == TypeOK /\ Budget /\ Wiring /\ Awaited
<1>1. Init => Awaited
  BY DEF Init, Awaited
<1>2. TypeOK /\ Budget /\ Wiring /\ Awaited /\ [Next]_vars => Awaited'
  BY AwaitedStep
<1>3. Inv => NeverWaitsInVain
  <2>. SUFFICES ASSUME Inv, pc = "read", ~reused, pipe = <<>>, child[forks] = "running", todo = <<>>
                PROVE  FALSE
    BY DEF NeverWaitsInVain
  <2>1. cmd \in Command
    BY DEF TypeOK, Budget, Command, InCall
  <2>2. Len(buffer_) >= Size(cmd) /\ buffer_[Len(buffer_)] = <<cmd, Size(cmd)>>
    <3>1. Len(buffer_) \in Nat /\ Len(pipe) = 0 /\ Len(todo) = 0
      BY LenProperties, EmptySeq DEF TypeOK
    <3>2. /\ Len(buffer_) + Len(pipe) + Len(todo) >= Size(cmd)
          /\ buffer_[Len(buffer_)] = <<cmd, Size(cmd)>>
      BY DEF Awaited
    <3>. QED  BY <2>1, <3>1, <3>2, AnswerIsSequence
  <2>3. EndsOutput(buffer_[Len(buffer_)])
    BY <2>2 DEF EndsOutput, Size
  <2>4. Size(cmd) > IF Tool = "addr2line" THEN 1 ELSE 0
    BY Constants DEF Size
  <2>5. Len(buffer_) > IF Tool = "addr2line" THEN 1 ELSE 0
    <3>1. Len(buffer_) \in Nat /\ Size(cmd) \in Nat
      BY <2>1, LenProperties, AnswerIsSequence DEF TypeOK
    <3>. QED  BY <2>2, <2>4, <3>1
  <2>6. ReachedEndOfOutput(buffer_)
    BY <2>3, <2>5 DEF ReachedEndOfOutput
  <2>. QED  BY <2>6 DEF Awaited
<1>. QED  BY <1>1, <1>2, <1>3, Invariance, PTL DEF Spec

\* The measure that falls is bounded below: rounds are counted up to
\* kMaxTimesRestarted, and the two other parts are naturals.
LEMMA MeasureIsBounded ==
  ASSUME TypeOK
  PROVE  /\ times_restarted_ \in 0..kMaxTimesRestarted
         /\ pc \in InCall => StepsLeft[pc] \in Nat
         /\ Unread \in Nat
<1>1. Len(pipe) \in Nat /\ Len(todo) \in Nat
  BY LenProperties DEF TypeOK
<1>. QED  BY <1>1 DEF TypeOK, InCall, StepsLeft, Unread

\* Whatever fails, a call makes a bounded number of steps, and no child can undo one.
\* With ReadsEnd this leaves to fairness only that who can take a step does so.
THEOREM CallsAreBounded == Spec => CallMakesProgress
<1>. DEFINE Forward == {pc, pc'} \subseteq InCall => ComesNearer \/ StaysAsNear
<1>1. TypeOK /\ Budget /\ Wiring /\ [Next]_vars => [Forward]_vars
  <2>. SUFFICES ASSUME TypeOK, Budget, Wiring, [Next]_vars, pc \in InCall, pc' \in InCall
                PROVE  ComesNearer \/ StaysAsNear
    OBVIOUS
  <2>. USE DEF object, system
  <2>a. /\ pipe \in Seq(Piece) /\ Len(pipe) \in Nat
        /\ todo \in Seq(Piece) /\ Len(todo) \in Nat
        /\ times_restarted_ \in Nat
    BY LenProperties, Constants DEF TypeOK
  <2>b. ASSUME times_restarted_' = times_restarted_, StepsLeft[pc'] < StepsLeft[pc]
        PROVE  ComesNearer
    BY <2>b DEF ComesNearer
  <2>1. CASE GiveUp
    BY <2>1 DEF GiveUp, InCall
  <2>2. CASE SendNotStarted \/ Write \/ WriteBrokenPipe \/ WriteBadDescriptor \/ WriteForeign
             \/ WriteInterrupted
    BY <2>2, <2>b DEF SendNotStarted, Write, WriteBrokenPipe, WriteBadDescriptor, WriteForeign,
                      WriteInterrupted, FailsOrKills, MayTry, StepsLeft, InCall
  <2>3. ~ \E buf : FinishRead(buf)
    BY DEF FinishRead, InCall
  <2>4. CASE ReadSome
    <3>1. PICK n \in 1..Len(pipe) :
            /\ pipe' = SubSeq(pipe, n + 1, Len(pipe))
            /\ UNCHANGED <<pc, times_restarted_, todo>>
      BY <2>3, <2>4 DEF ReadSome
    <3>2. Len(pipe') = Len(pipe) - n /\ n \in Nat /\ n > 0
      BY <2>a, <3>1, Cut
    <3>3. Unread' < Unread
      BY <2>a, <3>1, <3>2 DEF Unread
    <3>. QED  BY <3>1, <3>3 DEF ComesNearer
  <2>5. ~ ReadEndOfFile /\ ~ ReadBadDescriptor /\ ~ ReadForeign /\ ~ ReadInterrupted
    BY <2>3 DEF ReadEndOfFile, ReadBadDescriptor, ReadForeign, ReadInterrupted
  <2>6. CASE RestartIsRunning \/ CloseFiles \/ StartForks
    BY <2>6, <2>b DEF RestartIsRunning, CloseFiles, StartForks, StepsLeft
  <2>7. CASE Kill \/ Sigkill
    BY <2>7, <2>b DEF Kill, Sigkill, KillFails, KillSucceeds, AfterKill, StepsLeft, InCall
  <2>8. CASE StartFails \/ StartupCheck
    BY <2>8, <2>a DEF StartFails, StartupCheck, RoundEnds, ComesNearer
  <2>9. CASE ChildWrites
    <3>1. Len(todo') = Len(todo) - 1 /\ Head(todo) \in Piece
      BY <2>9, <2>a, HeadTailProperties DEF ChildWrites
    <3>2. Len(pipe') = Len(pipe) + 1
      BY <2>9, <2>a, <3>1, AppendProperties DEF ChildWrites
    <3>3. Unread' = Unread
      BY <2>a, <3>1, <3>2 DEF Unread
    <3>. QED  BY <2>9, <2>a, <3>3 DEF ChildWrites, StaysAsNear, Unread
  <2>10. ASSUME NEW g \in Pids, Exits(g) \/ ChildBecomesZombie(g) PROVE StaysAsNear
    <3>1. UNCHANGED <<pc, stopping, cmd, ret, object>> /\ pipe' = pipe /\ todo' \in {todo, <<>>}
      BY <2>10 DEF Exits, ChildBecomesZombie
    <3>2. Unread' <= Unread
      BY <2>a, <3>1, EmptySeq DEF Unread
    <3>. QED  BY <3>1, <3>2 DEF StaysAsNear
  <2>11. ~ SendCommand /\ ~ StopTheWorld
    BY DEF SendCommand, StopTheWorld, InCall
  <2>12. ASSUME NEW f \in FD, HostOpens(f) \/ HostCloses(f) PROVE StaysAsNear
    BY <2>12, <2>a DEF HostOpens, HostCloses, StaysAsNear, Unread
  <2>13. CASE UNCHANGED vars
    BY <2>13, <2>a DEF vars, StaysAsNear, Unread
  <2>. QED
    BY <2>1, <2>2, <2>4, <2>5, <2>6, <2>7, <2>8, <2>9, <2>10, <2>11, <2>12, <2>13
    DEF Next, Library, Signal, Foreign, Child, HostProgram, Done, ChildDies, ChildSeesEndOfInput
<1>. QED  BY <1>1, Invariance, PTL DEF Spec, CallMakesProgress

=============================================================================
