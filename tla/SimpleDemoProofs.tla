-------------------------- MODULE SimpleDemoProofs --------------------------
(***************************************************************************)
(* What holds of demo/simple_demo.c, for any number of addresses and       *)
(* whatever the tools answer: it is a caller as the interface expects it.  *)
(***************************************************************************)
EXTENDS SimpleDemo, SessionProofs

ControlType ==
  /\ tool \in 1..2 /\ section \in 1..3
  /\ step \in {"init", "send", "read", "free", "fini", "exit"}

\* What the demo owes is what it is about to read and to free.
Due ==
  /\ step \in {"init", "exit"} => owed = {} /\ heap = {} /\ procs = {}
  /\ step \in {"send", "fini"} => owed \subseteq {"tool"}
  /\ step \in {"read", "free"} => owed \subseteq {"tool", Sections[section]}

\* The frames it goes through are there.
Reading == step = "read" /\ Code => N = Len(pAddrInfoBuf.frames) /\ j \in 1..N

DemoControl == careful /\ ControlType /\ Due /\ Reading

DemoInv == SessionInv /\ (program = "simple_demo" => DemoControl)

LEMMA SectionsAre == section \in 1..3 => Sections[section] \in {"addr", "data"} /\ Len(Sections) = 3
BY DEF Sections

LEMMA DemoInvInit == DemoInit => DemoInv
<1>1. DemoInit => SessionInv
  BY SessionInvInit DEF DemoInit
<1>2. DemoInit => DemoControl
  BY DEF DemoInit, SessionInit, Init, DemoControl, ControlType, Due, Reading
<1>. QED  BY <1>1, <1>2 DEF DemoInv

\* The demo calls nothing that any program could not call.
LEMMA DemoCalls == ControlType /\ Demo => AnyCall
<1>. SUFFICES ASSUME ControlType, Demo PROVE AnyCall
  OBVIOUS
<1>1. USE_PROG \in Module
  BY ProgramAssumption
<1>2. CASE Start
  <2>1. UseTool[tool] \in Paths /\ "not_executable" \in Paths
    BY DEF ControlType, UseTool, Paths, Tools
  <2>. QED  BY <1>2, <2>1 DEF Start, AnyCall
<1>3. CASE CodeSend
  BY <1>1, <1>3 DEF CodeSend, AnyCall
<1>4. CASE DataSend
  BY <1>1, <1>4 DEF DataSend, AnyCall
<1>5. CASE CodeRead
  BY <1>5 DEF CodeRead, AnyCall, SanSymTool_addr_read
<1>6. CASE DataRead
  BY <1>6 DEF DataRead, AnyCall
<1>7. CASE Free
  BY <1>7 DEF Free, AnyCall
<1>8. CASE Finish
  BY <1>8 DEF Finish, AnyCall
<1>9. CASE DemoDies
  <2>1. HostDies(Sections[section], USE_PROG)
    BY <1>9 DEF DemoDies
  <2>2. HostDies("addr", USE_PROG)
    BY <2>1, SectionsAre DEF HostDies, Reaches, ControlType
  <2>. QED  BY <1>1, <2>2 DEF AnyCall
<1>. QED  BY <1>2, <1>3, <1>4, <1>5, <1>6, <1>7, <1>8, <1>9 DEF Demo

\* It asks only for what it does not owe.
LEMMA AskedWhenClear == ASSUME NEW what, Asks(what), careful, what \notin owed PROVE careful'
BY Zenon DEF Asks

LEMMA DemoStep == SessionInv /\ SessionInv' /\ DemoControl /\ Demo => DemoControl'
<1>. SUFFICES ASSUME SessionInv, SessionInv', DemoControl, Demo PROVE DemoControl'
  OBVIOUS
<1>. USE DEF DemoControl, ControlType
<1>a. Sections[section] \in {"addr", "data"} /\ Len(Sections) = 3
  BY SectionsAre
<1>1. CASE Start
  <2>1. PICK path \in {UseTool[tool], "not_executable"} : StartTool(path)
    BY <1>1 DEF Start
  <2>2. /\ step = "init" /\ owed = {} /\ heap = {} /\ procs = {} /\ UNCHANGED tool
        /\ section' = 1
        /\ step' = IF call'.code = "yes_init_done" THEN "send" ELSE "exit"
    BY <1>1 DEF Start, Due
  <2>3. careful'
    BY <2>1, <2>2, AskedWhenClear DEF StartTool, SanSymTool_init
  <2>4. CASE InitFails(path)
    <3>1. UNCHANGED <<heap, owed>> /\ call'.code # "yes_init_done" /\ path \notin Tools
      BY <2>4 DEF InitFails, Call, Tools
    <3>2. UNCHANGED procs
      BY <2>1, <3>1 DEF StartTool, Tools
    <3>. QED  BY <2>2, <2>3, <3>1, <3>2 DEF Due, Reading
  <2>5. CASE InitSucceeds(path)
    <3>1. owed' = owed \cup {"tool"} /\ call'.code = "yes_init_done"
      BY <2>5 DEF InitSucceeds, Call
    <3>. QED  BY <2>2, <2>3, <3>1 DEF Due, Reading
  <2>. QED  BY <2>1, <2>4, <2>5 DEF StartTool, SanSymTool_init
<1>2. CASE CodeSend
  <2>1. /\ step = "send" /\ Sections[section] = "addr" /\ owed \subseteq {"tool"}
        /\ UNCHANGED <<tool, section>> /\ SendAddr(USE_PROG)
        /\ N' = (IF call'.code = "yes_send_done" THEN Len(pAddrInfoBuf'.frames) ELSE 0)
        /\ j' = 1 /\ step' = IF N' > 0 THEN "read" ELSE "free"
    BY <1>2 DEF CodeSend, Code, Due
  <2>2. careful'
    BY <2>1, AskedWhenClear DEF SendAddr
  <2>3. owed' \subseteq {"tool", "addr"}
    <3>1. SendFails("addr_send") => owed' = owed
      BY DEF SendFails
    <3>2. \A fs, new, freed : AddrSendSucceeds(fs, new, freed) => owed' = owed \cup {"addr"}
      BY DEF AddrSendSucceeds
    <3>. QED  BY <2>1, <3>1, <3>2 DEF SendAddr, FileUnset
  <2>4. Len(pAddrInfoBuf'.frames) \in Nat
    BY DEF SessionInv, Typed
  <2>5. step' = "read" => N' = Len(pAddrInfoBuf'.frames) /\ j' \in 1..N'
    BY <2>1, <2>4
  <2>. QED  BY <2>1, <2>2, <2>3, <2>5 DEF Due, Reading
<1>3. CASE CodeRead
  <2>1. /\ step = "read" /\ Code /\ j \in 1..N /\ N = Len(pAddrInfoBuf.frames)
        /\ UNCHANGED <<tool, section, N, careful, owed, pAddrInfoBuf>>
        /\ owed \subseteq {"tool", Sections[section]}
        /\ j' = j + 1 /\ step' = IF j = N THEN "free" ELSE "read"
    BY <1>3 DEF CodeRead, SanSymTool_addr_read, globals, Due, Reading
  <2>2. N \in Nat
    BY <2>1 DEF SessionInv, Typed
  <2>. QED  BY <2>1, <2>2 DEF Due, Reading
<1>4. CASE DataSend
  <2>1. /\ step = "send" /\ Sections[section] = "data" /\ owed \subseteq {"tool"}
        /\ UNCHANGED <<tool, section>> /\ SendData(USE_PROG) /\ step' = "read"
    BY <1>4, <1>a DEF DataSend, Code, Due
  <2>2. careful'
    BY <2>1, AskedWhenClear DEF SendData
  <2>3. owed' \subseteq {"tool", "data"}
    BY <2>1 DEF SendData, SendFails, DataSendSucceeds
  <2>. QED  BY <2>1, <2>2, <2>3 DEF Due, Reading, Code
<1>5. CASE DataRead
  BY <1>5 DEF DataRead, SanSymTool_data_read, Due, Reading
<1>6. CASE Free
  <2>1. /\ step = "free" /\ UNCHANGED <<tool, careful>>
        /\ owed \subseteq {"tool", Sections[section]} /\ owed' = owed \ {Sections[section]}
    BY <1>6, <1>a DEF Free, Code, SanSymTool_addr_free, SanSymTool_data_free, Due
  <2>2. section' \in 1..3 /\ step' \in {"send", "fini"}
    BY <1>6, <1>a DEF Free, NextAddress
  <2>. QED  BY <2>1, <2>2 DEF Due, Reading
<1>7. CASE Finish
  <2>1. FinishTool /\ UNCHANGED section
        /\ IF tool < 2 THEN tool' = tool + 1 /\ step' = "init" ELSE step' = "exit" /\ UNCHANGED tool
    BY <1>7 DEF Finish, UseTool
  <2>2. owed' = {} /\ careful' = careful /\ call'.fn = "fini"
    BY <2>1 DEF FinishTool, SanSymTool_fini, Call
  <2>3. heap' = {} /\ procs' = {}
    BY <2>2 DEF SessionInv, Answers, FiniReleasesAll
  <2>4. tool' \in 1..2 /\ step' \in {"init", "exit"}
    BY <2>1
  <2>. QED  BY <2>1, <2>2, <2>3, <2>4 DEF Due, Reading
<1>8. CASE DemoDies
  BY <1>8 DEF DemoDies, HostDies, demo, globals, behind, Due, Reading, Code
<1>. QED  BY <1>1, <1>2, <1>3, <1>4, <1>5, <1>6, <1>7, <1>8 DEF Demo

LEMMA DemoInvHolds == DemoSpec => []DemoInv
<1>1. ASSUME DemoInv, [DemoNext]_dvars PROVE DemoInv'
  <2>1. CASE program = "any" /\ SessionNext /\ UNCHANGED <<program, demo>>
    <3>1. SessionInv'
      BY <1>1, <2>1, SessionInvStep DEF DemoInv, SessionNext, Over, AnyStep
    <3>. QED  BY <2>1, <3>1 DEF DemoInv
  <2>2. CASE program = "simple_demo" /\ Demo /\ UNCHANGED program
    <3>1. SessionInv'
      BY <1>1, <2>2, DemoCalls, SessionInvStep DEF DemoInv, DemoControl, AnyStep
    <3>. QED  BY <1>1, <2>2, <3>1, DemoStep DEF DemoInv
  <2>3. CASE UNCHANGED dvars
    <3>1. SessionInv'
      BY <1>1, <2>3, SessionInvStep DEF DemoInv, dvars, AnyStep
    <3>2. UNCHANGED <<program, tool, section, step, N, j, careful, owed, heap, procs, pAddrInfoBuf>>
      BY <2>3 DEF dvars, svars, vars, globals, behind, demo
    <3>. QED
      BY <1>1, <3>1, <3>2 DEF DemoInv, DemoControl, ControlType, Due, Reading, Code
  <2>. QED  BY <1>1, <2>1, <2>2, <2>3 DEF DemoNext
<1>. QED  BY <1>1, DemoInvInit, PTL DEF DemoSpec

-----------------------------------------------------------------------------
(* The theorems                                                            *)

\* The demo gives back each result before it asks for the next, and each tool
\* before it starts another.
THEOREM DemoStaysCareful == DemoSpec => []DemoIsCareful
<1>1. DemoInv => DemoIsCareful
  BY DEF DemoInv, DemoControl, DemoIsCareful
<1>. QED  BY <1>1, DemoInvHolds, PTL

\* Every frame it reads is there, and is of the address it asked about.
THEOREM DemoReadsItsFrames == DemoSpec => []DemoReadsOwnFrames
<1>1. DemoInv => DemoReadsOwnFrames
  <2>. SUFFICES ASSUME DemoInv, program = "simple_demo", step = "read", Code
                PROVE  j \in DOMAIN pAddrInfoBuf.frames /\ pAddrInfoBuf.frames[j].of = latest["addr"]
    BY DEF DemoReadsOwnFrames
  <2>1. j \in 1..Len(pAddrInfoBuf.frames) /\ careful
    BY DEF DemoInv, DemoControl, Reading
  <2>2. DOMAIN pAddrInfoBuf.frames = 1..Len(pAddrInfoBuf.frames)
    BY DEF DemoInv, SessionInv, Typed
  <2>3. FramesAnswerLatest
    BY DEF DemoInv, SessionInv, Answers
  <2>. QED  BY <2>1, <2>2, <2>3 DEF FramesAnswerLatest
<1>. QED  BY <1>1, DemoInvHolds, PTL

\* When it exits by itself all memory is given back and no process is left.
THEOREM DemoLeavesNothing == DemoSpec => []DemoEndsClean
<1>1. DemoInv => DemoEndsClean
  BY DEF DemoInv, DemoControl, Due, DemoEndsClean
<1>. QED  BY <1>1, DemoInvHolds, PTL

\* Whatever program is the host, the interface keeps its promises.
THEOREM InterfaceServesAnyProgram ==
  DemoSpec => [](GlobalsAgree /\ MemoryIsSound /\ CommandsAreWhole)
<1>1. DemoInv => GlobalsAgree /\ CommandsAreWhole
  BY DEF DemoInv, SessionInv, Globals, Answers
<1>2. DemoInv => MemoryIsSound
  BY SoundMemoryIsMeant DEF DemoInv
<1>. QED  BY <1>1, <1>2, DemoInvHolds, PTL

=============================================================================
