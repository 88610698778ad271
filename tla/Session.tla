------------------------------- MODULE Session -------------------------------
(***************************************************************************)
(* The interface together with the tool behind it: LLVMSymbolizer with its *)
(* one SymbolizerProcess, or Addr2LinePool with one per module, and the    *)
(* parser that turns a reply into frames.                                  *)
(*                                                                         *)
(* A request is one step.  Inside it a process behaves as CommandChannel   *)
(* allows while no signal interrupts a read and no other thread of the     *)
(* host takes a number the process has closed: it replies with a beginning *)
(* of the answer to this very command, or gives up for good, or takes the  *)
(* host down (addr2line's CHECK).  The pool changes as ProcessSet says.    *)
(* Of a reply cut inside a frame the parser makes a frame whose file is    *)
(* not set (ParseOutput: an empty line leaves it as it is).                *)
(*                                                                         *)
(* A definition whose name ends in _Slip is the definition that follows it *)
(* with a plausible slip in it; none is part of the specification.         *)
(***************************************************************************)
EXTENDS Interface, FiniteSets

CONSTANTS
  Module,          \* the binaries that addresses are asked of
  CommandLength,   \* CommandLength[m]: characters in LLVMSymbolizer's command for m
  kBufferSize,     \* use_llvm_symbolizer.h:58 (16384 in the code)
  POOLMAX,         \* SANSYMTOOL_ADDR2LINE_POOLMAX
  Leftover,        \* bound: blocks that a file which is not set may lead to
  MaxFrames,       \* bound: frames in one reply
  MaxCalls         \* bound: calls of init and send that succeed

ASSUME ModuleAssumption == CommandLength \in [Module -> Nat]
ASSUME LimitAssumption  == kBufferSize \in Nat \ {0} /\ POOLMAX \in Nat \ {0}
ASSUME BoundAssumption  == Leftover \subseteq Nat /\ MaxFrames \in Nat /\ MaxCalls \in Nat

VARIABLES
  procs,    \* SymbolizerProcess objects that exist: [tool, module, failed]
  sent,     \* the latest command of LLVMSymbolizer: its length, and how much of it was sent
  latest,   \* latest[kind]: the latest request of that kind, 0 if it failed
  unset     \* a frame was made whose file is not set

behind == <<procs, sent, latest, unset>>
svars  == <<vars, behind>>

All == "any_module"
Process(tool, module) == [tool |-> tool, module |-> module, failed |-> FALSE]
NoRequest == [kind \in {"addr", "data"} |-> 0]
NoCommand == [length |-> 0, sent |-> 0]

SessionInit ==
  /\ Init
  /\ procs = {} /\ sent = NoCommand /\ unset = FALSE
  /\ latest = NoRequest

-----------------------------------------------------------------------------
(* The tool                                                                *)

\* The processes of the tool in use; those of a tool that init replaced are not.
Mine   == {p \in procs : p.tool = pSanSymTool}
Key(m) == IF RunningThisTool = "llvm-symbolizer" THEN All ELSE m

\* The processes once the one for m is there: the pool is flushed when it is full.
WithProcess(m) ==
  IF \E p \in Mine : p.module = Key(m) THEN procs
  ELSE (IF Cardinality(Mine) >= POOLMAX THEN procs \ Mine ELSE procs) \cup {Process(pSanSymTool, Key(m))}

\* snprintf writes what fits, with a null character at the end.
Formatted(m) == [length |-> CommandLength[m],
                 sent |-> IF CommandLength[m] < kBufferSize THEN CommandLength[m] ELSE kBufferSize - 1]

Fits_Slip(m) == RunningThisTool = "addr2line" \/ CommandLength[m] <= kBufferSize

\* FormatAndSendCommand of LLVMSymbolizer; the two numbers sent to addr2line always fit.
Fits(m) == RunningThisTool = "addr2line" \/ CommandLength[m] < kBufferSize

\* SendCommand returns nullptr, now and from then on.
GivesUp(m) ==
  \E p \in WithProcess(m) :
    /\ p.tool = pSanSymTool /\ p.module = Key(m)
    /\ procs' = (WithProcess(m) \ {p}) \cup {[p EXCEPT !.failed = TRUE]}

Replies(m) == procs' = WithProcess(m) /\ Process(pSanSymTool, Key(m)) \in procs'

\* The latest request of this kind got no answer.
NoAnswer(kind) == latest' = [latest EXCEPT ![kind] = 0] /\ UNCHANGED unset

\* SymbolizeAddr and SymbolizeData up to SendCommand of the process.
Reaches(kind, m) == /\ Initialized
                    /\ RunningThisTool = "addr2line" => kind = "addr"
                    /\ Fits(m)

Refused(kind, m) ==
  /\ sent' = NoCommand /\ NoAnswer(kind)
  /\ IF Reaches(kind, m) THEN GivesUp(m) ELSE UNCHANGED procs

Answered(kind, m) ==
  /\ Reaches(kind, m) /\ Replies(m)
  /\ sent' = IF RunningThisTool = "addr2line" THEN NoCommand ELSE Formatted(m)
  /\ latest' = [latest EXCEPT ![kind] = calls + 1]

-----------------------------------------------------------------------------
(* The calls of the interface                                              *)

Quiet == UNCHANGED behind

StartTool(path) ==
  /\ SanSymTool_init(path)
  /\ procs' = IF path = "llvm-symbolizer" THEN procs \cup {Process(pSanSymTool', All)} ELSE procs
  /\ latest' = IF path \in Tools THEN NoRequest ELSE latest
  /\ UNCHANGED <<sent, unset>>

FinishTool ==
  /\ SanSymTool_fini
  /\ procs' = procs \ Mine /\ latest' = NoRequest
  /\ UNCHANGED <<sent, unset>>

\* What the stack slot of ThisFrame.file may hold: nothing, what is no block at all, or
\* any block: a live one of either kind, one that was freed, or, since malloc hands out
\* an address again, one that has yet to be allocated.
Wild    == -1
Garbage == {nullptr, Wild} \cup Leftover

\* The last frame without a file.
Cut(frames) == [frames EXCEPT ![Len(frames)].file = nullptr]

\* Its file was not set.  When what it leads to reads "??" it is freed at once.
FileUnset(frames, file) ==
  \/ AddrSendSucceeds([frames EXCEPT ![Len(frames)].file = file], Strings(Cut(frames)), {})
  \/ file # nullptr /\ AddrSendSucceeds(Cut(frames), Strings(Cut(frames)), {file})

SendAddr(m) ==
  /\ Asks("addr")
  /\ \/ SendFails("addr_send") /\ Refused("addr", m)
     \/ \E count \in 0..MaxFrames, known \in SUBSET {"func", "file"} :
          LET frames == NewFrames(count, known) IN
          /\ Answered("addr", m)
          /\ \/ AddrSendSucceeds(frames, Strings(frames), {}) /\ UNCHANGED unset
             \/ count > 0 /\ (\E file \in Garbage : FileUnset(frames, file)) /\ unset' = TRUE

SendData(m) ==
  /\ Asks("data")
  /\ \/ SendFails("data_send") /\ Refused("data", m)
     \/ DataSendSucceeds /\ Answered("data", m) /\ UNCHANGED unset

\* addr2line's CHECK, SIGPIPE, or a file name that is no pointer.
HostDies(kind, m) ==
  /\ Reaches(kind, m)
  /\ call' = Call("host", "dead")
  /\ UNCHANGED <<globals, heap, brk, badfree, held, owed, careful, calls, behind>>

Alive == call.fn # "host"

AnyCall ==
  \/ \E path \in Paths : StartTool(path)
  \/ FinishTool
  \/ \E m \in Module : SendAddr(m) \/ SendData(m) \/ HostDies("addr", m)
  \/ (\E idx \in 1..Len(pAddrInfoBuf.frames) : SanSymTool_addr_read(idx)) /\ Quiet
  \/ (AddrReadFails \/ SanSymTool_addr_free \/ SanSymTool_data_read \/ SanSymTool_data_free) /\ Quiet

Over == ~Alive /\ UNCHANGED svars

SessionNext == (Alive /\ calls' \in calls .. MaxCalls /\ AnyCall) \/ Over

SessionSpec == SessionInit /\ [][SessionNext]_svars

-----------------------------------------------------------------------------
(* Properties                                                              *)

\* The globals come and go together: with a tool there are both buffers, without
\* one there is neither, whatever the order of calls, so the null checks of each
\* function agree.
GlobalsAgree ==
  /\ Initialized <=> pDataInfoBuf.self # nullptr
  /\ Initialized <=> pAddrInfoBuf.self # nullptr
  /\ Initialized <=> RunningThisTool # "nothing"

\* Results are freed by the library (sanitizer_symbolizer_tool.h:86-105): nothing is
\* freed twice, and nothing that was not allocated.
NoBadFree == ~badfree

\* As long as every frame came with its file, nothing is freed twice in any order
\* of calls of init, send, free and fini, and every pointer the buffers lead to is
\* allocated and has one owner: what a read returns is never dangling.
MemoryIsSound ==
  ~unset =>
    /\ NoBadFree
    /\ {pSanSymTool, pDataInfoBuf.self, pAddrInfoBuf.self} \cup DataBlocks \cup AddrBlocks
         \subseteq heap \cup {nullptr}
    /\ Unshared

\* As long as every frame came with its file, a string the caller has read stays
\* allocated until the caller itself calls the free function of its kind, or fini: no
\* request, no init and no free of the other kind pulls it away.
HeldUntilFreed ==
  [][~unset' => \A p \in held : p \in held' /\ p.block \in heap => p.block \in heap']_svars

\* When a caller who frees results before the next request, and finishes before
\* starting again, calls fini, all memory is given back and no process is left
\* whose child nobody could tell to leave.
FiniReleasesAll == careful /\ call.fn = "fini" => heap = {} /\ procs = {}

\* Such a caller reads frames of the latest request only, and none at all if that
\* request failed, be it that the process gave up or that the command was too long.
FramesAnswerLatest ==
  careful => \A k \in DOMAIN pAddrInfoBuf.frames : pAddrInfoBuf.frames[k].of = latest["addr"]

\* Every command that reaches a process is complete: without its newline no
\* symbolizer would answer it, and the call would block for ever.
CommandsAreWhole == sent.sent = sent.length

\* Every process object belongs to the tool in use, unless the caller started a
\* tool without finishing the one before.
ProcessesAreOwned == careful => procs = Mine

=============================================================================
