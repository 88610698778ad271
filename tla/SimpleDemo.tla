----------------------------- MODULE SimpleDemo -----------------------------
(***************************************************************************)
(* The program that uses the interface: any program at all, or             *)
(* demo/simple_demo.c, which symbolizes every address of three sections    *)
(* with one tool and then with the other, and looks at no result code but  *)
(* that of init.                                                           *)
(*                                                                         *)
(* A definition whose name ends in _Slip is the definition that follows it *)
(* with a plausible slip in it; none is part of the specification.         *)
(***************************************************************************)
EXTENDS Session

CONSTANTS
  Programs,      \* which of "any" and "simple_demo" may be the host
  USE_PROG,      \* the binary the demo asks about
  Addresses      \* bound: addresses in a section

ASSUME ProgramAssumption == /\ Programs \subseteq {"any", "simple_demo"}
                            /\ USE_PROG \in Module /\ Addresses \in Nat \ {0}

VARIABLES
  program,
  tool, section, left,   \* the demo: number of the tool and section, addresses left in it
  step,                  \* the call it makes next
  N, j                   \* frames to read of this address, index of the next one

demo  == <<tool, section, left, step, N, j>>
dvars == <<svars, program, demo>>

UseTool  == <<"llvm-symbolizer", "addr2line">>
Sections == <<"addr", "data", "data">>   \* text, data and bss

DemoInit ==
  /\ SessionInit
  /\ program \in Programs
  /\ tool = 1 /\ section = 1 /\ left = Addresses /\ step = "init"
  /\ N = 0 /\ j = 1

Start ==
  /\ step = "init"
  /\ \E path \in {UseTool[tool], "not_executable"} : StartTool(path)
  /\ step' = IF call'.code = "yes_init_done" THEN "send" ELSE "exit"
  /\ section' = 1 /\ left' = Addresses
  /\ UNCHANGED <<tool, N, j>>

Code == Sections[section] = "addr"

\* N is not set to 0 for each address.
CodeSend_Slip ==
  /\ step = "send" /\ Code
  /\ SendAddr(USE_PROG)
  /\ N' = IF call'.code = "yes_send_done" THEN Len(pAddrInfoBuf'.frames) ELSE N
  /\ j' = 1
  /\ step' = IF N' > 0 THEN "read" ELSE "free"
  /\ UNCHANGED <<tool, section, left>>

CodeSend ==
  /\ step = "send" /\ Code
  /\ SendAddr(USE_PROG)
  /\ N' = IF call'.code = "yes_send_done" THEN Len(pAddrInfoBuf'.frames) ELSE 0
  /\ j' = 1
  /\ step' = IF N' > 0 THEN "read" ELSE "free"
  /\ UNCHANGED <<tool, section, left>>

CodeRead ==
  /\ step = "read" /\ Code
  /\ SanSymTool_addr_read(j) /\ Quiet
  /\ j' = j + 1
  /\ step' = IF j = N THEN "free" ELSE "read"
  /\ UNCHANGED <<tool, section, left, N>>

DataSend ==
  /\ step = "send" /\ ~Code
  /\ SendData(USE_PROG)
  /\ step' = "read"
  /\ UNCHANGED <<tool, section, left, N, j>>

DataRead ==
  /\ step = "read" /\ ~Code
  /\ SanSymTool_data_read /\ Quiet
  /\ step' = "free"
  /\ UNCHANGED <<tool, section, left, N, j>>

\* The next address, the next section, or the end of this tool.
NextAddress ==
  IF left > 1 THEN left' = left - 1 /\ step' = "send" /\ UNCHANGED section
  ELSE /\ left' = Addresses
       /\ IF section < Len(Sections) THEN section' = section + 1 /\ step' = "send"
                                     ELSE step' = "fini" /\ UNCHANGED section

Free ==
  /\ step = "free"
  /\ (IF Code THEN SanSymTool_addr_free ELSE SanSymTool_data_free) /\ Quiet
  /\ NextAddress
  /\ UNCHANGED <<tool, N, j>>

\* The first tool is not finished before the second is started.
Finish_Slip ==
  /\ step = "fini"
  /\ IF tool < Len(UseTool) THEN UNCHANGED svars ELSE FinishTool
  /\ IF tool < Len(UseTool) THEN tool' = tool + 1 /\ step' = "init"
                            ELSE step' = "exit" /\ UNCHANGED tool
  /\ UNCHANGED <<section, left, N, j>>

Finish ==
  /\ step = "fini"
  /\ FinishTool
  /\ IF tool < Len(UseTool) THEN tool' = tool + 1 /\ step' = "init"
                            ELSE step' = "exit" /\ UNCHANGED tool
  /\ UNCHANGED <<section, left, N, j>>

DemoDies == step = "send" /\ HostDies(Sections[section], USE_PROG) /\ UNCHANGED demo

Demo == Start \/ CodeSend \/ CodeRead \/ DataSend \/ DataRead \/ Free \/ Finish \/ DemoDies

DemoNext ==
  \/ program = "any" /\ SessionNext /\ UNCHANGED <<program, demo>>
  \/ program = "simple_demo" /\ Alive /\ Demo /\ UNCHANGED program
  \/ program = "simple_demo" /\ (~Alive \/ step = "exit") /\ UNCHANGED dvars

DemoSpec == DemoInit /\ [][DemoNext]_dvars

-----------------------------------------------------------------------------
(* Properties                                                              *)

\* Although it looks at no result code of a request, the demo frees results before
\* the next request and finishes one tool before it starts the other: what holds
\* of a careful caller holds of it.
DemoIsCareful == program = "simple_demo" => careful

\* Every frame the demo reads exists and belongs to the address it prints it for,
\* although after a failed request it goes by an N that the library did not set.
DemoReadsOwnFrames ==
  program = "simple_demo" /\ step = "read" /\ Code =>
    /\ j \in DOMAIN pAddrInfoBuf.frames
    /\ pAddrInfoBuf.frames[j].of = latest["addr"]

\* When the demo exits by itself, all memory is given back and no process is left.
DemoEndsClean == program = "simple_demo" /\ step = "exit" => heap = {} /\ procs = {}

\* "If you call it [...] after a failed SanSymTool_data_send call [...] dirty data
\* will be got. Please don't do this." (sanitizer_symbolizer_tool.h:123-125): what
\* the demo prints for an address is not what was found for an earlier one.
DemoReadsNoDirtyData ==
  program = "simple_demo" /\ call.fn = "data_read" => pDataInfoBuf.of = latest["data"]

=============================================================================
