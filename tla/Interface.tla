------------------------------ MODULE Interface ------------------------------
(***************************************************************************)
(* The C interface (lib/interface.cpp): the global tool and result         *)
(* buffers, the memory behind them, and the pointers handed to the caller. *)
(* The functions may be called in any order, as C lets a caller do;        *)
(* `careful' tells whether the caller has followed the header's advice.    *)
(*                                                                         *)
(* The functions are actions here; what the tool behind them does with a   *)
(* request, and who calls them, is module Session.  Memory is a set of     *)
(* live blocks; a block is the number of its allocation.                   *)
(*                                                                         *)
(* A definition whose name ends in _Slip is the definition that follows it *)
(* with a plausible slip in it; none is part of the specification.         *)
(***************************************************************************)
EXTENDS Integers, Sequences

VARIABLES
  RunningThisTool, pSanSymTool, pDataInfoBuf, pAddrInfoBuf,  \* the globals
  heap,      \* blocks that are allocated
  brk,       \* allocations so far
  badfree,   \* free() or delete of a block that is not allocated
  held,      \* results the caller has read and may still use: [block, of]
  call,      \* the latest call and what it returned
  owed,      \* what the caller has yet to give back: "tool", "addr", "data"
  careful,   \* it has always given back the one before it asked for another
  calls      \* calls of init and send that succeeded so far

globals == <<RunningThisTool, pSanSymTool, pDataInfoBuf, pAddrInfoBuf>>
vars    == <<globals, heap, brk, badfree, held, call, owed, careful, calls>>

nullptr == 0
Tools   == {"llvm-symbolizer", "addr2line"}

\* What the path given to init leads to.
Paths == Tools \cup {"not_executable", "other_program"}

Call(fn, code) == [fn |-> fn, code |-> code]
Initialized    == pSanSymTool # nullptr

\* A zeroed DataInfo and an AddrInfo without frames.
NewData(b) == [self |-> b, file |-> nullptr, name |-> nullptr, of |-> 0]
NewAddr(b) == [self |-> b, frames |-> <<>>]
NoData     == NewData(nullptr)
NoAddr     == NewAddr(nullptr)

Init ==
  /\ RunningThisTool = "nothing" /\ pSanSymTool = nullptr
  /\ pDataInfoBuf = NoData /\ pAddrInfoBuf = NoAddr
  /\ heap = {} /\ brk = 0 /\ badfree = FALSE
  /\ held = {} /\ call = Call("none", "none")
  /\ owed = {} /\ careful = TRUE /\ calls = 0

\* The caller asks for something it will have to give back.
Asks(what) == careful' = (careful /\ what \notin owed)

\* free() of the blocks in bs, each of them once.
Release(bs, once) ==
  /\ heap' = heap \ bs
  /\ badfree' = (badfree \/ ~once \/ ~(bs \ {nullptr} \subseteq heap))

-----------------------------------------------------------------------------
(* SanSymTool_init                                                         *)

InitFails(path) ==
  /\ path \in {"not_executable", "other_program"}
  /\ call' = Call("init", IF path = "other_program" THEN "err_unsupported_tool"
                                                      ELSE "err_path_not_executable")
  /\ UNCHANGED <<globals, heap, brk, badfree, held, owed, calls>>

InitSucceeds(path) ==
  /\ path \in Tools
  /\ calls' = calls + 1
  /\ RunningThisTool' = path
  /\ pSanSymTool' = brk + 1
  /\ pDataInfoBuf' = NewData(brk + 2)
  /\ pAddrInfoBuf' = NewAddr(brk + 3)
  /\ heap' = heap \cup {brk + 1, brk + 2, brk + 3} /\ brk' = brk + 3
  /\ call' = Call("init", "yes_init_done")
  /\ owed' = owed \cup {"tool"}
  /\ UNCHANGED <<badfree, held>>

SanSymTool_init(path) ==
  /\ Asks("tool")
  /\ InitFails(path) \/ InitSucceeds(path)

-----------------------------------------------------------------------------
(* SanSymTool_data_free, SanSymTool_addr_free, SanSymTool_fini             *)

DataBlocks == {pDataInfoBuf.file, pDataInfoBuf.name} \ {nullptr}

\* The pointers in the frames, by their place.
AddrBlock(at) == pAddrInfoBuf.frames[at[1]][at[2]]
AddrPointers  == {at \in (DOMAIN pAddrInfoBuf.frames) \X {"func", "file"} : AddrBlock(at) # nullptr}

AddrBlocks_Slip == {pAddrInfoBuf.frames[k].func : k \in DOMAIN pAddrInfoBuf.frames} \ {nullptr}
AddrBlocks == {AddrBlock(at) : at \in AddrPointers}

\* No two frames share a string, and none is in both buffers.
Unshared == /\ \A at, other \in AddrPointers : AddrBlock(at) = AddrBlock(other) => at = other
            /\ DataBlocks \cap AddrBlocks = {}

\* The pointers stay in the buffer.
SanSymTool_data_free_Slip ==
  /\ Release(DataBlocks, TRUE)
  /\ held' = {p \in held : p.of # "data"}
  /\ call' = Call("data_free", "none")
  /\ owed' = owed \ {"data"}
  /\ UNCHANGED <<globals, brk, careful, calls>>

SanSymTool_data_free ==
  /\ Release(DataBlocks, TRUE)
  /\ pDataInfoBuf' = [pDataInfoBuf EXCEPT !.file = nullptr, !.name = nullptr]
  /\ held' = {p \in held : p.of # "data"}
  /\ call' = Call("data_free", "none")
  /\ owed' = owed \ {"data"}
  /\ UNCHANGED <<RunningThisTool, pSanSymTool, pAddrInfoBuf, brk, careful, calls>>

\* The frames stay in the vector.
SanSymTool_addr_free_Slip ==
  /\ Release(AddrBlocks, Unshared)
  /\ held' = {p \in held : p.of # "addr"}
  /\ call' = Call("addr_free", "none")
  /\ owed' = owed \ {"addr"}
  /\ UNCHANGED <<globals, brk, careful, calls>>

SanSymTool_addr_free ==
  /\ Release(AddrBlocks, Unshared)
  /\ pAddrInfoBuf' = [pAddrInfoBuf EXCEPT !.frames = <<>>]
  /\ held' = {p \in held : p.of # "addr"}
  /\ call' = Call("addr_free", "none")
  /\ owed' = owed \ {"addr"}
  /\ UNCHANGED <<RunningThisTool, pSanSymTool, pDataInfoBuf, brk, careful, calls>>

\* The address buffer is kept for the next init.
SanSymTool_fini_Slip ==
  /\ Release({pSanSymTool, pDataInfoBuf.self} \cup DataBlocks \cup AddrBlocks, Unshared)
  /\ RunningThisTool' = "nothing" /\ pSanSymTool' = nullptr
  /\ pDataInfoBuf' = NoData /\ pAddrInfoBuf' = [pAddrInfoBuf EXCEPT !.frames = <<>>]
  /\ held' = {} /\ owed' = {}
  /\ call' = Call("fini", "none")
  /\ UNCHANGED <<brk, careful, calls>>

SanSymTool_fini ==
  /\ Release({pSanSymTool, pDataInfoBuf.self, pAddrInfoBuf.self} \cup DataBlocks \cup AddrBlocks, Unshared)
  /\ RunningThisTool' = "nothing" /\ pSanSymTool' = nullptr
  /\ pDataInfoBuf' = NoData /\ pAddrInfoBuf' = NoAddr
  /\ held' = {} /\ owed' = {}
  /\ call' = Call("fini", "none")
  /\ UNCHANGED <<brk, careful, calls>>

-----------------------------------------------------------------------------
(* Sending a request for an address, and reading its frames                *)

\* A request is refused before init, and fails when the tool has no answer.
SendFails(fn) ==
  /\ call' = Call(fn, IF Initialized THEN "err_symbolize_failed" ELSE "err_has_nullptr")
  /\ UNCHANGED <<globals, heap, brk, badfree, held, owed, calls>>

\* The k-th frame of the answer to request n; what is not known ("??") is null.
Frame(n, k, b, known) == [of   |-> n,
                          func |-> IF "func" \in known THEN b + 2 * k - 1 ELSE nullptr,
                          file |-> IF "file" \in known THEN b + 2 * k ELSE nullptr]
NewFrames(count, known) == [k \in 1..count |-> Frame(calls + 1, k, brk, known)]

\* The blocks of the strings in the frames.
Strings(frames) == {b \in brk + 1 .. brk + 2 * Len(frames) :
                      \E k \in DOMAIN frames : b \in {frames[k].func, frames[k].file}}

\* ParseSymbolizeAddrOutput appends frames to the vector; it has allocated the blocks in
\* new, and freed those in freed because they read "??".
AddrSendSucceeds(frames, new, freed) ==
  /\ Initialized
  /\ calls' = calls + 1
  /\ pAddrInfoBuf' = [pAddrInfoBuf EXCEPT !.frames = @ \o frames]
  /\ heap' = (heap \cup new) \ freed
  /\ badfree' = (badfree \/ ~(freed \subseteq heap \cup new))
  /\ brk' = brk + 2 * Len(frames)
  /\ call' = Call("addr_send", "yes_send_done")
  /\ owed' = owed \cup {"addr"}
  /\ UNCHANGED <<RunningThisTool, pSanSymTool, pDataInfoBuf, held>>

SanSymTool_addr_read(idx) ==
  /\ idx \in 1..Len(pAddrInfoBuf.frames)
  /\ held' = held \cup {[block |-> b, of |-> "addr"] :
                          b \in {pAddrInfoBuf.frames[idx].func, pAddrInfoBuf.frames[idx].file} \ {nullptr}}
  /\ call' = Call("addr_read", "yes_read_done")
  /\ UNCHANGED <<globals, heap, brk, badfree, owed, careful, calls>>

\* No buffer, or no such frame.
AddrReadFails ==
  /\ call' = Call("addr_read", IF pAddrInfoBuf.self = nullptr THEN "err_has_nullptr" ELSE "err_outofbound")
  /\ UNCHANGED <<globals, heap, brk, badfree, held, owed, careful, calls>>

-----------------------------------------------------------------------------
(* Sending a request for data, and reading them                            *)

\* The strings of an earlier request are freed first.
DataSendSucceeds_Slip ==
  /\ Initialized /\ RunningThisTool = "llvm-symbolizer"
  /\ calls' = calls + 1
  /\ pDataInfoBuf' = [pDataInfoBuf EXCEPT !.name = brk + 1, !.file = brk + 2, !.of = calls + 1]
  /\ heap' = (heap \ DataBlocks) \cup {brk + 1, brk + 2} /\ brk' = brk + 2
  /\ call' = Call("data_send", "yes_send_done")
  /\ owed' = owed \cup {"data"}
  /\ UNCHANGED <<RunningThisTool, pSanSymTool, pAddrInfoBuf, badfree, held>>

\* ParseSymbolizeDataOutput overwrites the pointers; addr2line never gets here.
DataSendSucceeds ==
  /\ Initialized /\ RunningThisTool = "llvm-symbolizer"
  /\ calls' = calls + 1
  /\ pDataInfoBuf' = [pDataInfoBuf EXCEPT !.name = brk + 1, !.file = brk + 2, !.of = calls + 1]
  /\ heap' = heap \cup {brk + 1, brk + 2} /\ brk' = brk + 2
  /\ call' = Call("data_send", "yes_send_done")
  /\ owed' = owed \cup {"data"}
  /\ UNCHANGED <<RunningThisTool, pSanSymTool, pAddrInfoBuf, badfree, held>>

SanSymTool_data_read ==
  /\ held' = held \cup {[block |-> b, of |-> "data"] : b \in DataBlocks}
  /\ call' = Call("data_read", IF pDataInfoBuf.self = nullptr THEN "err_has_nullptr" ELSE "yes_read_done")
  /\ UNCHANGED <<globals, heap, brk, badfree, owed, careful, calls>>

=============================================================================
