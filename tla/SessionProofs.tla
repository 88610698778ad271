---------------------------- MODULE SessionProofs ----------------------------
(***************************************************************************)
(* What holds of the interface and the tool behind it whoever calls it and *)
(* in whatever order, for every value of the constants and any number of   *)
(* calls.                                                                  *)
(***************************************************************************)
EXTENDS Session, FunctionTheorems, FiniteSetTheorems, TLAPS

Owned == {pSanSymTool, pDataInfoBuf.self, pAddrInfoBuf.self} \ {nullptr}

FrameType == [of : Nat, func : Nat, file : Nat \cup {Wild}]

ProcessType == [tool : Nat, module : Module \cup {All}, failed : BOOLEAN]

Typed ==
  /\ brk \in Nat /\ calls \in Nat /\ pSanSymTool \in Nat
  /\ RunningThisTool \in Tools \cup {"nothing"}
  /\ pDataInfoBuf \in [self : Nat, file : Nat, name : Nat, of : Nat]
  /\ pAddrInfoBuf \in [self : Nat, frames : Seq(FrameType)]
  /\ heap \subseteq 1..brk
  /\ badfree \in BOOLEAN /\ careful \in BOOLEAN /\ unset \in BOOLEAN
  /\ latest \in [{"addr", "data"} -> Nat]
  /\ procs \subseteq ProcessType

\* The globals come and go together, and what the caller owes is what there is.
Globals ==
  /\ GlobalsAgree
  /\ ~Initialized => DataBlocks = {} /\ pAddrInfoBuf.frames = <<>>
  /\ "tool" \notin owed => ~Initialized
  /\ "data" \notin owed => DataBlocks = {}
  /\ "addr" \notin owed => pAddrInfoBuf.frames = <<>>

\* All that was ever pointed to has been allocated; a string is of one kind for good, as
\* long as every frame came with its file.
Allocated == Owned \cup DataBlocks \subseteq 1..brk
OneKind ==
  /\ AddrBlocks \subseteq 1..brk
  /\ DataBlocks \cap AddrBlocks = {}
  /\ \A p \in held : /\ p.block \in 1..brk /\ p.of \in {"addr", "data"}
                     /\ p.of = "addr" => p.block \notin DataBlocks
                     /\ p.of = "data" => p.block \notin AddrBlocks
Kinds == Allocated /\ (~unset => OneKind)

\* Each pointer in the frames has a block of its own.
NoneShared(frames) ==
  \A k, n \in 1..Len(frames) :
    /\ frames[k].func # nullptr => frames[k].func # frames[n].file
    /\ frames[k].func # nullptr /\ frames[k].func = frames[n].func => k = n
    /\ frames[k].file # nullptr /\ frames[k].file = frames[n].file => k = n

\* Nothing dangles and nothing is shared, as long as every frame came with its file.
SoundMemory ==
  /\ ~badfree
  /\ Owned \cup DataBlocks \cup AddrBlocks \subseteq heap
  /\ NoneShared(pAddrInfoBuf.frames)
  /\ Owned \cap (DataBlocks \cup AddrBlocks) = {}
Memory == ~unset => SoundMemory

\* A careful caller loses nothing.
Kept == careful => heap \subseteq Owned \cup DataBlocks \cup AddrBlocks

Processes ==
  /\ \A p \in procs : p.tool \in 1..brk
  /\ careful => procs = Mine

AnyStep == AnyCall \/ UNCHANGED svars

-----------------------------------------------------------------------------
(* Frames and the blocks they lead to                                      *)

New(frames) == brk + 1 .. brk + 2 * Len(frames)

\* The frames of one reply to request calls + 1, as the parser may leave them.
Shape(frames) ==
  /\ frames \in Seq(FrameType)
  /\ \A k \in 1..Len(frames) : frames[k].of = calls + 1

\* The same when every frame came with its file.
Whole(frames) ==
  \A k \in 1..Len(frames) : /\ frames[k].func \in {nullptr, brk + 2 * k - 1}
                            /\ frames[k].file \in {nullptr, brk + 2 * k}

\* Every k-th frame has two blocks of its own.
LEMMA NewFramesAre ==
  ASSUME brk \in Nat, calls \in Nat, NEW count \in Nat, NEW known
  PROVE  /\ Shape(NewFrames(count, known)) /\ Whole(NewFrames(count, known))
         /\ Len(NewFrames(count, known)) = count
<1>. DEFINE fs == NewFrames(count, known)
<1>1. \A k \in 1..count : /\ Frame(calls + 1, k, brk, known) \in FrameType
                          /\ Frame(calls + 1, k, brk, known).of = calls + 1
                          /\ Frame(calls + 1, k, brk, known).func \in {0, brk + 2 * k - 1}
                          /\ Frame(calls + 1, k, brk, known).file \in {0, brk + 2 * k}
  BY DEF Frame, FrameType, nullptr
<1>2. fs \in Seq(FrameType) /\ Len(fs) = count /\ \A k \in 1..count : fs[k] = Frame(calls + 1, k, brk, known)
  BY <1>1 DEF NewFrames
<1>3. Whole(fs)
  BY <1>1, <1>2 DEF Whole, nullptr
<1>4. Shape(fs)
  BY <1>1, <1>2 DEF Shape
<1>. QED  BY <1>2, <1>3, <1>4

\* A frame whose file is not set is a frame all the same.
LEMMA CutFramesAre ==
  ASSUME calls \in Nat, NEW fs, Shape(fs), Len(fs) > 0, NEW file \in Nat \cup {Wild}
  PROVE  /\ Shape([fs EXCEPT ![Len(fs)].file = file])
         /\ Len([fs EXCEPT ![Len(fs)].file = file]) = Len(fs)
         /\ \A k \in 1..Len(fs) :
              LET g == [fs EXCEPT ![Len(fs)].file = file][k]
              IN  g.func = fs[k].func /\ g.file = IF k = Len(fs) THEN file ELSE fs[k].file
<1>. DEFINE n  == Len(fs)
            gs == [fs EXCEPT ![n].file = file]
<1>1. fs \in Seq(FrameType) /\ n \in Nat \ {0}
  BY DEF Shape
<1>3. fs[n] \in FrameType
  BY <1>1
<1>4. [fs[n] EXCEPT !.file = file] \in FrameType
  BY <1>3 DEF FrameType
<1>5. gs = [fs EXCEPT ![n] = [fs[n] EXCEPT !.file = file]]
  OBVIOUS
<1>. HIDE DEF gs
<1>6. gs \in Seq(FrameType) /\ Len(gs) = n
  BY <1>1, <1>4, <1>5
<1>8. \A k \in 1..n : gs[k] = IF k = n THEN [fs[n] EXCEPT !.file = file] ELSE fs[k]
  BY <1>1, <1>5
<1>9. /\ [fs[n] EXCEPT !.file = file].of = fs[n].of
      /\ [fs[n] EXCEPT !.file = file].func = fs[n].func
      /\ [fs[n] EXCEPT !.file = file].file = file
  BY <1>3 DEF FrameType
<1>10. Shape(gs)
  BY <1>1, <1>6, <1>8, <1>9 DEF Shape
<1>11. \A k \in 1..n : gs[k].func = fs[k].func /\ gs[k].file = IF k = n THEN file ELSE fs[k].file
  BY <1>8, <1>9
<1>. QED  BY <1>6, <1>10, <1>11 DEF gs

\* The frames lead to block b.
LeadTo(frames, b) == b # nullptr /\ \E k \in 1..Len(frames) : b = frames[k].func \/ b = frames[k].file

LEMMA AddrBlocksAre == Typed => \A b : b \in AddrBlocks <=> LeadTo(pAddrInfoBuf.frames, b)
<1>. SUFFICES ASSUME Typed, NEW b PROVE b \in AddrBlocks <=> LeadTo(pAddrInfoBuf.frames, b)
  OBVIOUS
<1>. DEFINE fs == pAddrInfoBuf.frames
<1>1. fs \in Seq(FrameType) /\ DOMAIN fs = 1..Len(fs)
  BY DEF Typed
<1>2. \A k \in 1..Len(fs) : fs[k]["func"] = fs[k].func /\ fs[k]["file"] = fs[k].file
  BY <1>1 DEF FrameType
<1>. HIDE DEF fs
<1>3. ASSUME b \in AddrBlocks PROVE LeadTo(fs, b)
  <2>1. PICK at \in AddrPointers : b = AddrBlock(at)
    BY <1>3 DEF AddrBlocks
  <2>2. at \in (1..Len(fs)) \X {"func", "file"} /\ b = fs[at[1]][at[2]] /\ b # nullptr
    BY <1>1, <2>1 DEF AddrPointers, AddrBlock, fs
  <2>3. at[1] \in 1..Len(fs) /\ at[2] \in {"func", "file"}
    BY <2>2
  <2>4. b = fs[at[1]].func \/ b = fs[at[1]].file
    BY <1>2, <2>2, <2>3
  <2>. QED  BY <2>2, <2>3, <2>4 DEF LeadTo
<1>4. ASSUME LeadTo(fs, b) PROVE b \in AddrBlocks
  <2>1. PICK k \in 1..Len(fs) : b = fs[k].func \/ b = fs[k].file
    BY <1>4 DEF LeadTo
  <2>2. PICK fld \in {"func", "file"} : b = fs[k][fld]
    BY <1>2, <2>1
  <2>3. <<k, fld>> \in (1..Len(fs)) \X {"func", "file"} /\ b # nullptr
    BY <1>4 DEF LeadTo
  <2>4. <<k, fld>> \in AddrPointers /\ b = AddrBlock(<<k, fld>>)
    BY <1>1, <2>2, <2>3 DEF AddrPointers, AddrBlock, fs
  <2>. QED  BY <2>4 DEF AddrBlocks
<1>. QED  BY <1>3, <1>4 DEF fs

LEMMA AddrBlocksNext == Typed' => \A b : b \in AddrBlocks' <=> LeadTo(pAddrInfoBuf'.frames, b)
<1>1. (\A b : b \in AddrBlocks <=> LeadTo(pAddrInfoBuf.frames, b))' <=>
       \A b : b \in AddrBlocks' <=> LeadTo(pAddrInfoBuf'.frames, b)
  BY DEF LeadTo
<1>. QED  BY <1>1, AddrBlocksAre, PTL

\* The k-th of two sequences put together.
LEMMA Concatenated ==
  ASSUME NEW old \in Seq(FrameType), NEW fs \in Seq(FrameType)
  PROVE  /\ old \o fs \in Seq(FrameType) /\ Len(old) \in Nat /\ Len(fs) \in Nat
         /\ Len(old \o fs) = Len(old) + Len(fs)
         /\ \A k \in 1..Len(old \o fs) :
              (old \o fs)[k] = IF k <= Len(old) THEN old[k] ELSE fs[k - Len(old)]
OBVIOUS

\* The buffer gains just the blocks of the reply.
LEMMA Appended ==
  ASSUME Typed, NEW fs, Shape(fs), pAddrInfoBuf' = [pAddrInfoBuf EXCEPT !.frames = @ \o fs]
  PROVE  /\ pAddrInfoBuf' \in [self : Nat, frames : Seq(FrameType)]
         /\ pAddrInfoBuf'.self = pAddrInfoBuf.self /\ pAddrInfoBuf'.frames = pAddrInfoBuf.frames \o fs
         /\ \A b : LeadTo(pAddrInfoBuf'.frames, b) <=> LeadTo(pAddrInfoBuf.frames, b) \/ LeadTo(fs, b)
<1>. DEFINE old == pAddrInfoBuf.frames
            all == old \o fs
<1>1. old \in Seq(FrameType) /\ fs \in Seq(FrameType)
  BY DEF Typed, Shape
<1>2. pAddrInfoBuf'.frames = all /\ pAddrInfoBuf'.self = pAddrInfoBuf.self
  BY DEF Typed
<1>3. /\ all \in Seq(FrameType) /\ Len(old) \in Nat /\ Len(fs) \in Nat
      /\ Len(all) = Len(old) + Len(fs)
      /\ \A k \in 1..Len(all) : all[k] = IF k <= Len(old) THEN old[k] ELSE fs[k - Len(old)]
  BY <1>1, Concatenated
<1>4. pAddrInfoBuf' \in [self : Nat, frames : Seq(FrameType)]
  BY <1>2, <1>3 DEF Typed
<1>. HIDE DEF old, all
<1>5. /\ \A k \in 1..Len(old) : k \in 1..Len(all) /\ all[k] = old[k]
      /\ \A k \in 1..Len(fs) : Len(old) + k \in 1..Len(all) /\ all[Len(old) + k] = fs[k]
      /\ \A k \in 1..Len(all) : k \notin 1..Len(old) => k - Len(old) \in 1..Len(fs) /\ all[k] = fs[k - Len(old)]
  <2>1. ASSUME NEW k \in 1..Len(fs) PROVE Len(old) + k \in 1..Len(all) /\ all[Len(old) + k] = fs[k]
    <3>1. Len(old) + k \in 1..Len(all) /\ ~(Len(old) + k <= Len(old)) /\ (Len(old) + k) - Len(old) = k
      BY <1>3
    <3>. QED  BY <1>3, <3>1
  <2>. QED  BY <1>3, <2>1
<1>6. ASSUME NEW b PROVE LeadTo(all, b) <=> LeadTo(old, b) \/ LeadTo(fs, b)
  <2>1. LeadTo(old, b) => LeadTo(all, b)
    BY <1>5 DEF LeadTo
  <2>2. ASSUME LeadTo(fs, b) PROVE LeadTo(all, b)
    <3>1. PICK k \in 1..Len(fs) : b = fs[k].func \/ b = fs[k].file
      BY <2>2 DEF LeadTo
    <3>2. Len(old) + k \in 1..Len(all) /\ all[Len(old) + k] = fs[k]
      BY <1>5
    <3>. QED  BY <2>2, <3>1, <3>2 DEF LeadTo
  <2>3. ASSUME LeadTo(all, b) PROVE LeadTo(old, b) \/ LeadTo(fs, b)
    <3>1. PICK k \in 1..Len(all) : b = all[k].func \/ b = all[k].file
      BY <2>3 DEF LeadTo
    <3>2. CASE k \in 1..Len(old)
      BY <1>5, <2>3, <3>1, <3>2 DEF LeadTo
    <3>3. CASE k \notin 1..Len(old)
      <4>1. k - Len(old) \in 1..Len(fs) /\ all[k] = fs[k - Len(old)]
        BY <1>5, <3>3
      <4>. QED  BY <2>3, <3>1, <4>1 DEF LeadTo
    <3>. QED  BY <3>2, <3>3
  <2>. QED  BY <2>1, <2>2, <2>3
<1>. QED  BY <1>2, <1>4, <1>6 DEF old, all

\* The strings of frames are new blocks; whole frames lead to nothing else.
LEMMA StringsAre ==
  ASSUME brk \in Nat, NEW fs, Shape(fs)
  PROVE  /\ \A b : b \in Strings(fs) <=> b \in New(fs) /\ LeadTo(fs, b)
         /\ Whole(fs) => \A b : LeadTo(fs, b) => b \in New(fs)
<1>1. Len(fs) \in Nat /\ DOMAIN fs = 1..Len(fs)
  BY DEF Shape
<1>2. ASSUME NEW b PROVE b \in Strings(fs) <=> b \in New(fs) /\ LeadTo(fs, b)
  <2>1. b \in New(fs) => b # nullptr
    BY <1>1 DEF New, nullptr
  <2>2. b \in Strings(fs) <=> b \in New(fs) /\ \E k \in 1..Len(fs) : b = fs[k].func \/ b = fs[k].file
    BY <1>1 DEF Strings, New
  <2>. QED  BY <2>1, <2>2 DEF LeadTo
<1>3. ASSUME Whole(fs), NEW b, LeadTo(fs, b) PROVE b \in New(fs)
  <2>1. PICK k \in 1..Len(fs) : b = fs[k].func \/ b = fs[k].file
    BY <1>3 DEF LeadTo
  <2>2. b \in {brk + 2 * k - 1, brk + 2 * k}
    BY <1>3, <2>1 DEF LeadTo, Whole
  <2>. QED  BY <1>1, <2>2 DEF New
<1>. QED  BY <1>2, <1>3

LEMMA WholeAreUnshared ==
  ASSUME brk \in Nat, NEW fs, Shape(fs), Whole(fs)
  PROVE  NoneShared(fs)
<1>. SUFFICES ASSUME NEW k \in 1..Len(fs), NEW n \in 1..Len(fs)
              PROVE  /\ fs[k].func # nullptr => fs[k].func # fs[n].file
                     /\ fs[k].func # nullptr /\ fs[k].func = fs[n].func => k = n
                     /\ fs[k].file # nullptr /\ fs[k].file = fs[n].file => k = n
  BY DEF NoneShared
<1>1. k \in Nat /\ n \in Nat
  BY DEF Shape
<1>2. /\ fs[k].func \in {0, brk + 2 * k - 1} /\ fs[k].file \in {0, brk + 2 * k}
      /\ fs[n].func \in {0, brk + 2 * n - 1} /\ fs[n].file \in {0, brk + 2 * n}
  BY DEF Whole, nullptr
<1>3. brk + 2 * k - 1 # brk + 2 * n /\ brk + 2 * k # 0 /\ brk + 2 * k - 1 # 0
  BY <1>1
<1>. QED  BY <1>1, <1>2, <1>3 DEF nullptr

LEMMA PointersAreUnshared ==
  Typed /\ NoneShared(pAddrInfoBuf.frames)
    => \A at, other \in AddrPointers : AddrBlock(at) = AddrBlock(other) => at = other
<1>. DEFINE fs == pAddrInfoBuf.frames
<1>. SUFFICES ASSUME Typed, NoneShared(fs), NEW at \in AddrPointers, NEW other \in AddrPointers,
                     AddrBlock(at) = AddrBlock(other)
              PROVE  at = other
  OBVIOUS
<1>1. fs \in Seq(FrameType) /\ DOMAIN fs = 1..Len(fs)
  BY DEF Typed
<1>2. \A k \in 1..Len(fs) : fs[k]["func"] = fs[k].func /\ fs[k]["file"] = fs[k].file
  BY <1>1 DEF FrameType
<1>3. /\ at \in (1..Len(fs)) \X {"func", "file"} /\ other \in (1..Len(fs)) \X {"func", "file"}
      /\ fs[at[1]][at[2]] # nullptr /\ fs[other[1]][other[2]] # nullptr
      /\ fs[at[1]][at[2]] = fs[other[1]][other[2]]
  BY <1>1 DEF AddrPointers, AddrBlock
<1>. HIDE DEF fs
<1>4. /\ at[1] \in 1..Len(fs) /\ other[1] \in 1..Len(fs)
      /\ at[2] \in {"func", "file"} /\ other[2] \in {"func", "file"}
  BY <1>3
<1>5. at[1] = other[1] /\ at[2] = other[2]
  BY <1>2, <1>3, <1>4 DEF NoneShared
<1>. QED  BY <1>3, <1>5

-----------------------------------------------------------------------------
(* The calls, by what they do to memory                                    *)

\* A call that fails, or that takes the host down.
Passes == /\ UNCHANGED <<globals, heap, brk, badfree, held, owed, calls, unset>>
          /\ careful' \in BOOLEAN /\ (careful' => careful)

Reads == /\ UNCHANGED <<globals, heap, brk, badfree, owed, careful, calls, behind>>
         /\ \A p \in held' : \/ p \in held
                             \/ p.of = "addr" /\ p.block \in AddrBlocks
                             \/ p.of = "data" /\ p.block \in DataBlocks

\* Blocks are freed at once only if a frame came without its file.
AddrAnswer(m, fs, new, freed) ==
  /\ Asks("addr") /\ AddrSendSucceeds(fs, new, freed) /\ Answered("addr", m)
  /\ Shape(fs)
  /\ \A b \in new : b \in New(fs) /\ LeadTo(fs, b)
  /\ \/ Whole(fs) /\ new = Strings(fs) /\ freed = {} /\ unset' = unset
     \/ unset' = TRUE

DataAnswer(m) == Asks("data") /\ DataSendSucceeds /\ Answered("data", m) /\ UNCHANGED unset

LEMMA AddrCases ==
  ASSUME Typed, NEW m \in Module, SendAddr(m), MaxFrames \in Nat
  PROVE  \/ Passes /\ Refused("addr", m) /\ Asks("addr")
         \/ \E fs, new, freed : AddrAnswer(m, fs, new, freed)
<1>a. brk \in Nat /\ calls \in Nat
  BY DEF Typed
<1>1. CASE SendFails("addr_send") /\ Refused("addr", m)
  BY <1>1 DEF SendAddr, SendFails, Refused, NoAnswer, Asks, Passes, Typed
<1>2. ASSUME NEW fs, Shape(fs), Whole(fs), Answered("addr", m),
             AddrSendSucceeds(fs, Strings(fs), {}), UNCHANGED unset
      PROVE  AddrAnswer(m, fs, Strings(fs), {})
  <2>1. \A b \in Strings(fs) : b \in New(fs) /\ LeadTo(fs, b)
    BY <1>a, <1>2, StringsAre
  <2>. QED  BY <1>2, <2>1 DEF SendAddr, AddrAnswer
<1>3. ASSUME NEW fs, Shape(fs), Len(fs) > 0, Answered("addr", m), NEW file \in Garbage,
             FileUnset(fs, file), unset' = TRUE
      PROVE  \E gs, new, freed : AddrAnswer(m, gs, new, freed)
  <2>. DEFINE gs == [fs EXCEPT ![Len(fs)].file = file]
  <2>1. file \in Nat \cup {Wild} /\ nullptr \in Nat \cup {Wild}
    BY BoundAssumption DEF Garbage, nullptr
  <2>2. /\ Shape(gs) /\ Len(gs) = Len(fs)
        /\ \A k \in 1..Len(fs) : gs[k].func = fs[k].func /\ gs[k].file = IF k = Len(fs) THEN file ELSE fs[k].file
    BY <1>a, <1>3, <2>1, CutFramesAre
  <2>3. /\ Shape(Cut(fs)) /\ Len(Cut(fs)) = Len(fs)
        /\ \A k \in 1..Len(fs) : /\ Cut(fs)[k].func = fs[k].func
                                 /\ Cut(fs)[k].file = IF k = Len(fs) THEN nullptr ELSE fs[k].file
    BY <1>a, <1>3, <2>1, CutFramesAre DEF Cut
  <2>4. \A b \in Strings(Cut(fs)) : b \in New(Cut(fs)) /\ LeadTo(Cut(fs), b)
    BY <1>a, <2>3, StringsAre
  <2>. HIDE DEF gs
  <2>5. \A b \in Strings(Cut(fs)) : b \in New(gs) /\ LeadTo(gs, b)
    BY <2>2, <2>3, <2>4 DEF New, LeadTo
  <2>6. \/ AddrSendSucceeds(gs, Strings(Cut(fs)), {})
        \/ AddrSendSucceeds(Cut(fs), Strings(Cut(fs)), {file})
    BY <1>3 DEF FileUnset, gs
  <2>7. AddrAnswer(m, gs, Strings(Cut(fs)), {}) \/ AddrAnswer(m, Cut(fs), Strings(Cut(fs)), {file})
    BY <1>3, <2>2, <2>3, <2>4, <2>5, <2>6 DEF SendAddr, AddrAnswer
  <2>. QED  BY <2>7
<1>4. ASSUME NEW count \in 0..MaxFrames, NEW known
      PROVE  /\ Shape(NewFrames(count, known)) /\ Whole(NewFrames(count, known))
             /\ Len(NewFrames(count, known)) = count
  BY <1>a, NewFramesAre
<1>. QED  BY <1>1, <1>2, <1>3, <1>4 DEF SendAddr

\* Every call is one of these.
LEMMA CallCases ==
  ASSUME Typed, AnyStep
  PROVE  \/ Passes \/ Reads
         \/ \E path \in Tools : StartTool(path) /\ InitSucceeds(path) /\ Asks("tool")
         \/ FinishTool
         \/ SanSymTool_addr_free /\ Quiet
         \/ SanSymTool_data_free /\ Quiet
         \/ \E m \in Module : \E fs, new, freed : AddrAnswer(m, fs, new, freed)
         \/ \E m \in Module : DataAnswer(m)
<1>1. ASSUME NEW path \in Paths, StartTool(path)
      PROVE  Passes \/ (path \in Tools /\ InitSucceeds(path) /\ Asks("tool"))
  <2>1. CASE InitFails(path)
    <3>1. UNCHANGED <<globals, heap, brk, badfree, held, owed, calls, unset>>
      BY <1>1, <2>1 DEF StartTool, InitFails
    <3>2. careful' \in BOOLEAN /\ (careful' => careful)
      BY <1>1 DEF StartTool, SanSymTool_init, Asks, Typed
    <3>. QED  BY <3>1, <3>2 DEF Passes
  <2>. QED  BY <1>1, <2>1 DEF StartTool, SanSymTool_init, InitSucceeds
<1>2. ASSUME NEW m \in Module, SendAddr(m) PROVE Passes \/ \E fs, new, freed : AddrAnswer(m, fs, new, freed)
  BY <1>2, AddrCases, BoundAssumption
<1>3. ASSUME NEW m \in Module, SendData(m) PROVE Passes \/ DataAnswer(m)
  BY <1>3 DEF SendData, SendFails, Refused, NoAnswer, Asks, Passes, DataAnswer, Typed
<1>4. ASSUME NEW m \in Module, NEW kind, HostDies(kind, m) PROVE Passes
  BY <1>4 DEF HostDies, behind, Passes, Typed
<1>5. ASSUME NEW idx \in 1..Len(pAddrInfoBuf.frames), SanSymTool_addr_read(idx), Quiet PROVE Reads
  <2>1. \A b \in {pAddrInfoBuf.frames[idx].func, pAddrInfoBuf.frames[idx].file} \ {nullptr} : b \in AddrBlocks
    BY AddrBlocksAre DEF LeadTo
  <2>. QED  BY <1>5, <2>1 DEF SanSymTool_addr_read, Quiet, Reads
<1>6. CASE AddrReadFails /\ Quiet
  BY <1>6 DEF AddrReadFails, Quiet, Reads
<1>7. CASE SanSymTool_data_read /\ Quiet
  BY <1>7 DEF SanSymTool_data_read, Quiet, Reads
<1>8. CASE UNCHANGED svars
  BY <1>8 DEF svars, vars, Passes, behind, Typed
<1>. QED  BY <1>1, <1>2, <1>3, <1>4, <1>5, <1>6, <1>7, <1>8 DEF AnyStep, AnyCall

-----------------------------------------------------------------------------
(* The inductive invariant                                                 *)

\* What a call does to the processes and to the account of the latest requests.
ProcsKept == UNCHANGED pSanSymTool /\ procs' \subseteq procs
ProcsUsed ==
  /\ Initialized /\ UNCHANGED pSanSymTool
  /\ \A p \in procs' : \/ p \in procs
                       \/ p.tool = pSanSymTool /\ p \in ProcessType

LEMMA ProcessIsTyped ==
  ASSUME Typed, NEW m \in Module
  PROVE  \A p \in WithProcess(m) : \/ p \in procs
                                   \/ p.tool = pSanSymTool /\ p \in ProcessType
<1>1. Process(pSanSymTool, Key(m)) \in ProcessType
  BY DEF Process, Key, Typed, ProcessType
<1>2. Process(pSanSymTool, Key(m)).tool = pSanSymTool
  BY DEF Process
<1>3. WithProcess(m) \subseteq procs \cup {Process(pSanSymTool, Key(m))}
  BY DEF WithProcess
<1>. QED  BY <1>1, <1>2, <1>3

LEMMA AnswerUses ==
  ASSUME Typed, NEW m \in Module, NEW kind, Answered(kind, m), UNCHANGED pSanSymTool
  PROVE  ProcsUsed
BY ProcessIsTyped DEF Answered, Replies, Reaches, ProcsUsed

LEMMA RefusalUses ==
  ASSUME Typed, NEW m \in Module, NEW kind, Refused(kind, m), UNCHANGED pSanSymTool
  PROVE  ProcsKept \/ ProcsUsed
<1>1. CASE UNCHANGED procs
  BY <1>1 DEF ProcsKept
<1>2. CASE Reaches(kind, m) /\ GivesUp(m)
  <2>1. PICK p \in WithProcess(m) : /\ p.tool = pSanSymTool
                                    /\ procs' = (WithProcess(m) \ {p}) \cup {[p EXCEPT !.failed = TRUE]}
    BY <1>2 DEF GivesUp
  <2>2. p \in ProcessType
    BY ProcessIsTyped DEF Typed
  <2>3. /\ [p EXCEPT !.failed = TRUE] \in ProcessType
        /\ [p EXCEPT !.failed = TRUE].tool = pSanSymTool
    BY <2>1, <2>2 DEF ProcessType
  <2>. QED  BY <1>2, <2>1, <2>3, ProcessIsTyped DEF ProcsUsed, Reaches
<1>. QED  BY <1>1, <1>2 DEF Refused

LEMMA ProcessCases ==
  ASSUME Typed, AnyStep
  PROVE  \/ ProcsKept \/ ProcsUsed \/ FinishTool
         \/ \E path \in Tools : /\ InitSucceeds(path) /\ Asks("tool")
                                /\ procs' \subseteq procs \cup {Process(pSanSymTool', All)}
<1>1. ASSUME NEW path \in Paths, StartTool(path)
      PROVE  \/ ProcsKept
             \/ /\ path \in Tools /\ InitSucceeds(path) /\ Asks("tool")
                /\ procs' \subseteq procs \cup {Process(pSanSymTool', All)}
  BY <1>1 DEF StartTool, SanSymTool_init, InitFails, InitSucceeds, ProcsKept, Tools, globals
<1>2. ASSUME NEW m \in Module, SendAddr(m) PROVE ProcsKept \/ ProcsUsed
  <2>1. UNCHANGED pSanSymTool
    <3>1. \A fs, new, freed : AddrSendSucceeds(fs, new, freed) => UNCHANGED pSanSymTool
      BY DEF AddrSendSucceeds
    <3>2. SendFails("addr_send") => UNCHANGED pSanSymTool
      BY DEF SendFails, globals
    <3>. QED  BY <1>2, <3>1, <3>2 DEF SendAddr, FileUnset
  <2>2. Refused("addr", m) \/ Answered("addr", m)
    BY <1>2 DEF SendAddr
  <2>. QED  BY <2>1, <2>2, AnswerUses, RefusalUses
<1>3. ASSUME NEW m \in Module, SendData(m) PROVE ProcsKept \/ ProcsUsed
  <2>1. UNCHANGED pSanSymTool
    BY <1>3 DEF SendData, SendFails, DataSendSucceeds, globals
  <2>. QED  BY <1>3, <2>1, AnswerUses, RefusalUses DEF SendData
<1>4. ASSUME NEW m \in Module, NEW kind, HostDies(kind, m) PROVE ProcsKept
  BY <1>4 DEF HostDies, behind, globals, ProcsKept
<1>5. ASSUME NEW idx, SanSymTool_addr_read(idx), Quiet PROVE ProcsKept
  BY <1>5 DEF SanSymTool_addr_read, Quiet, behind, globals, ProcsKept
<1>6. CASE (AddrReadFails \/ SanSymTool_addr_free \/ SanSymTool_data_read \/ SanSymTool_data_free) /\ Quiet
  BY <1>6 DEF AddrReadFails, SanSymTool_addr_free, SanSymTool_data_read, SanSymTool_data_free,
              Quiet, behind, globals, ProcsKept
<1>7. CASE UNCHANGED svars
  BY <1>7 DEF svars, vars, globals, behind, ProcsKept
<1>. QED  BY <1>1, <1>2, <1>3, <1>4, <1>5, <1>6, <1>7 DEF AnyStep, AnyCall

\* What an answer adds: the blocks of its frames, which are new unless a frame came
\* without its file.
LEMMA AddrEffect ==
  ASSUME Typed, NEW m, NEW fs, NEW new, NEW freed, AddrAnswer(m, fs, new, freed)
  PROVE  /\ Initialized
         /\ UNCHANGED <<RunningThisTool, pSanSymTool, pDataInfoBuf, held>>
         /\ badfree' \in BOOLEAN /\ heap' = (heap \cup new) \ freed
         /\ pAddrInfoBuf' \in [self : Nat, frames : Seq(FrameType)]
         /\ pAddrInfoBuf'.self = pAddrInfoBuf.self /\ pAddrInfoBuf'.frames = pAddrInfoBuf.frames \o fs
         /\ brk' \in Nat /\ New(fs) \subseteq 1..brk' /\ 1..brk \subseteq 1..brk' /\ New(fs) \cap 1..brk = {}
         /\ calls' = calls + 1 /\ owed' = owed \cup {"addr"}
         /\ \A b : LeadTo(pAddrInfoBuf'.frames, b) <=> LeadTo(pAddrInfoBuf.frames, b) \/ LeadTo(fs, b)
         /\ \A b \in new : b \in New(fs) /\ LeadTo(fs, b)
         /\ unset' \in BOOLEAN
         /\ ~unset' => /\ ~unset /\ Whole(fs) /\ badfree' = badfree /\ heap' = heap \cup new
                       /\ \A b : LeadTo(fs, b) <=> b \in new
<1>. USE DEF AddrAnswer, AddrSendSucceeds
<1>1. Len(fs) \in Nat /\ brk \in Nat /\ brk' = brk + 2 * Len(fs)
  BY DEF Shape, Typed
<1>2. /\ brk' \in Nat /\ New(fs) \subseteq 1..brk' /\ 1..brk \subseteq 1..brk' /\ New(fs) \cap 1..brk = {}
      /\ New(fs) = brk + 1 .. brk + 2 * Len(fs) /\ nullptr \notin New(fs)
  BY <1>1 DEF New, nullptr
<1>3. badfree' \in BOOLEAN /\ unset' \in BOOLEAN
  BY DEF Typed
<1>4. ASSUME ~unset'
      PROVE  /\ ~unset /\ Whole(fs) /\ badfree' = badfree /\ heap' = heap \cup new
             /\ \A b : LeadTo(fs, b) <=> b \in new
  <2>1. ~unset /\ Whole(fs) /\ new = Strings(fs) /\ freed = {}
    BY <1>4
  <2>2. badfree' = badfree /\ heap' = heap \cup new
    BY <2>1 DEF Typed
  <2>. QED  BY <1>1, <2>1, <2>2, StringsAre
<1>5. /\ pAddrInfoBuf' \in [self : Nat, frames : Seq(FrameType)]
      /\ pAddrInfoBuf'.self = pAddrInfoBuf.self /\ pAddrInfoBuf'.frames = pAddrInfoBuf.frames \o fs
      /\ \A b : LeadTo(pAddrInfoBuf'.frames, b) <=> LeadTo(pAddrInfoBuf.frames, b) \/ LeadTo(fs, b)
  BY Appended
<1>. QED  BY <1>1, <1>2, <1>3, <1>4, <1>5

LEMMA LatestIsTyped == Typed /\ AnyStep => latest' \in [{"addr", "data"} -> Nat]
<1>. SUFFICES ASSUME Typed, AnyStep PROVE latest' \in [{"addr", "data"} -> Nat]
  OBVIOUS
<1>1. /\ NoRequest \in [{"addr", "data"} -> Nat]
      /\ UNCHANGED latest => latest' \in [{"addr", "data"} -> Nat]
  BY DEF NoRequest, Typed
<1>2. ASSUME NEW kind, NEW n \in Nat, latest' = [latest EXCEPT ![kind] = n]
      PROVE  latest' \in [{"addr", "data"} -> Nat]
  BY <1>2 DEF Typed
<1>3. ASSUME NEW m \in Module, NEW kind, Refused(kind, m) \/ Answered(kind, m)
      PROVE  latest' \in [{"addr", "data"} -> Nat]
  <2>1. calls + 1 \in Nat /\ 0 \in Nat
    BY DEF Typed
  <2>. QED  BY <1>2, <1>3, <2>1 DEF Refused, NoAnswer, Answered
<1>4. ASSUME NEW m \in Module, SendAddr(m) \/ SendData(m) PROVE latest' \in [{"addr", "data"} -> Nat]
  BY <1>3, <1>4 DEF SendAddr, SendData
<1>5. ASSUME NEW path, StartTool(path) PROVE latest' \in [{"addr", "data"} -> Nat]
  BY <1>1, <1>5 DEF StartTool
<1>6. CASE Quiet \/ FinishTool \/ UNCHANGED svars
  BY <1>1, <1>6 DEF Quiet, FinishTool, behind, svars
<1>7. ASSUME NEW m, NEW kind, HostDies(kind, m) PROVE latest' \in [{"addr", "data"} -> Nat]
  BY <1>1, <1>7 DEF HostDies, behind
<1>. QED  BY <1>4, <1>5, <1>6, <1>7 DEF AnyStep, AnyCall

LEMMA TypedStep == Typed /\ Processes /\ AnyStep => Typed'
<1>. SUFFICES ASSUME Typed, Processes, AnyStep PROVE Typed'
  OBVIOUS
<1>. USE DEF Typed, nullptr
<1>a. latest' \in [{"addr", "data"} -> Nat]
  BY LatestIsTyped
<1>b. procs' \subseteq ProcessType
  <2>1. ASSUME NEW path \in Tools, InitSucceeds(path), procs' \subseteq procs \cup {Process(pSanSymTool', All)}
        PROVE  procs' \subseteq ProcessType
    <3>1. pSanSymTool' \in Nat
      BY <2>1 DEF InitSucceeds
    <3>2. Process(pSanSymTool', All) \in ProcessType
      BY <3>1 DEF Process, ProcessType
    <3>. QED  BY <2>1, <3>2
  <2>. QED  BY <2>1, ProcessCases DEF ProcsKept, ProcsUsed, FinishTool
<1>1. CASE Passes \/ Reads
  <2>1. /\ UNCHANGED <<RunningThisTool, pSanSymTool, pDataInfoBuf, pAddrInfoBuf>>
        /\ UNCHANGED <<heap, brk, badfree, calls, unset>> /\ careful' \in BOOLEAN
    BY <1>1 DEF Passes, Reads, globals, behind
  <2>. QED  BY <2>1, <1>a, <1>b
<1>2. ASSUME NEW path \in Tools, StartTool(path), InitSucceeds(path), Asks("tool") PROVE Typed'
  <2>1. /\ pDataInfoBuf' \in [self : Nat, file : Nat, name : Nat, of : Nat]
        /\ pAddrInfoBuf' \in [self : Nat, frames : Seq(FrameType)]
    BY <1>2 DEF InitSucceeds, NewData, NewAddr
  <2>2. brk' \in Nat /\ pSanSymTool' \in Nat /\ heap' \subseteq 1..brk' /\ calls' \in Nat
    BY <1>2 DEF InitSucceeds
  <2>. QED  BY <1>2, <1>a, <1>b, <2>1, <2>2 DEF InitSucceeds, StartTool, Asks
<1>3. CASE FinishTool
  <2>1. /\ pDataInfoBuf' \in [self : Nat, file : Nat, name : Nat, of : Nat]
        /\ pAddrInfoBuf' \in [self : Nat, frames : Seq(FrameType)]
    BY <1>3 DEF FinishTool, SanSymTool_fini, NoData, NoAddr, NewData, NewAddr
  <2>. QED  BY <1>3, <1>a, <1>b, <2>1 DEF FinishTool, SanSymTool_fini, Release
<1>4. CASE SanSymTool_addr_free /\ Quiet
  <2>1. pAddrInfoBuf' \in [self : Nat, frames : Seq(FrameType)]
    <3>1. <<>> \in Seq(FrameType)
      OBVIOUS
    <3>2. pAddrInfoBuf' = [pAddrInfoBuf EXCEPT !.frames = <<>>]
      BY <1>4 DEF SanSymTool_addr_free
    <3>. QED  BY <3>1, <3>2
  <2>. QED  BY <1>4, <1>a, <1>b, <2>1 DEF SanSymTool_addr_free, Release, Quiet, behind
<1>5. CASE SanSymTool_data_free /\ Quiet
  <2>1. pDataInfoBuf' \in [self : Nat, file : Nat, name : Nat, of : Nat]
    BY <1>5 DEF SanSymTool_data_free
  <2>. QED  BY <1>5, <1>a, <1>b, <2>1 DEF SanSymTool_data_free, Release, Quiet, behind
<1>6. ASSUME NEW m \in Module, NEW fs, NEW new, NEW freed, AddrAnswer(m, fs, new, freed) PROVE Typed'
  <2>1. heap' \subseteq 1..brk'
    <3>1. /\ heap' \subseteq heap \cup new /\ 1..brk \subseteq 1..brk' /\ New(fs) \subseteq 1..brk'
          /\ \A b \in new : b \in New(fs)
      BY <1>6, AddrEffect
    <3>. QED  BY <3>1
  <2>2. careful' \in BOOLEAN /\ unset' \in BOOLEAN
    BY <1>6, AddrEffect DEF AddrAnswer, Asks
  <2>3. /\ UNCHANGED <<RunningThisTool, pSanSymTool, pDataInfoBuf>> /\ badfree' \in BOOLEAN
        /\ pAddrInfoBuf' \in [self : Nat, frames : Seq(FrameType)]
        /\ brk' \in Nat /\ calls' = calls + 1
    BY <1>6, AddrEffect
  <2>. QED  BY <1>a, <1>b, <2>1, <2>2, <2>3
<1>7. ASSUME NEW m \in Module, DataAnswer(m) PROVE Typed'
  <2>1. pDataInfoBuf' \in [self : Nat, file : Nat, name : Nat, of : Nat]
    <3>1. pDataInfoBuf' = [pDataInfoBuf EXCEPT !.name = brk + 1, !.file = brk + 2, !.of = calls + 1]
      BY <1>7 DEF DataAnswer, DataSendSucceeds
    <3>2. brk + 1 \in Nat /\ brk + 2 \in Nat /\ calls + 1 \in Nat
      OBVIOUS
    <3>. QED  BY <3>1, <3>2
  <2>2. brk' \in Nat /\ heap' \subseteq 1..brk'
    <3>1. brk' = brk + 2 /\ heap' = heap \cup {brk + 1, brk + 2}
      BY <1>7 DEF DataAnswer, DataSendSucceeds
    <3>. QED  BY <3>1
  <2>. QED  BY <1>7, <1>a, <1>b, <2>1, <2>2 DEF DataAnswer, DataSendSucceeds, Asks
<1>. QED  BY <1>1, <1>2, <1>3, <1>4, <1>5, <1>6, <1>7, CallCases

LEMMA GlobalsStep == Typed /\ Globals /\ Typed' /\ AnyStep => Globals'
<1>. SUFFICES ASSUME Typed, Globals, Typed', AnyStep PROVE Globals'
  OBVIOUS
<1>. USE DEF Globals, GlobalsAgree, Initialized, nullptr
<1>1. CASE Passes \/ Reads
  <2>1. UNCHANGED <<RunningThisTool, pSanSymTool, pDataInfoBuf, pAddrInfoBuf, owed>>
    BY <1>1 DEF Passes, Reads, globals
  <2>. QED  BY <2>1 DEF DataBlocks
<1>2. ASSUME NEW path \in Tools, StartTool(path), InitSucceeds(path), Asks("tool") PROVE Globals'
  <2>1. /\ RunningThisTool' # "nothing" /\ pSanSymTool' # 0
        /\ pDataInfoBuf'.self # 0 /\ pDataInfoBuf'.file = 0 /\ pDataInfoBuf'.name = 0
        /\ pAddrInfoBuf'.self # 0 /\ pAddrInfoBuf'.frames = <<>>
        /\ owed' = owed \cup {"tool"}
    BY <1>2 DEF InitSucceeds, NewData, NewAddr, Typed, Tools
  <2>. QED  BY <2>1 DEF DataBlocks
<1>3. CASE FinishTool
  <2>1. /\ RunningThisTool' = "nothing" /\ pSanSymTool' = 0
        /\ pDataInfoBuf' = NoData /\ pAddrInfoBuf' = NoAddr
    BY <1>3 DEF FinishTool, SanSymTool_fini
  <2>2. /\ pDataInfoBuf'.self = 0 /\ pDataInfoBuf'.file = 0 /\ pDataInfoBuf'.name = 0
        /\ pAddrInfoBuf'.self = 0 /\ pAddrInfoBuf'.frames = <<>>
    BY <2>1 DEF NoData, NoAddr, NewData, NewAddr
  <2>. QED  BY <2>1, <2>2 DEF DataBlocks
<1>4. CASE SanSymTool_addr_free /\ Quiet
  <2>1. /\ pAddrInfoBuf' = [pAddrInfoBuf EXCEPT !.frames = <<>>] /\ owed' = owed \ {"addr"}
        /\ UNCHANGED <<RunningThisTool, pSanSymTool, pDataInfoBuf>>
    BY <1>4 DEF SanSymTool_addr_free
  <2>2. pAddrInfoBuf'.self = pAddrInfoBuf.self /\ pAddrInfoBuf'.frames = <<>>
    BY <2>1 DEF Typed
  <2>. QED  BY <2>1, <2>2 DEF DataBlocks
<1>5. CASE SanSymTool_data_free /\ Quiet
  <2>1. /\ pDataInfoBuf' = [pDataInfoBuf EXCEPT !.file = 0, !.name = 0] /\ owed' = owed \ {"data"}
        /\ UNCHANGED <<RunningThisTool, pSanSymTool, pAddrInfoBuf>>
    BY <1>5 DEF SanSymTool_data_free
  <2>2. pDataInfoBuf'.self = pDataInfoBuf.self /\ pDataInfoBuf'.file = 0 /\ pDataInfoBuf'.name = 0
    BY <2>1 DEF Typed
  <2>. QED  BY <2>1, <2>2 DEF DataBlocks
<1>6. ASSUME NEW m \in Module, NEW fs, NEW new, NEW freed, AddrAnswer(m, fs, new, freed) PROVE Globals'
  <2>1. /\ pSanSymTool # 0 /\ UNCHANGED <<RunningThisTool, pSanSymTool, pDataInfoBuf>>
        /\ pAddrInfoBuf'.self = pAddrInfoBuf.self /\ owed' = owed \cup {"addr"}
    BY <1>6, AddrEffect
  <2>. QED  BY <2>1 DEF DataBlocks
<1>7. ASSUME NEW m \in Module, DataAnswer(m) PROVE Globals'
  <2>1. /\ pDataInfoBuf' = [pDataInfoBuf EXCEPT !.name = brk + 1, !.file = brk + 2, !.of = calls + 1]
        /\ pSanSymTool # 0 /\ owed' = owed \cup {"data"}
        /\ UNCHANGED <<RunningThisTool, pSanSymTool, pAddrInfoBuf>>
    BY <1>7 DEF DataAnswer, DataSendSucceeds
  <2>2. pDataInfoBuf'.self = pDataInfoBuf.self
    BY <2>1 DEF Typed
  <2>. QED  BY <2>1, <2>2
<1>. QED  BY <1>1, <1>2, <1>3, <1>4, <1>5, <1>6, <1>7, CallCases

\* Blocks are numbered in order; who was careless once stays so.
LEMMA Numbered == Typed /\ Typed' /\ AnyStep => brk <= brk' /\ (careful' => careful)
<1>. SUFFICES ASSUME Typed, Typed', AnyStep PROVE brk <= brk' /\ (careful' => careful)
  OBVIOUS
<1>a. brk \in Nat
  BY DEF Typed
<1>b. ASSUME NEW what, Asks(what) PROVE careful' => careful
  BY <1>b, Zenon DEF Asks
<1>1. CASE Passes \/ Reads
  BY <1>1, <1>a DEF Passes, Reads
<1>2. CASE FinishTool \/ SanSymTool_addr_free \/ SanSymTool_data_free
  <2>1. UNCHANGED <<brk, careful>>
    BY <1>2 DEF FinishTool, SanSymTool_fini, SanSymTool_addr_free, SanSymTool_data_free
  <2>. QED  BY <1>a, <2>1
<1>3. ASSUME NEW path, InitSucceeds(path), Asks("tool") PROVE brk <= brk' /\ (careful' => careful)
  BY <1>3, <1>a, <1>b DEF InitSucceeds
<1>4. ASSUME NEW m, NEW fs, NEW new, NEW freed, AddrAnswer(m, fs, new, freed)
      PROVE  brk <= brk' /\ (careful' => careful)
  <2>1. Len(fs) \in Nat /\ brk' = brk + 2 * Len(fs) /\ Asks("addr")
    BY <1>4 DEF AddrAnswer, AddrSendSucceeds, Shape
  <2>. QED  BY <1>a, <1>b, <2>1
<1>5. ASSUME NEW m, DataAnswer(m) PROVE brk <= brk' /\ (careful' => careful)
  <2>1. brk' = brk + 2 /\ Asks("data")
    BY <1>5 DEF DataAnswer, DataSendSucceeds
  <2>. QED  BY <1>a, <1>b, <2>1
<1>. QED  BY <1>1, <1>2, <1>3, <1>4, <1>5, CallCases

\* A careful caller's processes are those of the tool in use.
LEMMA ProcessesStep == Typed /\ Globals /\ Kinds /\ Processes /\ Typed' /\ AnyStep => Processes'
<1>. SUFFICES ASSUME Typed, Globals, Kinds, Processes, Typed', AnyStep PROVE Processes'
  OBVIOUS
<1>. DEFINE Mines == \A p \in procs : p.tool = pSanSymTool
<1>a. /\ careful => Mines
      /\ \A p \in procs : p.tool \in 1..brk
      /\ brk \in Nat /\ brk' \in Nat /\ brk <= brk' /\ (careful' => careful)
      /\ pSanSymTool # 0 => pSanSymTool \in 1..brk
  BY Numbered DEF Processes, Mine, Typed, Kinds, Allocated, Owned, nullptr
<1>b. SUFFICES (careful' => Mines') /\ \A p \in procs' : p.tool \in 1..brk'
  BY DEF Processes, Mine
<1>1. CASE ProcsKept
  BY <1>1, <1>a DEF ProcsKept
<1>2. CASE ProcsUsed
  BY <1>2, <1>a DEF ProcsUsed, Initialized, nullptr
<1>3. CASE FinishTool
  BY <1>3, <1>a DEF FinishTool, Mine
<1>4. ASSUME NEW path \in Tools, InitSucceeds(path), Asks("tool"),
             procs' \subseteq procs \cup {Process(pSanSymTool', All)}
      PROVE  (careful' => Mines') /\ \A p \in procs' : p.tool \in 1..brk'
  <2>1. Process(pSanSymTool', All).tool = pSanSymTool'
    BY DEF Process
  <2>2. pSanSymTool' = brk + 1 /\ brk' = brk + 3
    BY <1>4 DEF InitSucceeds
  <2>3. careful' => pSanSymTool = 0
    BY <1>4 DEF Asks, Globals, Initialized, nullptr
  <2>. QED  BY <1>4, <1>a, <2>1, <2>2, <2>3
<1>. QED  BY <1>1, <1>2, <1>3, <1>4, ProcessCases

\* What becomes of the blocks of frames.
LEMMA AddrBlocksKept == UNCHANGED pAddrInfoBuf => AddrBlocks' = AddrBlocks
BY DEF AddrBlocks, AddrPointers, AddrBlock

LEMMA AddrBlocksGone == pAddrInfoBuf.frames = <<>> => AddrBlocks = {}
BY DEF AddrBlocks, AddrPointers

LEMMA AddrBlocksGoneNext == pAddrInfoBuf'.frames = <<>> => AddrBlocks' = {}
BY DEF AddrBlocks, AddrPointers

LEMMA AddrBlocksAdded ==
  ASSUME Typed, Typed', NEW m, NEW fs, NEW new, NEW freed, AddrAnswer(m, fs, new, freed)
  PROVE  \A b : b \in AddrBlocks' <=> b \in AddrBlocks \/ LeadTo(fs, b)
BY AddrBlocksAre, AddrBlocksNext, AddrEffect

LEMMA KindsStep == Typed /\ Globals /\ Kinds /\ Typed' /\ AnyStep => Kinds'
<1>. SUFFICES ASSUME Typed, Globals, Kinds, Typed', AnyStep PROVE Kinds'
  OBVIOUS
<1>. USE DEF Kinds, Allocated, OneKind, Owned, nullptr
<1>a. brk \in Nat /\ brk' \in Nat
  BY DEF Typed
<1>1. CASE Passes
  <2>1. UNCHANGED <<pSanSymTool, pDataInfoBuf, pAddrInfoBuf, held, brk, unset>>
    BY <1>1 DEF Passes, globals
  <2>. QED  BY <2>1, AddrBlocksKept DEF DataBlocks
<1>2. CASE Reads
  <2>1. UNCHANGED <<pSanSymTool, pDataInfoBuf, pAddrInfoBuf, brk, unset>>
    BY <1>2 DEF Reads, globals, behind
  <2>2. AddrBlocks' = AddrBlocks /\ DataBlocks' = DataBlocks
    BY <2>1, AddrBlocksKept DEF DataBlocks
  <2>. QED  BY <1>2, <2>1, <2>2 DEF Reads
<1>3. ASSUME NEW path \in Tools, StartTool(path), InitSucceeds(path), Asks("tool") PROVE Kinds'
  <2>1. /\ brk' = brk + 3 /\ pSanSymTool' = brk + 1 /\ UNCHANGED <<held, unset>>
        /\ pDataInfoBuf' = NewData(brk + 2) /\ pAddrInfoBuf' = NewAddr(brk + 3)
    BY <1>3 DEF InitSucceeds, StartTool
  <2>2. /\ pDataInfoBuf'.self = brk + 2 /\ pAddrInfoBuf'.self = brk + 3
        /\ DataBlocks' = {} /\ pAddrInfoBuf'.frames = <<>>
    BY <2>1 DEF NewData, NewAddr, DataBlocks
  <2>3. AddrBlocks' = {}
    BY <2>2, AddrBlocksGoneNext
  <2>4. 1..brk \subseteq 1..brk' /\ {brk + 1, brk + 2, brk + 3} \subseteq 1..brk'
    BY <1>a, <2>1
  <2>. QED  BY <2>1, <2>2, <2>3, <2>4
<1>4. CASE FinishTool
  <2>1. /\ brk' = brk /\ pSanSymTool' = 0 /\ held' = {} /\ pDataInfoBuf' = NoData /\ pAddrInfoBuf' = NoAddr
    BY <1>4 DEF FinishTool, SanSymTool_fini
  <2>2. pDataInfoBuf'.self = 0 /\ pAddrInfoBuf'.self = 0 /\ DataBlocks' = {} /\ pAddrInfoBuf'.frames = <<>>
    BY <2>1 DEF NoData, NoAddr, NewData, NewAddr, DataBlocks
  <2>. QED  BY <2>1, <2>2, AddrBlocksGoneNext
<1>5. CASE SanSymTool_addr_free /\ Quiet
  <2>1. /\ UNCHANGED <<pSanSymTool, pDataInfoBuf, brk, unset>> /\ held' \subseteq held
        /\ pAddrInfoBuf' = [pAddrInfoBuf EXCEPT !.frames = <<>>]
    BY <1>5 DEF SanSymTool_addr_free, Quiet, behind
  <2>2. pAddrInfoBuf'.self = pAddrInfoBuf.self /\ pAddrInfoBuf'.frames = <<>>
    BY <2>1 DEF Typed
  <2>3. AddrBlocks' = {} /\ DataBlocks' = DataBlocks
    BY <2>1, <2>2, AddrBlocksGoneNext DEF DataBlocks
  <2>. QED  BY <2>1, <2>2, <2>3
<1>6. CASE SanSymTool_data_free /\ Quiet
  <2>1. /\ UNCHANGED <<pSanSymTool, pAddrInfoBuf, brk, unset>> /\ held' \subseteq held
        /\ pDataInfoBuf' = [pDataInfoBuf EXCEPT !.file = 0, !.name = 0]
    BY <1>6 DEF SanSymTool_data_free, Quiet, behind
  <2>2. pDataInfoBuf'.self = pDataInfoBuf.self /\ DataBlocks' = {}
    BY <2>1 DEF Typed, DataBlocks
  <2>. QED  BY <2>1, <2>2, AddrBlocksKept
<1>7. ASSUME NEW m \in Module, NEW fs, NEW new, NEW freed, AddrAnswer(m, fs, new, freed) PROVE Kinds'
  <2>1. /\ UNCHANGED <<pSanSymTool, pDataInfoBuf, held>> /\ pAddrInfoBuf'.self = pAddrInfoBuf.self
        /\ New(fs) \subseteq 1..brk' /\ 1..brk \subseteq 1..brk' /\ New(fs) \cap 1..brk = {}
        /\ ~unset' => ~unset /\ \A b : LeadTo(fs, b) => b \in New(fs)
    BY <1>7, AddrEffect
  <2>2. \A b : b \in AddrBlocks' <=> b \in AddrBlocks \/ LeadTo(fs, b)
    BY <1>7, AddrBlocksAdded
  <2>3. DataBlocks' = DataBlocks
    BY <2>1 DEF DataBlocks
  <2>4. ASSUME ~unset' PROVE OneKind'
    <3>1. OneKind /\ \A b : LeadTo(fs, b) => b \in New(fs)
      BY <2>1, <2>4
    <3>2. AddrBlocks' \subseteq 1..brk' /\ (DataBlocks \cap AddrBlocks)' = {}
      BY <2>1, <2>2, <2>3, <3>1
    <3>3. ASSUME NEW p \in held, p.of = "data" PROVE p.block \notin AddrBlocks'
      <4>1. p.block \in 1..brk /\ p.block \notin AddrBlocks
        BY <3>1, <3>3
      <4>. QED  BY <2>1, <2>2, <3>1, <4>1
    <3>. QED  BY <2>1, <2>3, <3>1, <3>2, <3>3
  <2>. QED  BY <2>1, <2>3, <2>4
<1>8. ASSUME NEW m \in Module, DataAnswer(m) PROVE Kinds'
  <2>1. /\ UNCHANGED <<pSanSymTool, pAddrInfoBuf, held, unset>> /\ brk' = brk + 2
        /\ pDataInfoBuf' = [pDataInfoBuf EXCEPT !.name = brk + 1, !.file = brk + 2, !.of = calls + 1]
    BY <1>8 DEF DataAnswer, DataSendSucceeds
  <2>2. pDataInfoBuf'.self = pDataInfoBuf.self /\ pDataInfoBuf'.name = brk + 1 /\ pDataInfoBuf'.file = brk + 2
    BY <2>1 DEF Typed
  <2>3. DataBlocks' = {brk + 1, brk + 2} /\ AddrBlocks' = AddrBlocks
    BY <1>a, <2>1, <2>2, AddrBlocksKept DEF DataBlocks
  <2>4. 1..brk \subseteq 1..brk' /\ {brk + 1, brk + 2} \subseteq 1..brk' /\ {brk + 1, brk + 2} \cap 1..brk = {}
    BY <1>a, <2>1
  <2>. QED  BY <2>1, <2>2, <2>3, <2>4
<1>. QED  BY <1>1, <1>2, <1>3, <1>4, <1>5, <1>6, <1>7, <1>8, CallCases

LEMMA NoneSharedAppended ==
  ASSUME NEW old \in Seq(FrameType), NEW fs \in Seq(FrameType), NoneShared(old), NoneShared(fs),
         \A b : ~(LeadTo(old, b) /\ LeadTo(fs, b))
  PROVE  NoneShared(old \o fs)
<1>. DEFINE all == old \o fs
<1>1. /\ Len(old) \in Nat /\ Len(fs) \in Nat /\ Len(all) = Len(old) + Len(fs)
      /\ \A k \in 1..Len(all) : all[k] = IF k <= Len(old) THEN old[k] ELSE fs[k - Len(old)]
  BY Concatenated
<1>. HIDE DEF all
<1>. SUFFICES ASSUME NEW k \in 1..Len(all), NEW n \in 1..Len(all)
              PROVE  /\ all[k].func # nullptr => all[k].func # all[n].file
                     /\ all[k].func # nullptr /\ all[k].func = all[n].func => k = n
                     /\ all[k].file # nullptr /\ all[k].file = all[n].file => k = n
  BY DEF NoneShared, all
<1>2. CASE k <= Len(old) /\ n <= Len(old)
  <2>1. k \in 1..Len(old) /\ n \in 1..Len(old) /\ all[k] = old[k] /\ all[n] = old[n]
    BY <1>1, <1>2
  <2>. QED  BY <2>1 DEF NoneShared
<1>3. CASE ~(k <= Len(old)) /\ ~(n <= Len(old))
  <2>1. /\ k - Len(old) \in 1..Len(fs) /\ n - Len(old) \in 1..Len(fs)
        /\ all[k] = fs[k - Len(old)] /\ all[n] = fs[n - Len(old)]
        /\ k - Len(old) = n - Len(old) => k = n
    BY <1>1, <1>3
  <2>. QED  BY <2>1 DEF NoneShared
<1>4. CASE k <= Len(old) /\ ~(n <= Len(old))
  <2>1. k \in 1..Len(old) /\ n - Len(old) \in 1..Len(fs) /\ all[k] = old[k] /\ all[n] = fs[n - Len(old)]
    BY <1>1, <1>4
  <2>. QED  BY <2>1 DEF LeadTo
<1>5. CASE ~(k <= Len(old)) /\ n <= Len(old)
  <2>1. n \in 1..Len(old) /\ k - Len(old) \in 1..Len(fs) /\ all[n] = old[n] /\ all[k] = fs[k - Len(old)]
    BY <1>1, <1>5
  <2>. QED  BY <2>1 DEF LeadTo
<1>. QED  BY <1>2, <1>3, <1>4, <1>5

\* As long as memory is sound, each free finds its blocks, and finds them once.
LEMMA FreesAreSound == Typed /\ OneKind /\ SoundMemory => Unshared
BY PointersAreUnshared DEF SoundMemory, OneKind, Unshared

LEMMA MemoryStep == Typed /\ Globals /\ Kinds /\ Memory /\ Typed' /\ Kinds' /\ AnyStep => Memory'
<1>. SUFFICES ASSUME Typed, Globals, Kinds, Memory, Typed', Kinds', AnyStep, ~unset' PROVE SoundMemory'
  BY DEF Memory
<1>. USE DEF Owned, nullptr
<1>a. brk \in Nat /\ heap \subseteq 1..brk /\ badfree \in BOOLEAN
  BY DEF Typed
<1>b. ASSUME ~unset PROVE SoundMemory /\ OneKind /\ Unshared
  BY <1>b, FreesAreSound DEF Memory, Kinds
<1>1. CASE Passes \/ Reads
  <2>1. UNCHANGED <<pSanSymTool, pDataInfoBuf, pAddrInfoBuf, heap, badfree, unset>>
    BY <1>1 DEF Passes, Reads, globals, behind
  <2>. QED  BY <1>b, <2>1, AddrBlocksKept DEF SoundMemory, DataBlocks
<1>2. ASSUME NEW path \in Tools, StartTool(path), InitSucceeds(path), Asks("tool") PROVE SoundMemory'
  <2>1. /\ pSanSymTool' = brk + 1 /\ UNCHANGED <<badfree, unset>>
        /\ pDataInfoBuf' = NewData(brk + 2) /\ pAddrInfoBuf' = NewAddr(brk + 3)
        /\ heap' = heap \cup {brk + 1, brk + 2, brk + 3}
    BY <1>2 DEF InitSucceeds, StartTool
  <2>2. /\ pDataInfoBuf'.self = brk + 2 /\ pAddrInfoBuf'.self = brk + 3
        /\ DataBlocks' = {} /\ pAddrInfoBuf'.frames = <<>>
    BY <2>1 DEF NewData, NewAddr, DataBlocks
  <2>3. AddrBlocks' = {} /\ NoneShared(pAddrInfoBuf'.frames)
    BY <2>2, AddrBlocksGoneNext DEF NoneShared
  <2>4. ~badfree'
    BY <1>b, <2>1 DEF SoundMemory
  <2>. QED  BY <2>1, <2>2, <2>3, <2>4 DEF SoundMemory
<1>3. CASE FinishTool
  <2>1. /\ Release({pSanSymTool, pDataInfoBuf.self, pAddrInfoBuf.self} \cup DataBlocks \cup AddrBlocks, Unshared)
        /\ pSanSymTool' = 0 /\ pDataInfoBuf' = NoData /\ pAddrInfoBuf' = NoAddr /\ UNCHANGED unset
    BY <1>3 DEF FinishTool, SanSymTool_fini
  <2>2. pDataInfoBuf'.self = 0 /\ pAddrInfoBuf'.self = 0 /\ DataBlocks' = {} /\ pAddrInfoBuf'.frames = <<>>
    BY <2>1 DEF NoData, NoAddr, NewData, NewAddr, DataBlocks
  <2>3. AddrBlocks' = {} /\ NoneShared(pAddrInfoBuf'.frames)
    BY <2>2, AddrBlocksGoneNext DEF NoneShared
  <2>4. ~badfree'
    BY <1>b, <2>1 DEF SoundMemory, Release
  <2>. QED  BY <2>1, <2>2, <2>3, <2>4 DEF SoundMemory
<1>4. CASE SanSymTool_addr_free /\ Quiet
  <2>1. /\ UNCHANGED <<pSanSymTool, pDataInfoBuf, unset>> /\ Release(AddrBlocks, Unshared)
        /\ pAddrInfoBuf' = [pAddrInfoBuf EXCEPT !.frames = <<>>]
    BY <1>4 DEF SanSymTool_addr_free, Quiet, behind
  <2>2. pAddrInfoBuf'.self = pAddrInfoBuf.self /\ pAddrInfoBuf'.frames = <<>> /\ DataBlocks' = DataBlocks
    BY <2>1 DEF Typed, DataBlocks
  <2>3. AddrBlocks' = {} /\ NoneShared(pAddrInfoBuf'.frames)
    BY <2>2, AddrBlocksGoneNext DEF NoneShared
  <2>4. ~badfree' /\ heap' = heap \ AddrBlocks
    BY <1>b, <2>1 DEF SoundMemory, Release
  <2>5. SoundMemory /\ DataBlocks \cap AddrBlocks = {}
    BY <1>b, <2>1 DEF OneKind
  <2>. QED  BY <2>1, <2>2, <2>3, <2>4, <2>5 DEF SoundMemory
<1>5. CASE SanSymTool_data_free /\ Quiet
  <2>1. /\ UNCHANGED <<pSanSymTool, pAddrInfoBuf, unset>> /\ Release(DataBlocks, TRUE)
        /\ pDataInfoBuf' = [pDataInfoBuf EXCEPT !.file = 0, !.name = 0]
    BY <1>5 DEF SanSymTool_data_free, Quiet, behind
  <2>2. pDataInfoBuf'.self = pDataInfoBuf.self /\ DataBlocks' = {} /\ AddrBlocks' = AddrBlocks
    BY <2>1, AddrBlocksKept DEF Typed, DataBlocks
  <2>3. ~badfree' /\ heap' = heap \ DataBlocks
    BY <1>b, <2>1 DEF SoundMemory, Release
  <2>4. SoundMemory /\ DataBlocks \cap AddrBlocks = {}
    BY <1>b, <2>1 DEF OneKind
  <2>. QED  BY <2>1, <2>2, <2>3, <2>4 DEF SoundMemory
<1>6. ASSUME NEW m \in Module, NEW fs, NEW new, NEW freed, AddrAnswer(m, fs, new, freed)
      PROVE  SoundMemory'
  <2>1. Shape(fs) /\ Whole(fs) /\ SoundMemory
    BY <1>6, <1>b, AddrEffect DEF AddrAnswer
  <2>2. /\ UNCHANGED <<pSanSymTool, pDataInfoBuf, badfree>> /\ pAddrInfoBuf'.self = pAddrInfoBuf.self
        /\ pAddrInfoBuf'.frames = pAddrInfoBuf.frames \o fs
        /\ New(fs) \cap 1..brk = {} /\ heap' = heap \cup new
        /\ \A b : LeadTo(fs, b) <=> b \in new
        /\ \A b \in new : b \in New(fs)
    BY <1>6, AddrEffect
  <2>3. \A b : b \in AddrBlocks' <=> b \in AddrBlocks \/ LeadTo(fs, b)
    BY <1>6, AddrBlocksAdded
  <2>5. ASSUME NEW b, LeadTo(fs, b) PROVE b \in New(fs) /\ b \in heap' /\ b \notin heap
    <3>1. b \in New(fs) /\ b \in new /\ b \notin 1..brk
      BY <2>2, <2>5
    <3>. QED  BY <1>a, <2>2, <3>1
  <2>6. DataBlocks' = DataBlocks
    BY <2>2 DEF DataBlocks
  <2>7. NoneShared(pAddrInfoBuf'.frames)
    <3>1. pAddrInfoBuf.frames \in Seq(FrameType) /\ fs \in Seq(FrameType)
      BY <2>1 DEF Typed, Shape
    <3>2. \A b : ~(LeadTo(pAddrInfoBuf.frames, b) /\ LeadTo(fs, b))
      BY <2>1, <2>5, AddrBlocksAre DEF SoundMemory
    <3>3. NoneShared(fs) /\ NoneShared(pAddrInfoBuf.frames)
      BY <1>a, <2>1, WholeAreUnshared DEF SoundMemory
    <3>. QED  BY <2>2, <3>1, <3>2, <3>3, NoneSharedAppended
  <2>8. heap \subseteq heap'
    BY <2>2
  <2>9. (Owned \cup DataBlocks \cup AddrBlocks)' \subseteq heap'
    BY <2>1, <2>2, <2>3, <2>5, <2>6, <2>8 DEF SoundMemory
  <2>10. (Owned \cap (DataBlocks \cup AddrBlocks))' = {}
    BY <2>1, <2>2, <2>3, <2>5, <2>6 DEF SoundMemory
  <2>. QED  BY <2>1, <2>2, <2>7, <2>9, <2>10 DEF SoundMemory
<1>7. ASSUME NEW m \in Module, DataAnswer(m) PROVE SoundMemory'
  <2>1. /\ UNCHANGED <<pSanSymTool, pAddrInfoBuf, badfree, unset>>
        /\ pDataInfoBuf' = [pDataInfoBuf EXCEPT !.name = brk + 1, !.file = brk + 2, !.of = calls + 1]
        /\ heap' = heap \cup {brk + 1, brk + 2}
    BY <1>7 DEF DataAnswer, DataSendSucceeds
  <2>2. pDataInfoBuf'.self = pDataInfoBuf.self /\ pDataInfoBuf'.name = brk + 1 /\ pDataInfoBuf'.file = brk + 2
    BY <2>1 DEF Typed
  <2>3. DataBlocks' = {brk + 1, brk + 2} /\ AddrBlocks' = AddrBlocks
    BY <1>a, <2>1, <2>2, AddrBlocksKept DEF DataBlocks
  <2>4. {brk + 1, brk + 2} \cap heap = {}
    BY <1>a
  <2>5. SoundMemory
    BY <1>b, <2>1
  <2>. QED  BY <2>1, <2>2, <2>3, <2>4, <2>5 DEF SoundMemory
<1>. QED  BY <1>1, <1>2, <1>3, <1>4, <1>5, <1>6, <1>7, CallCases

LEMMA KeptStep == Typed /\ Globals /\ Kept /\ Typed' /\ AnyStep => Kept'
<1>. SUFFICES ASSUME Typed, Globals, Kept, Typed', AnyStep, careful'
              PROVE  heap' \subseteq (Owned \cup DataBlocks \cup AddrBlocks)'
  BY DEF Kept
<1>. USE DEF Owned, nullptr
<1>a. heap \subseteq Owned \cup DataBlocks \cup AddrBlocks /\ brk \in Nat
  BY Numbered DEF Kept, Typed
<1>1. CASE Passes \/ Reads
  <2>1. UNCHANGED <<pSanSymTool, pDataInfoBuf, pAddrInfoBuf, heap>>
    BY <1>1 DEF Passes, Reads, globals
  <2>. QED  BY <1>a, <2>1, AddrBlocksKept DEF DataBlocks
<1>2. ASSUME NEW path \in Tools, StartTool(path), InitSucceeds(path), Asks("tool")
      PROVE  heap' \subseteq (Owned \cup DataBlocks \cup AddrBlocks)'
  <2>1. pSanSymTool = 0
    BY <1>2 DEF Asks, Globals, Initialized
  <2>2. heap = {}
    BY <1>a, <2>1, AddrBlocksGone DEF Globals, GlobalsAgree, Initialized
  <2>3. /\ pSanSymTool' = brk + 1 /\ heap' = heap \cup {brk + 1, brk + 2, brk + 3}
        /\ pDataInfoBuf' = NewData(brk + 2) /\ pAddrInfoBuf' = NewAddr(brk + 3)
    BY <1>2 DEF InitSucceeds
  <2>4. pDataInfoBuf'.self = brk + 2 /\ pAddrInfoBuf'.self = brk + 3
    BY <2>3 DEF NewData, NewAddr
  <2>. QED  BY <1>a, <2>2, <2>3, <2>4
<1>3. CASE FinishTool
  <2>1. Release({pSanSymTool, pDataInfoBuf.self, pAddrInfoBuf.self} \cup DataBlocks \cup AddrBlocks, Unshared)
    BY <1>3 DEF FinishTool, SanSymTool_fini
  <2>. QED  BY <1>a, <2>1 DEF Release
<1>4. CASE SanSymTool_addr_free /\ Quiet
  <2>1. /\ UNCHANGED <<pSanSymTool, pDataInfoBuf>> /\ heap' = heap \ AddrBlocks
        /\ pAddrInfoBuf' = [pAddrInfoBuf EXCEPT !.frames = <<>>]
    BY <1>4 DEF SanSymTool_addr_free, Release
  <2>2. pAddrInfoBuf'.self = pAddrInfoBuf.self
    BY <2>1 DEF Typed
  <2>. QED  BY <1>a, <2>1, <2>2 DEF DataBlocks
<1>5. CASE SanSymTool_data_free /\ Quiet
  <2>1. /\ UNCHANGED <<pSanSymTool, pAddrInfoBuf>> /\ heap' = heap \ DataBlocks
        /\ pDataInfoBuf' = [pDataInfoBuf EXCEPT !.file = 0, !.name = 0]
    BY <1>5 DEF SanSymTool_data_free, Release
  <2>2. pDataInfoBuf'.self = pDataInfoBuf.self
    BY <2>1 DEF Typed
  <2>. QED  BY <1>a, <2>1, <2>2, AddrBlocksKept
<1>6. ASSUME NEW m \in Module, NEW fs, NEW new, NEW freed, AddrAnswer(m, fs, new, freed)
      PROVE  heap' \subseteq (Owned \cup DataBlocks \cup AddrBlocks)'
  <2>1. /\ UNCHANGED <<pSanSymTool, pDataInfoBuf>> /\ pAddrInfoBuf'.self = pAddrInfoBuf.self
        /\ heap' \subseteq heap \cup new /\ \A b \in new : LeadTo(fs, b)
    BY <1>6, AddrEffect
  <2>2. \A b : b \in AddrBlocks' <=> b \in AddrBlocks \/ LeadTo(fs, b)
    BY <1>6, AddrBlocksAdded
  <2>. QED  BY <1>a, <2>1, <2>2 DEF DataBlocks
<1>7. ASSUME NEW m \in Module, DataAnswer(m)
      PROVE  heap' \subseteq (Owned \cup DataBlocks \cup AddrBlocks)'
  <2>0. "data" \notin owed
    <3>1. Asks("data")
      BY <1>7 DEF DataAnswer
    <3>. QED  BY <3>1, Zenon DEF Asks
  <2>1. /\ UNCHANGED <<pSanSymTool, pAddrInfoBuf>>
        /\ pDataInfoBuf' = [pDataInfoBuf EXCEPT !.name = brk + 1, !.file = brk + 2, !.of = calls + 1]
        /\ heap' = heap \cup {brk + 1, brk + 2}
    BY <1>7 DEF DataAnswer, DataSendSucceeds
  <2>2. pDataInfoBuf'.self = pDataInfoBuf.self /\ pDataInfoBuf'.name = brk + 1 /\ pDataInfoBuf'.file = brk + 2
    BY <2>1 DEF Typed
  <2>3. DataBlocks' = {brk + 1, brk + 2} /\ AddrBlocks' = AddrBlocks /\ DataBlocks = {}
    <3>1. AddrBlocks' = AddrBlocks
      BY <2>1, AddrBlocksKept
    <3>2. DataBlocks = {}
      BY <2>0 DEF Globals
    <3>3. DataBlocks' = {brk + 1, brk + 2}
      <4>1. brk \in Nat
        BY DEF Typed
      <4>. QED  BY <2>2, <4>1 DEF DataBlocks
    <3>. QED  BY <3>1, <3>2, <3>3
  <2>. QED  BY <1>a, <2>1, <2>2, <2>3
<1>. QED  BY <1>1, <1>2, <1>3, <1>4, <1>5, <1>6, <1>7, CallCases

-----------------------------------------------------------------------------
(* Results and requests                                                    *)

\* The account of the latest requests, against the buffers.
LEMMA RequestCases ==
  ASSUME Typed, AnyStep
  PROVE  \/ UNCHANGED <<latest, pAddrInfoBuf, pDataInfoBuf>>
         \/ pAddrInfoBuf'.frames = <<>> /\ latest' = NoRequest
         \/ pAddrInfoBuf'.frames = <<>> /\ UNCHANGED <<latest, pDataInfoBuf>>
         \/ pDataInfoBuf'.of = pDataInfoBuf.of /\ UNCHANGED <<latest, pAddrInfoBuf>>
         \/ \E kind \in {"addr", "data"} : /\ Asks(kind) /\ latest' = [latest EXCEPT ![kind] = 0]
                                           /\ UNCHANGED <<pAddrInfoBuf, pDataInfoBuf>>
         \/ \E m \in Module : \E fs, new, freed : AddrAnswer(m, fs, new, freed)
         \/ \E m \in Module : DataAnswer(m)
<1>. USE DEF globals, behind
<1>1. ASSUME NEW path \in Paths, StartTool(path)
      PROVE  \/ UNCHANGED <<latest, pAddrInfoBuf, pDataInfoBuf>>
             \/ pAddrInfoBuf'.frames = <<>> /\ latest' = NoRequest
  <2>1. CASE InitFails(path)
    BY <1>1, <2>1 DEF StartTool, InitFails, Tools
  <2>2. CASE InitSucceeds(path)
    BY <1>1, <2>2 DEF StartTool, InitSucceeds, NewAddr
  <2>. QED  BY <1>1, <2>1, <2>2 DEF StartTool, SanSymTool_init
<1>2. CASE FinishTool
  BY <1>2 DEF FinishTool, SanSymTool_fini, NoAddr, NewAddr
<1>3. ASSUME NEW m \in Module, SendAddr(m)
      PROVE  \/ \E fs, new, freed : AddrAnswer(m, fs, new, freed)
             \/ /\ Asks("addr") /\ latest' = [latest EXCEPT !["addr"] = 0]
                /\ UNCHANGED <<pAddrInfoBuf, pDataInfoBuf>>
  BY <1>3, AddrCases, BoundAssumption DEF Passes, Refused, NoAnswer
<1>4. ASSUME NEW m \in Module, SendData(m)
      PROVE  \/ DataAnswer(m)
             \/ /\ Asks("data") /\ latest' = [latest EXCEPT !["data"] = 0]
                /\ UNCHANGED <<pAddrInfoBuf, pDataInfoBuf>>
  BY <1>4 DEF SendData, SendFails, Refused, NoAnswer, DataAnswer
<1>5. ASSUME NEW m, NEW kind, HostDies(kind, m) PROVE UNCHANGED <<latest, pAddrInfoBuf, pDataInfoBuf>>
  BY <1>5 DEF HostDies
<1>6. ASSUME NEW idx, SanSymTool_addr_read(idx), Quiet PROVE UNCHANGED <<latest, pAddrInfoBuf, pDataInfoBuf>>
  BY <1>6 DEF SanSymTool_addr_read, Quiet
<1>7. CASE (AddrReadFails \/ SanSymTool_data_read) /\ Quiet
  BY <1>7 DEF AddrReadFails, SanSymTool_data_read, Quiet
<1>8. CASE SanSymTool_addr_free /\ Quiet
  BY <1>8 DEF SanSymTool_addr_free, Quiet, Typed
<1>9. CASE SanSymTool_data_free /\ Quiet
  <2>1. /\ pDataInfoBuf' = [pDataInfoBuf EXCEPT !.file = nullptr, !.name = nullptr]
        /\ UNCHANGED <<latest, pAddrInfoBuf>>
    BY <1>9 DEF SanSymTool_data_free, Quiet
  <2>2. pDataInfoBuf'.of = pDataInfoBuf.of
    BY <2>1 DEF Typed
  <2>. QED  BY <2>1, <2>2
<1>10. CASE UNCHANGED svars
  BY <1>10 DEF svars, vars
<1>. QED
  BY <1>1, <1>2, <1>3, <1>4, <1>5, <1>6, <1>7, <1>8, <1>9, <1>10 DEF AnyStep, AnyCall

LEMMA FramesStep == Typed /\ Globals /\ FramesAnswerLatest /\ Typed' /\ AnyStep => FramesAnswerLatest'
<1>. SUFFICES ASSUME Typed, Globals, FramesAnswerLatest, Typed', AnyStep, careful'
              PROVE  \A k \in DOMAIN pAddrInfoBuf'.frames : pAddrInfoBuf'.frames[k].of = latest'["addr"]
  BY DEF FramesAnswerLatest
<1>a. /\ latest \in [{"addr", "data"} -> Nat]
      /\ \A k \in DOMAIN pAddrInfoBuf.frames : pAddrInfoBuf.frames[k].of = latest["addr"]
  BY Numbered DEF Typed, FramesAnswerLatest
<1>b. ASSUME Asks("addr") PROVE pAddrInfoBuf.frames = <<>>
  <2>1. "addr" \notin owed
    BY <1>b, Zenon DEF Asks
  <2>. QED  BY <2>1 DEF Globals
<1>1. CASE UNCHANGED <<latest, pAddrInfoBuf>>
  BY <1>a, <1>1
<1>2. CASE pAddrInfoBuf'.frames = <<>>
  BY <1>2
<1>3. ASSUME NEW kind \in {"addr", "data"}, Asks(kind), latest' = [latest EXCEPT ![kind] = 0],
             UNCHANGED pAddrInfoBuf
      PROVE  \A k \in DOMAIN pAddrInfoBuf'.frames : pAddrInfoBuf'.frames[k].of = latest'["addr"]
  BY <1>a, <1>b, <1>3
<1>4. ASSUME NEW m \in Module, NEW fs, NEW new, NEW freed, AddrAnswer(m, fs, new, freed)
      PROVE  \A k \in DOMAIN pAddrInfoBuf'.frames : pAddrInfoBuf'.frames[k].of = latest'["addr"]
  <2>1. /\ latest' = [latest EXCEPT !["addr"] = calls + 1] /\ Asks("addr")
        /\ fs \in Seq(FrameType) /\ \A k \in 1..Len(fs) : fs[k].of = calls + 1
    BY <1>4 DEF AddrAnswer, Answered, Shape
  <2>2. pAddrInfoBuf'.frames = fs
    <3>1. pAddrInfoBuf.frames = <<>>
      BY <1>b, <2>1
    <3>2. pAddrInfoBuf'.frames = pAddrInfoBuf.frames \o fs
      BY <1>4, AddrEffect
    <3>. QED  BY ONLY <2>1, <3>1, <3>2
  <2>3. latest'["addr"] = calls + 1
    BY <1>a, <2>1
  <2>. QED  BY <2>1, <2>2, <2>3
<1>5. ASSUME NEW m \in Module, DataAnswer(m)
      PROVE  \A k \in DOMAIN pAddrInfoBuf'.frames : pAddrInfoBuf'.frames[k].of = latest'["addr"]
  <2>1. latest' = [latest EXCEPT !["data"] = calls + 1] /\ UNCHANGED pAddrInfoBuf
    BY <1>5 DEF DataAnswer, DataSendSucceeds, Answered
  <2>. QED  BY <1>a, <2>1
<1>. QED  BY <1>1, <1>2, <1>3, <1>4, <1>5, RequestCases

LEMMA CommandStep == CommandsAreWhole /\ AnyStep => CommandsAreWhole'
<1>. SUFFICES ASSUME CommandsAreWhole, AnyStep PROVE CommandsAreWhole'
  OBVIOUS
<1>1. CASE UNCHANGED sent \/ sent' = NoCommand
  BY <1>1 DEF CommandsAreWhole, NoCommand
<1>2. ASSUME NEW m \in Module, NEW kind, Refused(kind, m) \/ Answered(kind, m) PROVE CommandsAreWhole'
  <2>1. CASE sent' = NoCommand
    BY <1>1, <2>1
  <2>2. CASE Fits(m) /\ RunningThisTool # "addr2line" /\ sent' = Formatted(m)
    <3>1. sent' = [length |-> CommandLength[m], sent |-> CommandLength[m]]
      BY <2>2 DEF Fits, Formatted
    <3>. QED  BY <3>1 DEF CommandsAreWhole
  <2>. QED  BY <1>2, <2>1, <2>2 DEF Refused, Answered, Reaches
<1>3. ASSUME NEW m \in Module, SendAddr(m) \/ SendData(m) PROVE CommandsAreWhole'
  BY <1>2, <1>3 DEF SendAddr, SendData
<1>4. ASSUME NEW path, StartTool(path) PROVE CommandsAreWhole'
  BY <1>1, <1>4 DEF StartTool
<1>5. ASSUME NEW m, NEW kind, HostDies(kind, m) PROVE CommandsAreWhole'
  BY <1>1, <1>5 DEF HostDies, behind
<1>6. CASE FinishTool \/ Quiet \/ UNCHANGED svars
  BY <1>1, <1>6 DEF FinishTool, Quiet, behind, svars
<1>. QED  BY <1>3, <1>4, <1>5, <1>6 DEF AnyStep, AnyCall

LEMMA FiniStep ==
  Typed /\ Kept /\ Processes /\ FiniReleasesAll /\ AnyStep => FiniReleasesAll'
<1>. SUFFICES ASSUME Typed, Kept, Processes, FiniReleasesAll, AnyStep PROVE FiniReleasesAll'
  OBVIOUS
<1>1. CASE FinishTool
  <2>1. /\ Release({pSanSymTool, pDataInfoBuf.self, pAddrInfoBuf.self} \cup DataBlocks \cup AddrBlocks, Unshared)
        /\ UNCHANGED careful /\ procs' = procs \ Mine
    BY <1>1 DEF FinishTool, SanSymTool_fini
  <2>. QED  BY <2>1 DEF FiniReleasesAll, Release, Kept, Owned, Processes
<1>2. CASE UNCHANGED svars
  BY <1>2 DEF svars, vars, behind, FiniReleasesAll
<1>3. CASE call'.fn # "fini"
  BY <1>3 DEF FiniReleasesAll
<1>4. ASSUME NEW path, StartTool(path) PROVE call'.fn # "fini"
  BY <1>4 DEF StartTool, SanSymTool_init, InitFails, InitSucceeds, Call
<1>5. ASSUME NEW m \in Module, SendAddr(m) PROVE call'.fn # "fini"
  <2>1. \A fs, new, freed : AddrSendSucceeds(fs, new, freed) => call'.fn # "fini"
    BY DEF AddrSendSucceeds, Call
  <2>2. SendFails("addr_send") => call'.fn # "fini"
    BY DEF SendFails, Call
  <2>. QED  BY <1>5, <2>1, <2>2 DEF SendAddr, FileUnset
<1>6. ASSUME NEW m \in Module, SendData(m) PROVE call'.fn # "fini"
  BY <1>6 DEF SendData, SendFails, DataSendSucceeds, Call
<1>7. ASSUME NEW m, NEW kind, HostDies(kind, m) PROVE call'.fn # "fini"
  BY <1>7 DEF HostDies, Call
<1>8. ASSUME NEW idx, SanSymTool_addr_read(idx) PROVE call'.fn # "fini"
  BY <1>8 DEF SanSymTool_addr_read, Call
<1>9. CASE AddrReadFails \/ SanSymTool_addr_free \/ SanSymTool_data_read \/ SanSymTool_data_free
  <2>1. AddrReadFails => call'.fn # "fini"
    BY DEF AddrReadFails, Call
  <2>2. SanSymTool_addr_free => call'.fn # "fini"
    BY DEF SanSymTool_addr_free, Call
  <2>3. SanSymTool_data_read => call'.fn # "fini"
    BY DEF SanSymTool_data_read, Call
  <2>4. SanSymTool_data_free => call'.fn # "fini"
    BY DEF SanSymTool_data_free, Call
  <2>. QED  BY <1>3, <1>9, <2>1, <2>2, <2>3, <2>4
<1>. QED
  BY <1>1, <1>2, <1>3, <1>4, <1>5, <1>6, <1>7, <1>8, <1>9 DEF AnyStep, AnyCall

-----------------------------------------------------------------------------
(* The theorems                                                            *)

Answers == FramesAnswerLatest /\ CommandsAreWhole /\ FiniReleasesAll

SessionInv == Typed /\ Globals /\ Kinds /\ Memory /\ Kept /\ Processes /\ Answers

LEMMA SessionInvInit == SessionInit => SessionInv
<1>. SUFFICES ASSUME SessionInit PROVE SessionInv
  OBVIOUS
<1>. USE DEF SessionInit, Init, nullptr
<1>1. /\ pDataInfoBuf \in [self : Nat, file : Nat, name : Nat, of : Nat]
      /\ pAddrInfoBuf \in [self : Nat, frames : Seq(FrameType)]
      /\ latest \in [{"addr", "data"} -> Nat]
      /\ pDataInfoBuf.self = 0 /\ pAddrInfoBuf.self = 0
      /\ DataBlocks = {} /\ pAddrInfoBuf.frames = <<>>
  BY DEF NoData, NoAddr, NewData, NewAddr, NoRequest, DataBlocks
<1>2. AddrBlocks = {}
  BY <1>1, AddrBlocksGone
<1>3. Typed /\ Globals
  BY <1>1 DEF Typed, Globals, GlobalsAgree, Initialized
<1>4. Kinds /\ Memory /\ Kept
  BY <1>1, <1>2 DEF Kinds, Allocated, OneKind, Memory, SoundMemory, NoneShared, Kept, Owned
<1>5. Processes
  BY DEF Processes, Mine
<1>6. Answers
  BY <1>1 DEF Answers, FramesAnswerLatest, CommandsAreWhole, FiniReleasesAll, NoCommand
<1>. QED  BY <1>3, <1>4, <1>5, <1>6 DEF SessionInv

LEMMA SessionInvStep == SessionInv /\ AnyStep => SessionInv'
<1>. SUFFICES ASSUME SessionInv, AnyStep PROVE SessionInv'
  OBVIOUS
<1>. USE DEF SessionInv
<1>1. Typed'
  BY TypedStep
<1>2. Globals' /\ Kinds' /\ Kept' /\ Processes'
  BY <1>1, GlobalsStep, KindsStep, KeptStep, ProcessesStep
<1>3. Memory'
  BY <1>1, <1>2, MemoryStep
<1>4. Answers'
  BY <1>1, FramesStep, CommandStep, FiniStep DEF Answers
<1>. QED  BY <1>1, <1>2, <1>3, <1>4

LEMMA SessionInvHolds == SessionSpec => []SessionInv
<1>1. [SessionNext]_svars => AnyStep
  BY DEF SessionNext, Over, AnyStep
<1>. QED  BY <1>1, SessionInvInit, SessionInvStep, PTL DEF SessionSpec

\* Only the free function of its kind, or fini, frees a string that was read.
LEMMA HeldStep ==
  Typed /\ Kinds /\ AnyStep /\ ~unset'
    => \A p \in held : p \in held' /\ p.block \in heap => p.block \in heap'
<1>. SUFFICES ASSUME Typed, Kinds, AnyStep, ~unset', NEW p \in held, p \in held', p.block \in heap
              PROVE  p.block \in heap'
  OBVIOUS
<1>a. ASSUME UNCHANGED unset
      PROVE  /\ p.of \in {"addr", "data"}
             /\ p.of = "addr" => p.block \notin DataBlocks
             /\ p.of = "data" => p.block \notin AddrBlocks
  BY <1>a DEF Kinds, OneKind
<1>1. CASE heap \subseteq heap'
  BY <1>1
<1>2. CASE FinishTool
  BY <1>2 DEF FinishTool, SanSymTool_fini
<1>3. CASE SanSymTool_addr_free /\ Quiet
  <2>1. p.of # "addr" /\ heap' = heap \ AddrBlocks /\ UNCHANGED unset
    BY <1>3 DEF SanSymTool_addr_free, Release, Quiet, behind
  <2>. QED  BY <1>a, <2>1
<1>4. CASE SanSymTool_data_free /\ Quiet
  <2>1. p.of # "data" /\ heap' = heap \ DataBlocks /\ UNCHANGED unset
    BY <1>4 DEF SanSymTool_data_free, Release, Quiet, behind
  <2>. QED  BY <1>a, <2>1
<1>5. ASSUME NEW path, InitSucceeds(path) PROVE heap \subseteq heap'
  BY <1>5 DEF InitSucceeds
<1>6. ASSUME NEW m, NEW fs, NEW new, NEW freed, AddrAnswer(m, fs, new, freed) PROVE heap \subseteq heap'
  BY <1>6, AddrEffect
<1>7. ASSUME NEW m, DataAnswer(m) PROVE heap \subseteq heap'
  BY <1>7 DEF DataAnswer, DataSendSucceeds
<1>8. CASE Passes \/ Reads
  BY <1>8 DEF Passes, Reads
<1>. QED  BY <1>1, <1>2, <1>3, <1>4, <1>5, <1>6, <1>7, <1>8, CallCases

\* The globals come and go together, in any order of calls.
THEOREM GlobalsStayInStep == SessionSpec => []GlobalsAgree
<1>1. SessionInv => GlobalsAgree
  BY DEF SessionInv, Globals
<1>. QED  BY <1>1, SessionInvHolds, PTL

LEMMA SoundMemoryIsMeant == SessionInv => MemoryIsSound
<1>. SUFFICES ASSUME SessionInv, ~unset
              PROVE  /\ NoBadFree /\ Unshared
                     /\ {pSanSymTool, pDataInfoBuf.self, pAddrInfoBuf.self} \cup DataBlocks \cup AddrBlocks
                          \subseteq heap \cup {nullptr}
  BY DEF MemoryIsSound
<1>1. SoundMemory /\ Unshared
  BY FreesAreSound DEF SessionInv, Memory, Kinds
<1>. QED  BY <1>1 DEF SoundMemory, NoBadFree, Owned

\* As long as every frame came with its file, no order of calls frees twice, leaves a
\* pointer dangling or gives one block two owners.
THEOREM MemoryStaysSound == SessionSpec => []MemoryIsSound
BY SessionInvHolds, SoundMemoryIsMeant, PTL

\* As long as every frame came with its file, a string that was read stays allocated
\* until the caller frees its kind, or finishes.
THEOREM StringsStayUntilFreed == SessionSpec => HeldUntilFreed
<1>1. SessionInv /\ [SessionNext]_svars
        => [~unset' => \A p \in held : p \in held' /\ p.block \in heap => p.block \in heap']_svars
  BY HeldStep DEF SessionInv, SessionNext, Over, AnyStep
<1>. QED  BY <1>1, SessionInvHolds, PTL DEF SessionSpec, HeldUntilFreed

\* A careful caller gets all memory back, and leaves no process behind.
THEOREM FiniGivesBack == SessionSpec => []FiniReleasesAll
<1>1. SessionInv => FiniReleasesAll
  BY DEF SessionInv, Answers
<1>. QED  BY <1>1, SessionInvHolds, PTL

\* A careful caller reads frames of its latest request only.
THEOREM FramesAreOfLatest == SessionSpec => []FramesAnswerLatest
<1>1. SessionInv => FramesAnswerLatest
  BY DEF SessionInv, Answers
<1>. QED  BY <1>1, SessionInvHolds, PTL

\* No command reaches a process without its end, however long the name of the binary.
THEOREM CommandsArriveWhole == SessionSpec => []CommandsAreWhole
<1>1. SessionInv => CommandsAreWhole
  BY DEF SessionInv, Answers
<1>. QED  BY <1>1, SessionInvHolds, PTL

\* With a careful caller no process outlives its tool.
THEOREM NoProcessIsLost == SessionSpec => []ProcessesAreOwned
<1>1. SessionInv => ProcessesAreOwned
  BY DEF SessionInv, Processes, ProcessesAreOwned
<1>. QED  BY <1>1, SessionInvHolds, PTL

-----------------------------------------------------------------------------
(* The processes of the tool in use                                        *)

\* No more processes than the tool may have, and one for each key it looks for.
ProcessesAreBounded ==
  /\ Cardinality(Mine) <= IF RunningThisTool = "llvm-symbolizer" THEN 1 ELSE POOLMAX
  /\ \A p, q \in Mine : p.module = q.module => p = q

\* A set of processes the tool may have.
FitsTool(S) ==
  /\ IsFiniteSet(S) /\ Cardinality(S) <= POOLMAX
  /\ \A p, q \in S : p.module = q.module => p = q
  /\ RunningThisTool = "llvm-symbolizer" => \A p \in S : p.module = All

MineFit == FitsTool(Mine)

OfTool(S) == {p \in S : p.tool = pSanSymTool}

LEMMA SingletonFits ==
  ASSUME NEW p, RunningThisTool = "llvm-symbolizer" => p.module = All
  PROVE  FitsTool({p})
<1>1. IsFiniteSet({p}) /\ Cardinality({p}) = 1
  BY FS_Singleton
<1>. QED  BY <1>1, LimitAssumption DEF FitsTool

\* A tool that has just been started.
FewMine == Mine = {} \/ \E p : Mine = {p} /\ p.module = All

LEMMA FewFit == FewMine => MineFit
<1>1. FitsTool({})
  BY FS_EmptySet, LimitAssumption DEF FitsTool
<1>. QED  BY <1>1, SingletonFits DEF MineFit, FewMine

LEMMA FewFitNext == FewMine' => MineFit'
BY FewFit, PTL

\* Making room for the process that is asked for keeps the bound and the keys apart.
LEMMA LookupFits ==
  ASSUME NEW m \in Module, MineFit PROVE FitsTool(OfTool(WithProcess(m)))
<1>. DEFINE new == Process(pSanSymTool, Key(m))
            W   == WithProcess(m)
<1>1. new.tool = pSanSymTool /\ new.module = Key(m)
  BY DEF Process
<1>2. RunningThisTool = "llvm-symbolizer" => new.module = All
  BY <1>1 DEF Key
<1>. HIDE DEF new
<1>3. CASE \E p \in Mine : p.module = Key(m)
  <2>1. OfTool(W) = Mine
    BY <1>3 DEF WithProcess, OfTool, Mine
  <2>. QED  BY <2>1 DEF MineFit
<1>4. CASE ~(\E p \in Mine : p.module = Key(m)) /\ Cardinality(Mine) >= POOLMAX
  <2>1. W = (procs \ Mine) \cup {new}
    BY <1>4 DEF WithProcess, new
  <2>2. OfTool(W) = {new}
    BY <1>1, <2>1 DEF OfTool, Mine
  <2>. QED  BY <1>2, <2>2, SingletonFits
<1>5. CASE ~(\E p \in Mine : p.module = Key(m)) /\ ~(Cardinality(Mine) >= POOLMAX)
  <2>1. W = procs \cup {new}
    BY <1>5 DEF WithProcess, new
  <2>2. OfTool(W) = Mine \cup {new}
    BY <1>1, <2>1 DEF OfTool, Mine
  <2>3. IsFiniteSet(Mine) /\ Cardinality(Mine) \in Nat /\ POOLMAX \in Nat
    BY FS_CardinalityType, LimitAssumption DEF MineFit, FitsTool
  <2>4. IsFiniteSet(Mine \cup {new}) /\ Cardinality(Mine \cup {new}) <= Cardinality(Mine) + 1
    <3>1. /\ IsFiniteSet(Mine \cup {new})
          /\ Cardinality(Mine \cup {new}) = IF new \in Mine THEN Cardinality(Mine) ELSE Cardinality(Mine) + 1
      BY ONLY <2>3, FS_AddElement
    <3>. QED  BY ONLY <2>3, <3>1
  <2>5. Cardinality(Mine \cup {new}) \in Nat
    BY <2>4, FS_CardinalityType
  <2>6. Cardinality(Mine \cup {new}) <= POOLMAX
    BY <1>5, <2>3, <2>4, <2>5
  <2>7. \A p, q \in Mine \cup {new} : p.module = q.module => p = q
    BY <1>1, <1>5 DEF MineFit, FitsTool
  <2>. QED  BY <1>2, <2>2, <2>4, <2>6, <2>7 DEF MineFit, FitsTool
<1>. QED  BY <1>3, <1>4, <1>5

\* A process that is marked as failed keeps its place.
LEMMA MarkedFits ==
  ASSUME NEW S, FitsTool(S), NEW p \in S, NEW marked, marked.module = p.module
  PROVE  FitsTool((S \ {p}) \cup {marked})
<1>. DEFINE T == S \ {p}
<1>1. IsFiniteSet(S) /\ Cardinality(S) \in Nat /\ Cardinality(S) <= POOLMAX /\ POOLMAX \in Nat
  BY FS_CardinalityType, LimitAssumption DEF FitsTool
<1>2. IsFiniteSet(T) /\ Cardinality(T) = Cardinality(S) - 1
  BY <1>1, FS_RemoveElement
<1>. HIDE DEF T
<1>3. IsFiniteSet(T \cup {marked}) /\ Cardinality(T \cup {marked}) <= Cardinality(T) + 1
  <2>1. Cardinality(T) \in Nat
    BY <1>2, FS_CardinalityType
  <2>2. /\ IsFiniteSet(T \cup {marked})
        /\ Cardinality(T \cup {marked}) = IF marked \in T THEN Cardinality(T) ELSE Cardinality(T) + 1
    BY ONLY <1>2, FS_AddElement
  <2>. QED  BY ONLY <2>1, <2>2
<1>4. Cardinality(T \cup {marked}) \in Nat
  BY <1>3, FS_CardinalityType
<1>5. Cardinality(T \cup {marked}) <= POOLMAX
  BY <1>1, <1>2, <1>3, <1>4
<1>6. \A q \in T : q \in S /\ q.module # marked.module
  BY DEF T, FitsTool
<1>7. \A q, r \in T \cup {marked} : q.module = r.module => q = r
  BY <1>6 DEF FitsTool
<1>8. RunningThisTool = "llvm-symbolizer" => \A q \in T \cup {marked} : q.module = All
  BY <1>6 DEF FitsTool
<1>. QED  BY <1>3, <1>5, <1>7, <1>8 DEF FitsTool, T

\* What a request does to the processes of the tool.
Serves(m) == UNCHANGED <<RunningThisTool, pSanSymTool>> /\ (procs' = procs \/ procs' = WithProcess(m) \/ GivesUp(m))

LEMMA ServesFits == ASSUME Typed, MineFit, NEW m \in Module, Serves(m) PROVE MineFit'
<1>1. \A S : FitsTool(S) => FitsTool(S)'
  BY DEF Serves, FitsTool
<1>2. CASE procs' = procs
  BY <1>1, <1>2 DEF Serves, MineFit, Mine
<1>3. CASE procs' = WithProcess(m)
  <2>1. Mine' = OfTool(WithProcess(m))
    BY <1>3 DEF Serves, OfTool, Mine
  <2>. QED  BY <2>1, LookupFits DEF Serves, MineFit, FitsTool
<1>4. CASE GivesUp(m)
  <2>. DEFINE W == WithProcess(m)
  <2>1. PICK p \in W : p.tool = pSanSymTool /\ procs' = (W \ {p}) \cup {[p EXCEPT !.failed = TRUE]}
    BY <1>4 DEF GivesUp
  <2>2. p \in ProcessType
    BY ProcessIsTyped DEF Typed
  <2>. DEFINE marked == [p EXCEPT !.failed = TRUE]
  <2>3. marked.tool = pSanSymTool /\ marked.module = p.module
    BY <2>1, <2>2 DEF ProcessType
  <2>. HIDE DEF marked, W
  <2>4. Mine' = (OfTool(W) \ {p}) \cup {marked}
    BY <2>1, <2>3 DEF Serves, Mine, OfTool, marked
  <2>5. p \in OfTool(W) /\ FitsTool(OfTool(W))
    BY <2>1, LookupFits DEF OfTool, W
  <2>6. FitsTool((OfTool(W) \ {p}) \cup {marked})
    BY <2>3, <2>5, MarkedFits
  <2>. QED  BY <2>4, <2>6 DEF Serves, MineFit, FitsTool
<1>. QED  BY <1>2, <1>3, <1>4 DEF Serves

LEMMA MineStep == Typed /\ Kinds /\ Processes /\ MineFit /\ AnyStep => MineFit'
<1>. SUFFICES ASSUME Typed, Kinds, Processes, MineFit, AnyStep PROVE MineFit'
  OBVIOUS
<1>. USE DEF globals, behind
<1>a. brk \in Nat /\ \A p \in procs : p.tool \in 1..brk
  BY DEF Typed, Processes
<1>b. ASSUME UNCHANGED <<RunningThisTool, pSanSymTool, procs>> PROVE MineFit'
  BY <1>b DEF MineFit, FitsTool, Mine
<1>1. ASSUME NEW path \in Paths, StartTool(path) PROVE MineFit'
  <2>1. CASE InitFails(path)
    BY <1>1, <1>b, <2>1 DEF StartTool, InitFails
  <2>2. CASE InitSucceeds(path) /\ path = "llvm-symbolizer"
    <3>. DEFINE new == Process(brk + 1, All)
    <3>1. pSanSymTool' = brk + 1 /\ procs' = procs \cup {new}
      BY <1>1, <2>2 DEF StartTool, InitSucceeds
    <3>2. new.tool = brk + 1 /\ new.module = All
      BY DEF Process
    <3>. HIDE DEF new
    <3>3. Mine' = {new}
      BY <1>a, <3>1, <3>2 DEF Mine
    <3>. QED  BY <3>2, <3>3, FewFitNext DEF FewMine
  <2>3. CASE InitSucceeds(path) /\ path # "llvm-symbolizer"
    <3>1. pSanSymTool' = brk + 1 /\ procs' = procs
      BY <1>1, <2>3 DEF StartTool, InitSucceeds
    <3>2. Mine' = {}
      BY <1>a, <3>1 DEF Mine
    <3>. QED  BY <3>2, FewFitNext DEF FewMine
  <2>. QED  BY <1>1, <2>1, <2>2, <2>3 DEF StartTool, SanSymTool_init
<1>2. CASE FinishTool
  <2>1. pSanSymTool' = 0 /\ procs' \subseteq procs
    BY <1>2 DEF FinishTool, SanSymTool_fini, nullptr
  <2>2. Mine' = {}
    BY <1>a, <2>1 DEF Mine
  <2>. QED  BY <2>2, FewFitNext DEF FewMine
<1>3. ASSUME NEW m \in Module, SendAddr(m) \/ SendData(m) PROVE MineFit'
  <2>1. UNCHANGED <<RunningThisTool, pSanSymTool>>
    <3>1. \A fs, new, freed : AddrSendSucceeds(fs, new, freed) => UNCHANGED <<RunningThisTool, pSanSymTool>>
      BY DEF AddrSendSucceeds
    <3>2. \A fn : SendFails(fn) => UNCHANGED <<RunningThisTool, pSanSymTool>>
      BY DEF SendFails
    <3>3. DataSendSucceeds => UNCHANGED <<RunningThisTool, pSanSymTool>>
      BY DEF DataSendSucceeds
    <3>. QED  BY <1>3, <3>1, <3>2, <3>3 DEF SendAddr, SendData, FileUnset
  <2>2. \E kind \in {"addr", "data"} : Refused(kind, m) \/ Answered(kind, m)
    BY <1>3 DEF SendAddr, SendData
  <2>3. Serves(m)
    BY <2>1, <2>2 DEF Serves, Refused, Answered, Replies
  <2>. QED  BY <2>3, ServesFits
<1>4. ASSUME NEW m, NEW kind, HostDies(kind, m) PROVE MineFit'
  BY <1>4, <1>b DEF HostDies
<1>5. ASSUME NEW idx, SanSymTool_addr_read(idx), Quiet PROVE MineFit'
  BY <1>5, <1>b DEF SanSymTool_addr_read, Quiet
<1>6. CASE (AddrReadFails \/ SanSymTool_addr_free \/ SanSymTool_data_read \/ SanSymTool_data_free) /\ Quiet
  <2>1. UNCHANGED <<RunningThisTool, pSanSymTool, procs>>
    BY <1>6 DEF AddrReadFails, SanSymTool_addr_free, SanSymTool_data_read, SanSymTool_data_free, Quiet
  <2>. QED  BY <1>b, <2>1
<1>7. CASE UNCHANGED svars
  BY <1>7, <1>b DEF svars, vars
<1>. QED  BY <1>1, <1>2, <1>3, <1>4, <1>5, <1>6, <1>7 DEF AnyStep, AnyCall

LEMMA MineFitHolds == SessionSpec => []MineFit
<1>1. SessionInit => MineFit
  <2>1. SessionInit => Mine = {}
    BY DEF SessionInit, Mine
  <2>. QED  BY <2>1, FewFit DEF FewMine
<1>2. SessionInv /\ MineFit /\ [SessionNext]_svars => MineFit'
  <2>1. [SessionNext]_svars => AnyStep
    BY DEF SessionNext, Over, AnyStep
  <2>. QED  BY <2>1, MineStep DEF SessionInv
<1>. QED  BY <1>1, <1>2, SessionInvHolds, PTL DEF SessionSpec

\* Whoever calls and in whatever order, a tool has at most one process for each binary
\* it is asked about and no more than POOLMAX of them, llvm-symbolizer at most one
\* (Addr2LinePool::SendCommand, the constructor of LLVMSymbolizer).
THEOREM ProcessesStayBounded == SessionSpec => []ProcessesAreBounded
<1>1. MineFit => ProcessesAreBounded
  <2>1. ASSUME MineFit, RunningThisTool = "llvm-symbolizer" PROVE Cardinality(Mine) <= 1
    <3>1. IsFiniteSet(Mine) /\ \A p, q \in Mine : p = q
      BY <2>1 DEF MineFit, FitsTool
    <3>2. CASE Mine = {}
      BY <3>2, FS_EmptySet
    <3>3. CASE Mine # {}
      <4>1. PICK p : Mine = {p}
        BY <3>1, <3>3
      <4>2. Cardinality({p}) = 1
        BY FS_Singleton
      <4>. QED  BY ONLY <4>1, <4>2
    <3>. QED  BY <3>2, <3>3
  <2>. QED  BY <2>1 DEF MineFit, FitsTool, ProcessesAreBounded
<1>. QED  BY <1>1, MineFitHolds, PTL

-----------------------------------------------------------------------------
(* The pool behind the interface is a ProcessSet                           *)

Bare(p) == [module |-> p.module, failed |-> p.failed]
Shown   == {Bare(p) : p \in Mine}

Pool == INSTANCE ProcessSet WITH
  phase <- "idle", procs <- Shown, asked <- 0, answered <- 0

LEMMA SameCardinality == \A S : Pool!Cardinality(S) = Cardinality(S)
BY DEF Pool!Cardinality, Cardinality

LEMMA ShownSize == MineFit => Cardinality(Shown) = Cardinality(Mine)
<1>. SUFFICES ASSUME MineFit PROVE Cardinality(Shown) = Cardinality(Mine)
  OBVIOUS
<1>. DEFINE f == [p \in Mine |-> Bare(p)]
<1>1. IsFiniteSet(Mine) /\ \A p, q \in Mine : Bare(p) = Bare(q) => p = q
  BY DEF MineFit, FitsTool, Bare
<1>2. f \in [Mine -> Shown]
  BY DEF Shown
<1>3. \A r \in Shown : \E p \in Mine : f[p] = r
  BY DEF Shown
<1>4. \A p, q \in Mine : f[p] = f[q] => p = q
  BY <1>1
<1>. HIDE DEF f
<1>5. f \in Injection(Mine, Shown) /\ f \in Surjection(Mine, Shown)
  BY <1>2, <1>3, <1>4 DEF Injection, IsInjective, Surjection
<1>. QED  BY ONLY <1>1, <1>5, FS_Surjection

\* The processes a request works with are those ProcessSet works with.
LEMMA LookupIsShown ==
  ASSUME MineFit, RunningThisTool = "addr2line", NEW m
  PROVE  {Bare(p) : p \in OfTool(WithProcess(m))} = Pool!WithProcess(m)
<1>. DEFINE new == Process(pSanSymTool, m)
            W   == WithProcess(m)
<1>1. new.tool = pSanSymTool /\ Bare(new) = Pool!Fresh(m) /\ Key(m) = m
  BY DEF Process, Bare, Pool!Fresh, Key
<1>2. (\E p \in Mine : p.module = m) <=> \E r \in Shown : r.module = m
  <2>1. \A p \in Mine : Bare(p) \in Shown /\ Bare(p).module = p.module
    BY DEF Shown, Bare
  <2>2. \A r \in Shown : \E p \in Mine : r.module = p.module
    BY DEF Shown, Bare
  <2>. QED  BY ONLY <2>1, <2>2
<1>3. Pool!Cardinality(Shown) = Cardinality(Mine)
  BY ShownSize, SameCardinality
<1>. HIDE DEF new
<1>4. CASE \E p \in Mine : p.module = m
  <2>1. OfTool(W) = Mine
    BY <1>1, <1>4 DEF WithProcess, OfTool, Mine
  <2>2. Pool!WithProcess(m) = Shown
    BY ONLY <1>2, <1>4 DEF Pool!WithProcess
  <2>. QED  BY ONLY <2>1, <2>2 DEF Shown
<1>5. CASE ~(\E p \in Mine : p.module = m) /\ Cardinality(Mine) >= POOLMAX
  <2>1. W = (procs \ Mine) \cup {new}
    BY <1>1, <1>5 DEF WithProcess, new
  <2>2. OfTool(W) = {new}
    BY ONLY <1>1, <2>1 DEF OfTool, Mine
  <2>3. Pool!WithProcess(m) = {Pool!Fresh(m)}
    BY ONLY <1>2, <1>3, <1>5 DEF Pool!WithProcess
  <2>. QED  BY ONLY <1>1, <2>2, <2>3
<1>6. CASE ~(\E p \in Mine : p.module = m) /\ ~(Cardinality(Mine) >= POOLMAX)
  <2>1. W = procs \cup {new}
    BY <1>1, <1>6 DEF WithProcess, new
  <2>2. OfTool(W) = Mine \cup {new}
    BY ONLY <1>1, <2>1 DEF OfTool, Mine
  <2>3. Pool!WithProcess(m) = Shown \cup {Pool!Fresh(m)}
    BY ONLY <1>2, <1>3, <1>6 DEF Pool!WithProcess
  <2>. QED  BY ONLY <1>1, <2>2, <2>3 DEF Shown
<1>. QED  BY <1>4, <1>5, <1>6

\* What a request that is answered, and one that is not, may do to the processes.
ServedAsBySet(m) ==
  /\ Replies(m) => /\ Shown' = Pool!WithProcess(m)
                   /\ Pool!Fresh(m) \in Shown'
  /\ GivesUp(m) => \E r \in Pool!WithProcess(m) :
                     /\ r.module = m
                     /\ Shown' = (Pool!WithProcess(m) \ {r}) \cup {Pool!Failed(m)}

AnyServed ==
  RunningThisTool = "addr2line" /\ UNCHANGED <<RunningThisTool, pSanSymTool>>
    => \A m \in Module : ServedAsBySet(m)

LEMMA ReplyIsOfSet ==
  ASSUME MineFit, RunningThisTool = "addr2line", UNCHANGED pSanSymTool, NEW m \in Module, Replies(m)
  PROVE  Shown' = Pool!WithProcess(m) /\ Pool!Fresh(m) \in Shown'
<1>. DEFINE new == Process(pSanSymTool, m)
<1>1. new.tool = pSanSymTool /\ Bare(new) = Pool!Fresh(m) /\ Key(m) = m
  BY DEF Process, Bare, Pool!Fresh, Key
<1>2. procs' = WithProcess(m) /\ new \in procs'
  BY <1>1 DEF Replies
<1>. HIDE DEF new
<1>3. Mine' = OfTool(WithProcess(m)) /\ new \in Mine'
  BY <1>1, <1>2 DEF Mine, OfTool
<1>4. Shown' = {Bare(p) : p \in Mine'}
  BY DEF Shown, Bare
<1>. QED  BY <1>1, <1>3, <1>4, LookupIsShown

LEMMA FailureIsOfSet ==
  ASSUME Typed, MineFit, RunningThisTool = "addr2line", UNCHANGED pSanSymTool, NEW m \in Module, GivesUp(m)
  PROVE  \E r \in Pool!WithProcess(m) :
           r.module = m /\ Shown' = (Pool!WithProcess(m) \ {r}) \cup {Pool!Failed(m)}
<1>. DEFINE W == WithProcess(m)
<1>1. PICK p \in W : /\ p.tool = pSanSymTool /\ p.module = m
                     /\ procs' = (W \ {p}) \cup {[p EXCEPT !.failed = TRUE]}
  BY DEF GivesUp, Key
<1>2. p \in ProcessType
  BY <1>1, ProcessIsTyped DEF Typed
<1>. DEFINE marked == [p EXCEPT !.failed = TRUE]
<1>3. marked.tool = pSanSymTool /\ marked.module = m /\ marked.failed = TRUE
  BY <1>1, <1>2 DEF ProcessType
<1>4. Bare(marked) = Pool!Failed(m) /\ Bare(p).module = m
  BY ONLY <1>1, <1>3 DEF Bare, Pool!Failed
<1>. HIDE DEF marked
<1>5. Mine' = (OfTool(W) \ {p}) \cup {marked} /\ p \in OfTool(W)
  BY <1>1, <1>3 DEF Mine, OfTool, marked
<1>6. \A q \in OfTool(W) : Bare(q) = Bare(p) => q = p
  <2>1. \A q, r \in OfTool(W) : q.module = r.module => q = r
    BY LookupFits DEF FitsTool
  <2>. QED  BY ONLY <1>5, <2>1 DEF Bare
<1>7. Shown' = {Bare(q) : q \in Mine'}
  BY DEF Shown, Bare
<1>. HIDE DEF W
<1>8. {Bare(q) : q \in Mine'} = ({Bare(q) : q \in OfTool(W)} \ {Bare(p)}) \cup {Bare(marked)}
  BY ONLY <1>5, <1>6
<1>9. {Bare(q) : q \in OfTool(W)} = Pool!WithProcess(m)
  BY LookupIsShown DEF W
<1>10. Bare(p) \in Pool!WithProcess(m)
  BY ONLY <1>5, <1>9
<1>. QED  BY ONLY <1>4, <1>7, <1>8, <1>9, <1>10

\* What a request does to the processes of addr2line, answered or not, is what the two
\* steps of ProcessSet do together: the view of the pool that a request is modelled
\* with (Session: Replies, GivesUp) is the one Addr2LinePool implements.
THEOREM PoolServesSession == SessionSpec => [][AnyServed]_svars
<1>1. Typed /\ MineFit => AnyServed
  BY ReplyIsOfSet, FailureIsOfSet DEF AnyServed, ServedAsBySet
<1>. QED  BY <1>1, SessionInvHolds, MineFitHolds, PTL DEF SessionInv

=============================================================================
