----------------------------- MODULE ParseOutput -----------------------------
(***************************************************************************)
(* From the text of a reply to frames and data: ParseSymbolizeAddrOutput,  *)
(* ParseFileLineInfo and ParseSymbolizeDataOutput of                       *)
(* lib/use_llvm_symbolizer.cpp, over the token helpers of                  *)
(* lib/symbolizer.cpp.                                                     *)
(*                                                                         *)
(* A string is a sequence of characters, a character one of a few that the *)
(* parser tells apart.  The external symbolizer chooses what it means      *)
(* (truth) and prints it; the parser must find the same again.             *)
(*                                                                         *)
(* A definition whose name ends in _Slip is the definition that follows it *)
(* with a plausible slip in it; none is part of the specification.         *)
(***************************************************************************)
EXTENDS Integers, Sequences, SequencesExt

CONSTANTS
  Characters,    \* of texts
  Names,         \* Names[style]: function and file names, none of them empty
  Numbers,       \* lines, columns, addresses and sizes, as digits
  MaxFrames      \* bound: frames of one reply

Newline == "newline"
DigitOf == [d \in {"0", "1", "7"} |-> CASE d = "0" -> 0 [] d = "1" -> 1 [] d = "7" -> 7]
IsDigit(c) == c \in DOMAIN DigitOf

Unknown == <<"?", "?">>
Empty   == <<>>

\* Who prints.
Styles == {"llvm-symbolizer", "addr2line"}

ASSUME CharactersAssumption == {Newline, ":", "?", " "} \cup DOMAIN DigitOf \subseteq Characters
ASSUME NamesAssumption ==
  /\ Names \in [Styles -> SUBSET Seq(Characters)]
  /\ \A style \in Styles : \A n \in Names[style] :
       n \notin {Empty, Unknown} /\ \A k \in DOMAIN n : n[k] # Newline
ASSUME NumbersAssumption ==
  /\ Numbers \subseteq Seq(Characters)
  /\ \A n \in Numbers : n # Empty /\ \A k \in DOMAIN n : IsDigit(n[k])
ASSUME BoundAssumption == MaxFrames \in Nat

VARIABLES
  truth,         \* what the symbolizer means: [of: the request, frames, data, whole: it lived
                 \* long enough to print all of it]
  str,           \* what is left to parse
  frames, data,  \* what has been parsed
  pc             \* "code", "data" or "done"

vars == <<truth, str, frames, data, pc>>

-----------------------------------------------------------------------------
(* Token helpers: ExtractToken, ExtractUptr and atoll                      *)

PrefixLen(s, delims) ==
  CHOOSE n \in 0..Len(s) : /\ \A k \in 1..n : s[k] \notin delims
                           /\ n < Len(s) => s[n + 1] \in delims

\* The token, and the rest after one delimiter.
ExtractToken(s, delims) ==
  LET n == PrefixLen(s, delims) IN [token |-> SubSeq(s, 1, n), rest |-> SubSeq(s, n + 2, Len(s))]

\* The number at the beginning of s, 0 if there is none.
atoll(s) ==
  FoldLeft(LAMBDA value, d : 10 * value + DigitOf[d], 0,
           SubSeq(s, 1, PrefixLen(s, {c \in Range(s) : ~IsDigit(c)})))

ExtractUptr(s, delims) == [ExtractToken(s, delims) EXCEPT !.token = atoll(@)]

-----------------------------------------------------------------------------
(* Frames                                                                  *)

\* The colon before the digits that end s, 0 if s does not end in one and digits.
LastColon(s) ==
  LET colons == {k \in 1..Len(s) - 1 : s[k] = ":" /\ \A d \in k + 1..Len(s) : IsDigit(s[d])}
  IN  IF colons = {} THEN 0 ELSE CHOOSE k \in colons : TRUE

\* A name is told from what follows it only if it does not end in what may follow: in
\* ":?", which addr2line prints for a line it does not know, or, as addr2line prints
\* one number where llvm-symbolizer prints two, in a colon and a number of its own.
EndsInMark(n) == Len(n) > 1 /\ n[Len(n) - 1] = ":" /\ n[Len(n)] = "?"
Ambiguous(style, n) ==
  \/ EndsInMark(n)
  \/ style = "addr2line" /\ LastColon(n) # 0
ASSUME PlainNames == \A style \in Styles : \A n \in Names[style] : ~Ambiguous(style, n)

\* The loop of ParseFileLineInfo: what is taken off the right end becomes the line,
\* what was the line before becomes the column.
TakeNumber_Slip(r) ==
  LET k == LastColon(r.file)
  IN  IF k = 0 THEN r
      ELSE [file |-> SubSeq(r.file, 1, k - 1), lin |-> r.lin, col |-> atoll(SubSeq(r.file, k + 1, Len(r.file)))]

TakeNumber(r) ==
  LET k == LastColon(r.file)
  IN  IF k = 0 THEN r
      ELSE [file |-> SubSeq(r.file, 1, k - 1), lin |-> atoll(SubSeq(r.file, k + 1, Len(r.file))), col |-> r.lin]

\* An empty line leaves the file of the frame as it is: uninitialised.
Wild == <<"uninitialised">>
ParseFileLineInfo(line) ==
  IF line = Empty THEN [file |-> Wild, lin |-> 0, col |-> 0]
                  ELSE TakeNumber(TakeNumber([file |-> line, lin |-> 0, col |-> 0]))

\* "FileName:?", printed for a line that is not known.
TrimMark_Slip(r) ==
  LET size == Len(r.file)
  IN  IF r.lin = 0 /\ size > 4 /\ SubSeq(r.file, size - 1, size) = <<":", "?">>
      THEN [r EXCEPT !.file = SubSeq(@, 1, size - 2)] ELSE r

TrimMark(r) ==
  LET size == Len(r.file)
  IN  IF r.lin = 0 /\ size > 3 /\ SubSeq(r.file, size - 1, size) = <<":", "?">>
      THEN [r EXCEPT !.file = SubSeq(@, 1, size - 2)] ELSE r

\* "??" becomes a null pointer, which the empty string stands for here.
NullIfUnknown(name) == IF name = Unknown THEN Empty ELSE name

ThisFrame(function_name, line) ==
  LET r == TrimMark(ParseFileLineInfo(line))
  IN  [func |-> NullIfUnknown(function_name), file |-> NullIfUnknown(r.file), lin |-> r.lin, col |-> r.col]

ParseFrame ==
  /\ pc = "code"
  /\ LET function == ExtractToken(str, {Newline})
         line     == ExtractToken(function.rest, {Newline})
     IN  /\ function.token # Empty
         /\ frames' = Append(frames, ThisFrame(function.token, line.token))
         /\ str' = line.rest
  /\ UNCHANGED <<truth, data, pc>>

NoMoreFrames ==
  /\ pc = "code" /\ ExtractToken(str, {Newline}).token = Empty
  /\ pc' = "done"
  /\ UNCHANGED <<truth, str, frames, data>>

-----------------------------------------------------------------------------
(* Data                                                                    *)

ParseSymbolizeDataOutput_Slip ==
  /\ pc = "data"
  /\ LET name  == ExtractToken(str, {Newline})
         start == ExtractUptr(name.rest, {Newline})
         size  == ExtractUptr(start.rest, {Newline})
         file  == ExtractToken(size.rest, {":"})
         line  == ExtractUptr(file.rest, {Newline})
     IN  /\ data' = [name |-> name.token, start |-> start.token, size |-> size.token,
                     file |-> file.token, line |-> line.token]
         /\ str' = line.rest
  /\ pc' = "done"
  /\ UNCHANGED <<truth, frames>>

ParseSymbolizeDataOutput ==
  /\ pc = "data"
  /\ LET name  == ExtractToken(str, {Newline})
         start == ExtractUptr(name.rest, {" "})
         size  == ExtractUptr(start.rest, {Newline})
         file  == ExtractToken(size.rest, {":"})
         line  == ExtractUptr(file.rest, {Newline})
     IN  /\ data' = [name |-> name.token, start |-> start.token, size |-> size.token,
                     file |-> file.token, line |-> line.token]
         /\ str' = line.rest
  /\ pc' = "done"
  /\ UNCHANGED <<truth, frames>>

-----------------------------------------------------------------------------
(* What the symbolizer prints, and where it starts                         *)

NoNumber == <<"0">>
NoData   == [name |-> Empty, start |-> 0, size |-> 0, file |-> Empty, line |-> 0]

\* addr2line prints "?" or "0" for a line it does not know, and no column.
LineMarks(style) == Numbers \cup {NoNumber} \cup IF style = "addr2line" THEN {<<"?">>} ELSE {}
Columns(style)   == IF style = "addr2line" THEN {Empty} ELSE Numbers \cup {NoNumber}

FrameTexts(style) ==
  {f \in [func : Names[style] \cup {Unknown}, file : Names[style] \cup {Unknown},
          lin : LineMarks(style), col : Columns(style)] :
     f.file = Unknown => atoll(f.lin) = 0 /\ atoll(f.col) = 0}

PrintLine(f) ==
  f.file \o <<":">> \o f.lin \o IF f.col = Empty THEN Empty ELSE <<":">> \o f.col

PrintFrame(f) == f.func \o <<Newline>> \o PrintLine(f) \o <<Newline>>

\* The end mark of addr2line is trimmed before the reply is parsed.
PrintFrames(style, fs) ==
  FlattenSeq([k \in DOMAIN fs |-> PrintFrame(fs[k])]) \o (IF style = "addr2line" THEN Empty ELSE <<Newline>>)

\* Versions of llvm-symbolizer before D123538 print no third line.
\* The parser takes the first colon for the end of the file name.
DataTexts ==
  LET names == Names["llvm-symbolizer"]
  IN  {d \in [name : names, start : Numbers, size : Numbers, file : names \cup {Empty}, line : Numbers] :
         \A k \in DOMAIN d.file : d.file[k] # ":"}

PrintData(d) ==
  d.name \o <<Newline>> \o d.start \o <<" ">> \o d.size \o <<Newline>>
    \o (IF d.file = Empty THEN Empty ELSE d.file \o <<":">> \o d.line \o <<Newline>>) \o <<Newline>>

\* What reaches the parser: all of it, or less if the symbolizer dies.
Received(text) == {SubSeq(text, 1, n) : n \in 0..Len(text)}

Init ==
  /\ frames = <<>> /\ data = NoData
  /\ \/ \E style \in Styles : \E fs \in SeqOf(FrameTexts(style), MaxFrames) :
          /\ pc = "code" /\ str \in Received(PrintFrames(style, fs))
          /\ truth = [of |-> "code", frames |-> fs, data |-> NoData, whole |-> str = PrintFrames(style, fs)]
     \/ \E d \in DataTexts :
          /\ pc = "data" /\ str \in Received(PrintData(d))
          /\ truth = [of |-> "data", frames |-> <<>>, data |-> d, whole |-> str = PrintData(d)]

Done == pc = "done" /\ UNCHANGED vars

Next == ParseFrame \/ NoMoreFrames \/ ParseSymbolizeDataOutput \/ Done

Spec == Init /\ [][Next]_vars

-----------------------------------------------------------------------------
(* Properties                                                              *)

\* "f:?" is too short to be trimmed: a name of one character keeps the mark.
FileRead(f) == IF f.lin = <<"?">> /\ Len(f.file) = 1 THEN f.file \o <<":">> \o f.lin ELSE f.file

FrameMeant(f) == [func |-> NullIfUnknown(f.func), file |-> NullIfUnknown(FileRead(f)),
                  lin |-> atoll(f.lin), col |-> atoll(f.col)]

DataMeant(d) == [name |-> d.name, start |-> atoll(d.start), size |-> atoll(d.size),
                 file |-> d.file, line |-> atoll(d.line)]

\* The frames of a whole reply are those the symbolizer meant, each with its own
\* line and column, with or without a column, an unknown name or an unknown line; but
\* for the mark of an unknown line, which is left behind a file name of one character
\* (use_llvm_symbolizer.cpp:92) and cut off any longer one.
FramesAreMeant ==
  truth.of = "code" /\ truth.whole /\ pc = "done" =>
    frames = [k \in DOMAIN truth.frames |-> FrameMeant(truth.frames[k])]

\* Of a reply cut anywhere, no more frames are found than were meant, and every one but
\* the last is the one meant: the cut spoils no frame in front of it.
OnlyLastFrameSuffers ==
  truth.of = "code" /\ pc = "done" =>
    /\ Len(frames) <= Len(truth.frames)
    /\ \A k \in 1..Len(frames) - 1 : frames[k] = FrameMeant(truth.frames[k])

\* The data of a whole reply of three lines are those the symbolizer meant.
DataAreMeant ==
  truth.of = "data" /\ truth.whole /\ pc = "done" /\ truth.data.file # Empty => data = DataMeant(truth.data)

=============================================================================
