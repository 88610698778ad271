------------------------ MODULE StartSubprocessProofs ------------------------
(***************************************************************************)
(* Five pipes are enough, nothing is lost and the child is wired, for any  *)
(* number of descriptors and of moves by other threads.                    *)
(*                                                                         *)
(* The argument: at every step it is known which pipe ends the parent      *)
(* holds and where (Ownership).  Ends at distinct numbers are distinct, so *)
(* at most three pipes at a time have a number below 3; as all the pipes   *)
(* made so far are held while the loop looks for two high ones, the fifth  *)
(* round cannot fail.                                                      *)
(***************************************************************************)
EXTENDS StartSubprocess, TLAPS

\* The pipes of which the parent holds both ends, the read end, the write end.
Both ==
  IF pc = "pipe" THEN 0..i - 1
  ELSE IF pc = "undo" THEN j..i - 1
  ELSE IF pc = "tidy" THEN {k \in 0..i : k >= j \/ k = infd}
  ELSE IF pc \in {"check", "fork", "close"} THEN {infd, outfd} ELSE {}

ReadEnds  == Both \cup IF pc = "started" THEN {infd} ELSE {}
WriteEnds == Both \cup IF pc = "started" THEN {outfd} ELSE {}

\* What it should hold is where it should be, and it holds nothing else.
Held ==
  /\ \A k \in ReadEnds  : fdt[sock_pair[k][1]] = R(k)
  /\ \A k \in WriteEnds : fdt[sock_pair[k][2]] = W(k)
NothingElse ==
  /\ \A f \in FD, k \in Pipes : fdt[f] = R(k) => k \in ReadEnds  /\ f = sock_pair[k][1]
  /\ \A f \in FD, k \in Pipes : fdt[f] = W(k) => k \in WriteEnds /\ f = sock_pair[k][2]

\* What is known of the pairs seen so far, and of the two that were chosen.
Looking ==
  pc = "pipe" => /\ i \in Pipes /\ outfd = None
                 /\ infd # None => infd < i
                 /\ \A k \in 0..i - 1 : High(sock_pair[k]) <=> k = infd
Chosen ==
  pc \in {"tidy", "check", "fork", "close", "started"} =>
    /\ infd \in Pipes /\ outfd \in Pipes /\ infd < outfd /\ i = outfd
    /\ High(sock_pair[infd]) /\ High(sock_pair[outfd])
Counting == (pc \in {"undo", "tidy"} => j <= i) /\ (pc = "undo" => i \in Pipes)

\* The child's table at each of its steps.
Wired ==
  /\ cpc # "unborn" => pc \in {"close", "started"}
  /\ cpc = "stdin" => /\ cfd[stdin_fd] = R(outfd) /\ cfd[stdout_fd] = W(infd)
                      /\ \A f \in FD : f <= 2 => cfd[f] \in {Free, Host}
  /\ cpc = "stdout" => /\ cfd[0] = R(outfd) /\ cfd[stdout_fd] = W(infd)
                       /\ \A f \in FD \ {0} : f <= 2 => cfd[f] \in {Free, Host}
  /\ cpc = "close all" => /\ cfd[0] = R(outfd) /\ cfd[1] = W(infd)
                          /\ \A f \in FD \ {0, 1} : f <= 2 => cfd[f] \in {Free, Host}
  /\ ChildIsWired

IInv == TypeOK /\ ChecksPass /\ Held /\ NothingElse /\ Looking /\ Chosen /\ Counting /\ Wired

-----------------------------------------------------------------------------
LEMMA Numbers == /\ Pipes = 0..4 /\ None \notin Pipes /\ kPipes = 5
                 /\ 0 \in FD /\ 1 \in FD /\ 2 \in FD /\ FD \subseteq Nat
BY FDAssumption DEF Pipes, kPipes, None

LEMMA Number ==
  /\ \A f \in FD : f \in Nat /\ (f <= 2 <=> ~(f > 2))
  /\ ~(0 > 2) /\ ~(1 > 2) /\ 0 # 1
BY FDAssumption

LEMMA Owners ==
  /\ Free \in Open /\ Host \in Open /\ Free # Host
  /\ \A k \in Pipes : /\ R(k) \in Open /\ W(k) \in Open
                      /\ R(k) \notin {Free, Host} /\ W(k) \notin {Free, Host}
  /\ \A k, l : R(k) # W(l) /\ (R(k) = R(l) => k = l) /\ (W(k) = W(l) => k = l)
  /\ \A o \in Open : o \in {Free, Host} \/ \E k \in Pipes : o = R(k) \/ o = W(k)
BY DEF Open, End, Free, Host, R, W

LEMMA InitInv == Init => IInv
BY Numbers, Owners, MovesAssumption
   DEF Init, IInv, TypeOK, ChecksPass, Held, NothingElse, Looking, Chosen, Counting, Wired,
       ChildIsWired, Both, ReadEnds, WriteEnds

\* Four pipes that are held have four numbers of their own: not all below 3.
LEMMA Pigeons ==
  ASSUME sock_pair' \in [Pipes -> FD \X FD],
         \A k \in Pipes : fdt'[sock_pair'[k][1]] = R(k) /\ fdt'[sock_pair'[k][2]] = W(k),
         NEW k1 \in Pipes, NEW k2 \in Pipes, NEW k3 \in Pipes, NEW k4 \in Pipes,
         k1 < k2, k2 < k3, k3 < k4
  PROVE  High(sock_pair'[k1]) \/ High(sock_pair'[k2]) \/ High(sock_pair'[k3]) \/ High(sock_pair'[k4])
<1> SUFFICES ASSUME \A k \in {k1, k2, k3, k4} : ~High(sock_pair'[k]) PROVE FALSE
  OBVIOUS
<1> DEFINE low(k) == IF sock_pair'[k][1] <= 2 THEN sock_pair'[k][1] ELSE sock_pair'[k][2]
<1>1. ASSUME NEW k \in {k1, k2, k3, k4}
      PROVE  low(k) \in 0..2 /\ fdt'[low(k)] \in {R(k), W(k)}
  <2>1. sock_pair'[k][1] \in Nat /\ sock_pair'[k][2] \in Nat
    BY Numbers
  <2>2. ~(sock_pair'[k][1] > 2 /\ sock_pair'[k][2] > 2)
    BY DEF High
  <2>3. low(k) \in {sock_pair'[k][1], sock_pair'[k][2]} /\ low(k) \in 0..2
    BY <2>1, <2>2
  <2> HIDE DEF low
  <2> QED BY <2>3
<1>2. \A k, l \in {k1, k2, k3, k4} : low(k) = low(l) => k = l
  <2> HIDE DEF low
  <2> QED BY <1>1, Owners
<1>3. low(k1) \in 0..2 /\ low(k2) \in 0..2 /\ low(k3) \in 0..2 /\ low(k4) \in 0..2
  BY <1>1
<1>4. k1 # k2 /\ k1 # k3 /\ k1 # k4 /\ k2 # k3 /\ k2 # k4 /\ k3 # k4
  BY Numbers
<1> HIDE DEF low
<1>5. /\ low(k1) # low(k2) /\ low(k1) # low(k3) /\ low(k1) # low(k4)
      /\ low(k2) # low(k3) /\ low(k2) # low(k4) /\ low(k3) # low(k4)
  BY <1>2, <1>4
<1> QED BY <1>3, <1>5

-----------------------------------------------------------------------------
(* Making pipes                                                            *)

\* What is known while the loop runs.
LEMMA InLoop ==
  ASSUME IInv, pc = "pipe"
  PROVE  /\ i \in 0..4 /\ outfd = None /\ infd \in {None} \cup 0..i - 1 /\ 0..i - 1 \subseteq Pipes
         /\ \A k \in 0..i - 1 : High(sock_pair[k]) <=> k = infd
         /\ fdt \in [FD -> Open] /\ sock_pair \in [Pipes -> FD \X FD]
<1>1. TypeOK /\ Looking
  BY DEF IInv
<1>2. i \in 0..4 /\ infd \in {None} \cup 0..4 /\ (infd # None => infd < i)
  BY <1>1, Numbers DEF TypeOK, Looking
<1>3. infd \in {None} \cup 0..i - 1
  BY <1>2, Numbers
<1>4. 0..i - 1 \subseteq Pipes
  BY <1>2, Numbers
<1>5. outfd = None /\ \A k \in 0..i - 1 : High(sock_pair[k]) <=> k = infd
  BY <1>1 DEF Looking
<1>6. fdt \in [FD -> Open] /\ sock_pair \in [Pipes -> FD \X FD]
  BY <1>1 DEF TypeOK
<1> QED BY <1>2, <1>3, <1>4, <1>5, <1>6

\* A new pipe takes free numbers, so it disturbs none of those held.
LEMMA Opened ==
  ASSUME IInv, NEW a \in FD, NEW b \in FD, PipeOpens(a, b)
  PROVE  /\ i \in Pipes /\ fdt' \in [FD -> Open] /\ sock_pair' \in [Pipes -> FD \X FD]
         /\ sock_pair'[i] = <<a, b>> /\ \A k \in 0..i - 1 : sock_pair'[k] = sock_pair[k]
         /\ \A k \in 0..i : fdt'[sock_pair'[k][1]] = R(k) /\ fdt'[sock_pair'[k][2]] = W(k)
         /\ \A f \in FD, k \in Pipes : /\ fdt'[f] = R(k) => k \in 0..i /\ f = sock_pair'[k][1]
                                       /\ fdt'[f] = W(k) => k \in 0..i /\ f = sock_pair'[k][2]
<1>1. /\ i \in Pipes /\ 0..i - 1 \subseteq Pipes /\ a # b /\ fdt[a] = Free /\ fdt[b] = Free
      /\ fdt' = [fdt EXCEPT ![a] = R(i), ![b] = W(i)]
      /\ sock_pair' = [sock_pair EXCEPT ![i] = <<a, b>>]
      /\ fdt \in [FD -> Open] /\ sock_pair \in [Pipes -> FD \X FD]
  <2>1. pc = "pipe" /\ a < b /\ fdt[a] = Free /\ fdt[b] = Free
    BY DEF PipeOpens, Lowest
  <2> QED BY <2>1, InLoop, Numbers DEF PipeOpens
<1>2. /\ \A k \in 0..i - 1 : fdt[sock_pair[k][1]] = R(k) /\ fdt[sock_pair[k][2]] = W(k)
      /\ \A f \in FD, k \in Pipes : /\ fdt[f] = R(k) => k \in 0..i - 1 /\ f = sock_pair[k][1]
                                    /\ fdt[f] = W(k) => k \in 0..i - 1 /\ f = sock_pair[k][2]
  BY DEF IInv, PipeOpens, Held, NothingElse, ReadEnds, WriteEnds, Both
<1>3. /\ fdt' \in [FD -> Open] /\ sock_pair' \in [Pipes -> FD \X FD]
      /\ fdt'[a] = R(i) /\ fdt'[b] = W(i) /\ \A f \in FD \ {a, b} : fdt'[f] = fdt[f]
      /\ sock_pair'[i] = <<a, b>> /\ \A k \in Pipes \ {i} : sock_pair'[k] = sock_pair[k]
  BY <1>1, Owners
<1>4. \A k \in 0..i - 1 : /\ k \in Pipes \ {i} /\ sock_pair'[k] = sock_pair[k]
                          /\ sock_pair[k][1] \in FD \ {a, b} /\ sock_pair[k][2] \in FD \ {a, b}
  BY <1>1, <1>2, <1>3, Owners, Numbers
<1>5. \A k \in 0..i : fdt'[sock_pair'[k][1]] = R(k) /\ fdt'[sock_pair'[k][2]] = W(k)
  <2>1. ASSUME NEW k \in 0..i - 1
        PROVE  fdt'[sock_pair'[k][1]] = R(k) /\ fdt'[sock_pair'[k][2]] = W(k)
    BY <1>2, <1>3, <1>4
  <2>2. fdt'[sock_pair'[i][1]] = R(i) /\ fdt'[sock_pair'[i][2]] = W(i)
    BY <1>3
  <2>3. \A k \in 0..i : k = i \/ k \in 0..i - 1
    BY <1>1, Numbers
  <2> QED BY <2>1, <2>2, <2>3
<1>6. ASSUME NEW f \in FD, NEW k \in Pipes
      PROVE  /\ fdt'[f] = R(k) => k \in 0..i /\ f = sock_pair'[k][1]
             /\ fdt'[f] = W(k) => k \in 0..i /\ f = sock_pair'[k][2]
  <2>1. CASE f = a
    BY <2>1, <1>1, <1>3, Owners, Numbers
  <2>2. CASE f = b
    BY <2>2, <1>1, <1>3, Owners, Numbers
  <2>3. CASE f \in FD \ {a, b}
    <3>1. fdt'[f] = fdt[f] /\ 0..i - 1 \subseteq 0..i
      BY <2>3, <1>1, <1>3, Numbers
    <3> QED BY <3>1, <1>2, <1>4
  <2> QED BY <2>1, <2>2, <2>3
<1> QED BY <1>1, <1>3, <1>4, <1>5, <1>6

\* The child does not exist before the fork.
LEMMA Unborn ==
  ASSUME IInv, pc \notin {"close", "started"}
  PROVE  cpc = "unborn"
BY DEF IInv, Wired, TypeOK

LEMMA StillUnborn ==
  ASSUME cpc = "unborn", UNCHANGED cpc
  PROVE  Wired'
BY DEF Wired, ChildIsWired

LEMMA PipeFailsInv == ASSUME IInv, PipeFails PROVE IInv'
<1> USE DEF PipeFails
<1>1. Wired'
  BY Unborn, StillUnborn DEF kid
<1>2. 0..i - 1 = j'..i' - 1 /\ i \in Pipes
  BY DEF IInv, Looking
<1>3. Held' /\ NothingElse'
  BY <1>2 DEF IInv, Held, NothingElse, ReadEnds, WriteEnds, Both
<1>4. TypeOK'
  <2>1. TypeOK /\ j' \in 0..kPipes /\ pc' = "undo"
    BY Numbers DEF IInv
  <2>2. UNCHANGED <<fdt, i, sock_pair, infd, outfd, cpc, cfd, moves>>
    BY DEF kid
  <2> QED BY ONLY <2>1, <2>2 DEF TypeOK
<1>5. ChecksPass' /\ Looking' /\ Chosen' /\ Counting'
  <2>1. i \in 0..4 /\ j' = 0 /\ i' = i /\ pc' = "undo"
    BY InLoop
  <2> QED BY <2>1, Numbers DEF ChecksPass, Looking, Chosen, Counting
<1> QED BY <1>1, <1>3, <1>4, <1>5 DEF IInv

\* A round that leaves the loop without two pairs would leave four low pipes.
LEMMA NotTheLast ==
  ASSUME IInv, NEW a \in FD, NEW b \in FD, PipeOpens(a, b), ~High(<<a, b>>) \/ infd = None
  PROVE  i + 1 < kPipes
<1> SUFFICES ASSUME i = 4 PROVE FALSE
  BY Opened, Numbers
<1>1. /\ sock_pair' \in [Pipes -> FD \X FD] /\ sock_pair'[4] = <<a, b>>
      /\ \A k \in 0..3 : sock_pair'[k] = sock_pair[k]
      /\ \A k \in 0..4 : fdt'[sock_pair'[k][1]] = R(k) /\ fdt'[sock_pair'[k][2]] = W(k)
  BY Opened
<1>2. infd \in {None} \cup 0..3 /\ \A k \in 0..3 : High(sock_pair[k]) <=> k = infd
  BY InLoop DEF PipeOpens
<1>3. ASSUME NEW k1 \in Pipes, NEW k2 \in Pipes, NEW k3 \in Pipes, NEW k4 \in Pipes,
             k1 < k2, k2 < k3, k3 < k4
      PROVE  High(sock_pair'[k1]) \/ High(sock_pair'[k2]) \/ High(sock_pair'[k3]) \/ High(sock_pair'[k4])
  <2>1. sock_pair' \in [Pipes -> FD \X FD]
    BY <1>1
  <2>2. \A k \in Pipes : fdt'[sock_pair'[k][1]] = R(k) /\ fdt'[sock_pair'[k][2]] = W(k)
    BY <1>1, Numbers
  <2> QED BY ONLY <1>3, <2>1, <2>2, Pigeons
<1>4. CASE infd = None
  <2>1. \A k \in 0..3 : ~High(sock_pair'[k])
    BY <1>1, <1>2, <1>4, Numbers DEF None
  <2> QED BY <1>3, <2>1, Numbers
<1>5. CASE infd \in 0..3 /\ ~High(<<a, b>>)
  <2>1. \A k \in 0..4 : k # infd => ~High(sock_pair'[k])
    <3>1. \A k \in 0..3 : k # infd => ~High(sock_pair'[k])
      BY <1>1, <1>2
    <3>2. ~High(sock_pair'[4])
      BY <1>1, <1>5
    <3>3. \A k \in 0..4 : k = 4 \/ k \in 0..3
      OBVIOUS
    <3> QED BY <3>1, <3>2, <3>3
  <2>2. CASE infd = 0
    BY <2>1, <2>2, <1>3, Numbers
  <2>3. CASE infd = 1
    BY <2>1, <2>3, <1>3, Numbers
  <2>4. CASE infd = 2
    BY <2>1, <2>4, <1>3, Numbers
  <2>5. CASE infd = 3
    BY <2>1, <2>5, <1>3, Numbers
  <2> QED BY <1>5, <2>2, <2>3, <2>4, <2>5
<1> QED BY <1>2, <1>4, <1>5

\* The three ways a round can end when pipe() succeeds.
LEMMA PipeTooLowInv ==
  ASSUME IInv, NEW a \in FD, NEW b \in FD, PipeTooLow(a, b) PROVE IInv'
<1> USE DEF PipeTooLow
<1>0. /\ PipeOpens(a, b) /\ i + 1 < kPipes /\ pc = "pipe" /\ pc' = "pipe" /\ i' = i + 1
      /\ UNCHANGED <<j, infd, outfd, cpc, cfd, moves>>
  BY NotTheLast DEF NextRound, PipeOpens, kid
<1>1. Wired'
  BY <1>0, Unborn, StillUnborn
<1>2. i' \in Pipes /\ i' \in 0..kPipes /\ 0..i' - 1 = 0..i
  BY <1>0, InLoop, Numbers
<1>3. Held' /\ NothingElse'
  <2>1. ReadEnds' = 0..i /\ WriteEnds' = 0..i
    BY <1>0, <1>2 DEF ReadEnds, WriteEnds, Both
  <2> QED BY <1>0, <2>1, Opened DEF Held, NothingElse
<1>4. TypeOK'
  <2>1. TypeOK /\ fdt' \in [FD -> Open] /\ sock_pair' \in [Pipes -> FD \X FD]
    BY <1>0, Opened DEF IInv
  <2> QED BY ONLY <1>0, <1>2, <2>1 DEF TypeOK
<1>5. Looking'
  <2>1. /\ infd \in {None} \cup 0..i - 1 /\ outfd = None /\ i \in 0..4
        /\ \A k \in 0..i - 1 : High(sock_pair'[k]) <=> k = infd
    BY <1>0, InLoop, Opened
  <2>2. ~High(sock_pair'[i]) /\ i # infd
    BY <1>0, <2>1, Opened, Numbers DEF None
  <2>3. \A k \in 0..i : k = i \/ k \in 0..i - 1
    BY <2>1
  <2>4. \A k \in 0..i : High(sock_pair'[k]) <=> k = infd
    BY <2>1, <2>2, <2>3
  <2>5. infd # None => infd < i'
    BY <1>0, <2>1
  <2> QED BY <1>0, <1>2, <2>1, <2>4, <2>5 DEF Looking
<1>6. ChecksPass' /\ Chosen' /\ Counting'
  BY <1>0 DEF ChecksPass, Chosen, Counting
<1> QED BY <1>1, <1>3, <1>4, <1>5, <1>6 DEF IInv

LEMMA FirstPipeInv ==
  ASSUME IInv, NEW a \in FD, NEW b \in FD, FirstPipe(a, b) PROVE IInv'
<1> USE DEF FirstPipe
<1>0. /\ PipeOpens(a, b) /\ i + 1 < kPipes /\ pc = "pipe" /\ pc' = "pipe" /\ i' = i + 1
      /\ infd = None /\ infd' = i /\ High(<<a, b>>)
      /\ UNCHANGED <<j, outfd, cpc, cfd, moves>>
  BY NotTheLast DEF NextRound, PipeOpens, kid
<1>1. Wired'
  BY <1>0, Unborn, StillUnborn
<1>2. i \in 0..4 /\ i \in Pipes /\ i' \in Pipes /\ i' \in 0..kPipes /\ 0..i' - 1 = 0..i
  BY <1>0, InLoop, Numbers
<1>3. Held' /\ NothingElse'
  <2>1. ReadEnds' = 0..i /\ WriteEnds' = 0..i
    BY <1>0, <1>2 DEF ReadEnds, WriteEnds, Both
  <2> QED BY <1>0, <2>1, Opened DEF Held, NothingElse
<1>4. TypeOK'
  <2>1. TypeOK /\ fdt' \in [FD -> Open] /\ sock_pair' \in [Pipes -> FD \X FD]
    BY <1>0, Opened DEF IInv
  <2> QED BY ONLY <1>0, <1>2, <2>1 DEF TypeOK
<1>5. Looking'
  <2>1. outfd = None /\ \A k \in 0..i - 1 : k # i /\ (High(sock_pair'[k]) <=> k = None)
    BY <1>0, <1>2, InLoop, Opened
  <2>2. High(sock_pair'[i])
    BY <1>0, Opened
  <2>3. \A k \in 0..i : (k = i \/ k \in 0..i - 1) /\ k # None
    BY <1>2 DEF None
  <2>4. \A k \in 0..i : High(sock_pair'[k]) <=> k = i
    BY <2>1, <2>2, <2>3
  <2>5. infd' < i'
    BY <1>0, <1>2
  <2> QED BY <1>0, <1>2, <2>1, <2>4, <2>5 DEF Looking
<1>6. ChecksPass' /\ Chosen' /\ Counting'
  BY <1>0 DEF ChecksPass, Chosen, Counting
<1> QED BY <1>1, <1>3, <1>4, <1>5, <1>6 DEF IInv

LEMMA SecondPipeInv ==
  ASSUME IInv, NEW a \in FD, NEW b \in FD, SecondPipe(a, b) PROVE IInv'
<1> USE DEF SecondPipe
<1>0. /\ PipeOpens(a, b) /\ pc = "pipe" /\ pc' = "tidy" /\ j' = 0
      /\ infd # None /\ outfd' = i /\ High(<<a, b>>)
      /\ UNCHANGED <<i, infd, cpc, cfd, moves>>
  BY DEF PipeOpens, kid
<1>1. Wired'
  BY <1>0, Unborn, StillUnborn
<1>2. i \in 0..4 /\ i \in Pipes /\ infd \in 0..i - 1 /\ infd \in Pipes /\ infd < i
  BY <1>0, InLoop, Numbers
<1>3. Held' /\ NothingElse'
  <2>1. Both' = 0..i
    BY <1>0, <1>2 DEF Both
  <2>2. ReadEnds' = 0..i /\ WriteEnds' = 0..i
    BY <1>0, <2>1 DEF ReadEnds, WriteEnds
  <2> QED BY <1>0, <2>2, Opened DEF Held, NothingElse
<1>4. TypeOK'
  <2>1. /\ TypeOK /\ fdt' \in [FD -> Open] /\ sock_pair' \in [Pipes -> FD \X FD]
        /\ 0 \in 0..kPipes
    BY <1>0, Opened, Numbers DEF IInv
  <2> QED BY ONLY <1>0, <1>2, <2>1 DEF TypeOK
<1>5. Chosen'
  <2>1. High(sock_pair'[i]) /\ High(sock_pair'[infd])
    BY <1>0, <1>2, InLoop, Opened
  <2> QED BY <1>0, <1>2, <2>1 DEF Chosen
<1>6. ChecksPass' /\ Looking' /\ Counting'
  BY <1>0, <1>2 DEF ChecksPass, Looking, Counting
<1> QED BY <1>1, <1>3, <1>4, <1>5, <1>6 DEF IInv

-----------------------------------------------------------------------------
(* Closing pipes                                                           *)

\* What is held is held in pipes that were made.
LEMMA EndsAreMade == ASSUME IInv PROVE ReadEnds \subseteq Pipes /\ WriteEnds \subseteq Pipes
<1>1. TypeOK /\ Looking /\ Chosen /\ Counting
  BY DEF IInv
<1>2. i \in 0..5 /\ j \in 0..5
  BY <1>1, Numbers DEF TypeOK
<1>3. CASE pc = "pipe"
  BY <1>1, <1>3, InLoop DEF ReadEnds, WriteEnds, Both
<1>4. CASE pc = "undo"
  BY <1>1, <1>2, <1>4, Numbers DEF ReadEnds, WriteEnds, Both, Counting
<1>5. CASE pc = "tidy"
  BY <1>1, <1>2, <1>5, Numbers DEF ReadEnds, WriteEnds, Both, Chosen
<1>6. CASE pc \in {"check", "fork", "close", "started"}
  BY <1>1, <1>6 DEF ReadEnds, WriteEnds, Both, Chosen
<1>7. CASE pc \in {"failed", "dead"}
  BY <1>7 DEF ReadEnds, WriteEnds, Both
<1> QED BY <1>1, <1>3, <1>4, <1>5, <1>6, <1>7 DEF TypeOK

\* A step that leaves the descriptors of the host alone.
HostKept == \A f \in FD : fdt[f] = Host => fdt'[f] = Host

\* Closing some of the ends that are held leaves exactly the others, and does not
\* touch the descriptors of the host.
LEMMA Closed ==
  ASSUME IInv, UNCHANGED sock_pair,
         NEW rs \in SUBSET ReadEnds, NEW ws \in SUBSET WriteEnds,
         Close({sock_pair[k][1] : k \in rs} \cup {sock_pair[k][2] : k \in ws})
  PROVE  /\ fdt' \in [FD -> Open]
         /\ HostKept
         /\ ReadEnds' = ReadEnds \ rs /\ WriteEnds' = WriteEnds \ ws => Held' /\ NothingElse'
<1> DEFINE shut == {sock_pair[k][1] : k \in rs} \cup {sock_pair[k][2] : k \in ws}
<1>1. /\ fdt \in [FD -> Open] /\ sock_pair \in [Pipes -> FD \X FD]
      /\ ReadEnds \subseteq Pipes /\ WriteEnds \subseteq Pipes
      /\ \A k \in ReadEnds  : fdt[sock_pair[k][1]] = R(k) /\ sock_pair[k][1] \in FD
      /\ \A k \in WriteEnds : fdt[sock_pair[k][2]] = W(k) /\ sock_pair[k][2] \in FD
  <2>1. TypeOK /\ Held
    BY DEF IInv
  <2>2. \A k \in Pipes : sock_pair[k][1] \in FD /\ sock_pair[k][2] \in FD
    BY <2>1 DEF TypeOK
  <2> QED BY <2>1, <2>2, EndsAreMade DEF TypeOK, Held
<1>2. fdt' = [f \in FD |-> IF f \in shut THEN Free ELSE fdt[f]]
  BY DEF Close
<1>3. \A f \in shut : fdt[f] \notin {Free, Host}
  BY <1>1, Owners
<1>4. fdt' \in [FD -> Open] /\ HostKept
  <2> HIDE DEF shut
  <2> QED BY <1>1, <1>2, <1>3, Owners DEF HostKept
<1>5. ASSUME ReadEnds' = ReadEnds \ rs, WriteEnds' = WriteEnds \ ws PROVE Held'
  <2>1. ASSUME NEW k \in ReadEnds \ rs PROVE sock_pair[k][1] \notin shut
    BY <1>1, Owners
  <2>2. ASSUME NEW k \in WriteEnds \ ws PROVE sock_pair[k][2] \notin shut
    BY <1>1, Owners
  <2> HIDE DEF shut
  <2> QED BY <1>1, <1>2, <1>5, <2>1, <2>2 DEF Held
<1>6. ASSUME ReadEnds' = ReadEnds \ rs, WriteEnds' = WriteEnds \ ws PROVE NothingElse'
  <2> SUFFICES ASSUME NEW f \in FD, NEW k \in Pipes
               PROVE  /\ fdt'[f] = R(k) => k \in ReadEnds \ rs  /\ f = sock_pair[k][1]
                      /\ fdt'[f] = W(k) => k \in WriteEnds \ ws /\ f = sock_pair[k][2]
    BY <1>6 DEF NothingElse
  <2>1. NothingElse
    BY DEF IInv
  <2>2. CASE f \in shut
    <3>1. fdt'[f] = Free
      BY <1>2, <2>2
    <3> QED BY <3>1, Owners
  <2>3. CASE f \notin shut
    <3>1. fdt'[f] = fdt[f]
      BY <1>2, <2>3
    <3> QED BY <2>1, <2>3, <3>1 DEF NothingElse
  <2> QED BY <2>2, <2>3
<1> QED BY <1>4, <1>5, <1>6

LEMMA UndoInv == ASSUME IInv, Undo PROVE IInv' /\ HostKept
<1> USE DEF Undo
<1>0. /\ pc = "undo" /\ pc' = "undo" /\ j' = j + 1 /\ j < i /\ Close(Ends(j))
      /\ i \in 0..4 /\ j \in 0..4 /\ UNCHANGED <<i, sock_pair, infd, outfd, cpc, cfd, moves>>
  <2>1. TypeOK /\ Counting
    BY DEF IInv
  <2>2. i \in Pipes /\ j \in 0..kPipes /\ j < i
    BY <2>1 DEF TypeOK, Counting
  <2>3. UNCHANGED <<cpc, cfd>>
    BY DEF kid
  <2>4. i \in 0..4 /\ j \in 0..4
    BY <2>2, Numbers
  <2> QED BY <2>3, <2>4
<1>1. Wired'
  BY <1>0, Unborn, StillUnborn
<1>2. /\ ReadEnds = j..i - 1 /\ WriteEnds = j..i - 1
      /\ ReadEnds' = j + 1..i - 1 /\ WriteEnds' = j + 1..i - 1
  BY <1>0 DEF ReadEnds, WriteEnds, Both
<1>3. /\ {j} \in SUBSET ReadEnds /\ {j} \in SUBSET WriteEnds
      /\ ReadEnds' = ReadEnds \ {j} /\ WriteEnds' = WriteEnds \ {j}
  BY <1>0, <1>2
<1>4. Ends(j) = {sock_pair[k][1] : k \in {j}} \cup {sock_pair[k][2] : k \in {j}}
  BY DEF Ends
<1>5. fdt' \in [FD -> Open] /\ HostKept /\ Held' /\ NothingElse'
  BY <1>0, <1>3, <1>4, Closed
<1>6. TypeOK'
  <2>1. TypeOK /\ j' \in 0..kPipes
    BY <1>0, Numbers DEF IInv
  <2> QED BY ONLY <1>0, <1>5, <2>1 DEF TypeOK
<1>7. ChecksPass' /\ Looking' /\ Chosen' /\ Counting'
  BY <1>0, Numbers DEF ChecksPass, Looking, Chosen, Counting
<1> QED BY <1>1, <1>5, <1>6, <1>7 DEF IInv

LEMMA UndoneInv == ASSUME IInv, Undone PROVE IInv'
<1> USE DEF Undone
<1>0. /\ pc = "undo" /\ pc' = "failed" /\ j = i /\ i \in 0..4
      /\ UNCHANGED <<fdt, i, j, sock_pair, infd, outfd, cpc, cfd, moves>>
  BY Numbers DEF IInv, Counting, kid
<1>1. Wired'
  BY <1>0, Unborn, StillUnborn
<1>2. ReadEnds = {} /\ WriteEnds = {} /\ ReadEnds' = {} /\ WriteEnds' = {}
  BY <1>0 DEF ReadEnds, WriteEnds, Both
<1>3. Held' /\ NothingElse'
  BY <1>0, <1>2 DEF IInv, Held, NothingElse
<1>4. TypeOK'
  <2>1. TypeOK
    BY DEF IInv
  <2> QED BY ONLY <1>0, <2>1 DEF TypeOK
<1>5. ChecksPass' /\ Looking' /\ Chosen' /\ Counting'
  BY <1>0 DEF ChecksPass, Looking, Chosen, Counting
<1> QED BY <1>1, <1>3, <1>4, <1>5 DEF IInv

\* What is known once the two pipes are chosen.
LEMMA Pair ==
  ASSUME IInv, pc \in {"tidy", "check", "fork", "close", "started"}
  PROVE  /\ infd \in 0..4 /\ outfd \in 0..4 /\ i \in 0..4 /\ infd < outfd /\ i = outfd
         /\ High(sock_pair[infd]) /\ High(sock_pair[outfd]) /\ infd # None /\ outfd # None
         /\ sock_pair[infd][1] \in FD /\ sock_pair[infd][2] \in FD
         /\ sock_pair[outfd][1] \in FD /\ sock_pair[outfd][2] \in FD
<1>1. /\ infd \in Pipes /\ outfd \in Pipes /\ infd < outfd /\ i = outfd
      /\ High(sock_pair[infd]) /\ High(sock_pair[outfd])
  BY DEF IInv, Chosen
<1>2. \A k \in Pipes : sock_pair[k][1] \in FD /\ sock_pair[k][2] \in FD
  BY DEF IInv, TypeOK
<1> QED BY <1>1, <1>2, Numbers

LEMMA TidyInv == ASSUME IInv, Tidy PROVE IInv' /\ HostKept
<1> USE DEF Tidy
<1>0. /\ pc = "tidy" /\ pc' = "tidy" /\ j' = j + 1 /\ j < i /\ j \in 0..4
      /\ UNCHANGED <<i, sock_pair, infd, outfd, cpc, cfd, moves>>
  <2>1. TypeOK
    BY DEF IInv
  <2>2. j \in 0..kPipes /\ j < i /\ i \in 0..4
    BY <2>1, Pair DEF TypeOK
  <2>3. UNCHANGED <<cpc, cfd>>
    BY DEF kid
  <2>4. j \in 0..4
    BY <2>2, Numbers
  <2> QED BY <2>3, <2>4
<1>1. Wired'
  BY <1>0, Unborn, StillUnborn
<1>2. /\ ReadEnds = {k \in 0..i : k >= j \/ k = infd} /\ WriteEnds = ReadEnds
      /\ ReadEnds' = {k \in 0..i : k >= j + 1 \/ k = infd} /\ WriteEnds' = ReadEnds'
  BY <1>0 DEF ReadEnds, WriteEnds, Both
<1>3. fdt' \in [FD -> Open] /\ HostKept /\ Held' /\ NothingElse'
  <2>1. CASE j = infd
    <3>1. ReadEnds' = ReadEnds /\ WriteEnds' = WriteEnds /\ UNCHANGED fdt
      BY <1>0, <1>2, <2>1, Pair
    <3>2. Held /\ NothingElse /\ fdt \in [FD -> Open]
      BY DEF IInv, TypeOK
    <3>3. UNCHANGED <<fdt, sock_pair>>
      BY <1>0, <3>1
    <3>4. Held' /\ NothingElse'
      BY ONLY <3>1, <3>2, <3>3 DEF Held, NothingElse
    <3> QED BY <3>2, <3>3, <3>4 DEF HostKept
  <2>2. CASE j # infd
    <3>1. /\ {j} \in SUBSET ReadEnds /\ {j} \in SUBSET WriteEnds
          /\ ReadEnds' = ReadEnds \ {j} /\ WriteEnds' = WriteEnds \ {j}
      BY <1>0, <1>2, <2>2, Pair
    <3>2. Close({sock_pair[k][1] : k \in {j}} \cup {sock_pair[k][2] : k \in {j}})
      <4>1. Ends(j) = {sock_pair[k][1] : k \in {j}} \cup {sock_pair[k][2] : k \in {j}}
        BY DEF Ends
      <4> QED BY <4>1, <2>2
    <3> QED BY <1>0, <3>1, <3>2, Closed
  <2> QED BY <2>1, <2>2
<1>4. TypeOK'
  <2>1. TypeOK /\ j' \in 0..kPipes
    BY <1>0, Numbers DEF IInv
  <2> QED BY ONLY <1>0, <1>3, <2>1 DEF TypeOK
<1>5. Chosen' /\ Counting'
  BY <1>0, Pair, Numbers DEF Chosen, Counting
<1>6. ChecksPass' /\ Looking'
  BY <1>0 DEF ChecksPass, Looking
<1> QED BY <1>1, <1>3, <1>4, <1>5, <1>6 DEF IInv

LEMMA TidiedInv == ASSUME IInv, Tidied PROVE IInv'
<1> USE DEF Tidied
<1>0. /\ pc = "tidy" /\ pc' = "check" /\ j = i
      /\ UNCHANGED <<fdt, i, j, sock_pair, infd, outfd, cpc, cfd, moves>>
  BY DEF kid
<1>1. Wired'
  BY <1>0, Unborn, StillUnborn
<1>2. /\ {k \in 0..i : k >= j \/ k = infd} = {infd, outfd}
  BY <1>0, Pair
<1>3. ReadEnds' = ReadEnds /\ WriteEnds' = WriteEnds
  BY <1>0, <1>2 DEF ReadEnds, WriteEnds, Both
<1>4. Held' /\ NothingElse'
  BY <1>0, <1>3 DEF IInv, Held, NothingElse
<1>5. TypeOK'
  <2>1. TypeOK
    BY DEF IInv
  <2> QED BY ONLY <1>0, <2>1 DEF TypeOK
<1>6. ChecksPass' /\ Looking' /\ Chosen' /\ Counting'
  BY <1>0 DEF IInv, ChecksPass, Looking, Chosen, Counting
<1> QED BY <1>1, <1>4, <1>5, <1>6 DEF IInv

LEMMA CheckInv == ASSUME IInv, Check PROVE IInv'
<1> USE DEF Check
<1>0. /\ pc = "check" /\ pc' = "fork"
      /\ UNCHANGED <<fdt, i, j, sock_pair, infd, outfd, cpc, cfd, moves>>
  BY Pair DEF kid
<1>1. Wired'
  BY <1>0, Unborn, StillUnborn
<1>2. ReadEnds' = ReadEnds /\ WriteEnds' = WriteEnds
  BY <1>0 DEF ReadEnds, WriteEnds, Both
<1>3. Held' /\ NothingElse'
  BY <1>0, <1>2 DEF IInv, Held, NothingElse
<1>4. TypeOK'
  <2>1. TypeOK
    BY DEF IInv
  <2> QED BY ONLY <1>0, <2>1 DEF TypeOK
<1>5. ChecksPass' /\ Looking' /\ Chosen' /\ Counting'
  BY <1>0 DEF IInv, ChecksPass, Looking, Chosen, Counting
<1> QED BY <1>1, <1>3, <1>4, <1>5 DEF IInv

-----------------------------------------------------------------------------
(* The fork and the child                                                  *)

LEMMA ForkFailsInv == ASSUME IInv, ForkFails PROVE IInv' /\ HostKept
<1> USE DEF ForkFails
<1>0. /\ pc = "fork" /\ pc' = "failed"
      /\ UNCHANGED <<i, j, sock_pair, infd, outfd, cpc, cfd, moves>>
  BY DEF kid
<1>1. Wired'
  BY <1>0, Unborn, StillUnborn
<1>2. ReadEnds = {infd, outfd} /\ WriteEnds = {infd, outfd} /\ ReadEnds' = {} /\ WriteEnds' = {}
  BY <1>0 DEF ReadEnds, WriteEnds, Both
<1>3. Close({sock_pair[k][1] : k \in {infd, outfd}} \cup {sock_pair[k][2] : k \in {infd, outfd}})
  <2>1. {stdin_fd, stdout_fd} \cup {input_fd, output_fd}
          = {sock_pair[k][1] : k \in {infd, outfd}} \cup {sock_pair[k][2] : k \in {infd, outfd}}
    BY DEF stdin_fd, stdout_fd, input_fd, output_fd
  <2> QED BY <2>1
<1>4. fdt' \in [FD -> Open] /\ HostKept /\ Held' /\ NothingElse'
  BY <1>0, <1>2, <1>3, Closed
<1>5. TypeOK'
  <2>1. TypeOK
    BY DEF IInv
  <2> QED BY ONLY <1>0, <1>4, <2>1 DEF TypeOK
<1>6. ChecksPass' /\ Looking' /\ Chosen' /\ Counting'
  BY <1>0 DEF ChecksPass, Looking, Chosen, Counting
<1> QED BY <1>1, <1>4, <1>5, <1>6 DEF IInv

\* The child starts with a copy of the table, in which nothing below 3 is a pipe.
LEMMA ForkInv == ASSUME IInv, Fork PROVE IInv'
<1> USE DEF Fork
<1>0. /\ pc = "fork" /\ pc' = "close" /\ cpc' = "stdin" /\ cfd' = fdt
      /\ UNCHANGED <<fdt, i, j, sock_pair, infd, outfd, moves>>
  OBVIOUS
<1>1. /\ ReadEnds = {infd, outfd} /\ WriteEnds = {infd, outfd}
      /\ ReadEnds' = ReadEnds /\ WriteEnds' = WriteEnds
  BY <1>0 DEF ReadEnds, WriteEnds, Both
<1>2. Held /\ NothingElse /\ TypeOK
  BY DEF IInv
<1>3. Held' /\ NothingElse'
  BY <1>0, <1>1, <1>2 DEF Held, NothingElse
<1>4. Wired'
  <2>1. fdt[stdin_fd] = R(outfd) /\ fdt[stdout_fd] = W(infd)
    BY <1>1, <1>2 DEF Held, stdin_fd, stdout_fd
  <2>2. ASSUME NEW f \in FD, f <= 2 PROVE fdt[f] \in {Free, Host}
    <3>1. \A k \in {infd, outfd} : f # sock_pair[k][1] /\ f # sock_pair[k][2]
      BY <1>0, <2>2, Pair, Numbers DEF High
    <3>2. \A k \in Pipes : fdt[f] # R(k) /\ fdt[f] # W(k)
      BY <1>1, <1>2, <3>1 DEF NothingElse
    <3>3. fdt[f] \in Open
      BY <1>2 DEF TypeOK
    <3> QED BY <3>2, <3>3, Owners
  <2>3. cfd'[stdin_fd'] = R(outfd') /\ cfd'[stdout_fd'] = W(infd')
    BY <1>0, <2>1 DEF stdin_fd, stdout_fd
  <2> QED BY <1>0, <2>2, <2>3 DEF Wired, ChildIsWired
<1>5. TypeOK'
  BY ONLY <1>0, <1>2 DEF TypeOK
<1>6. ChecksPass' /\ Looking' /\ Chosen' /\ Counting'
  BY <1>0 DEF IInv, ChecksPass, Looking, Chosen, Counting
<1> QED BY <1>3, <1>4, <1>5, <1>6 DEF IInv

\* The child's table depends on nothing the parent does after the fork.
LEMMA StillWired ==
  ASSUME Wired, pc' \in {"close", "started"}, UNCHANGED <<cpc, cfd, sock_pair, infd, outfd>>
  PROVE  Wired'
BY DEF Wired, ChildIsWired, stdin_fd, stdout_fd

LEMMA ParentClosesInv == ASSUME IInv, ParentCloses PROVE IInv' /\ HostKept
<1> USE DEF ParentCloses
<1>0. /\ pc = "close" /\ pc' = "started"
      /\ UNCHANGED <<i, j, sock_pair, infd, outfd, cpc, cfd, moves>>
  BY DEF kid
<1>1. Wired'
  BY <1>0, StillWired DEF IInv
<1>2. /\ ReadEnds = {infd, outfd} /\ WriteEnds = {infd, outfd}
      /\ ReadEnds' = {infd} /\ WriteEnds' = {outfd}
  BY <1>0 DEF ReadEnds, WriteEnds, Both
<1>3. infd # outfd
  BY <1>0, Pair
<1>4. /\ {outfd} \in SUBSET ReadEnds /\ {infd} \in SUBSET WriteEnds
      /\ ReadEnds' = ReadEnds \ {outfd} /\ WriteEnds' = WriteEnds \ {infd}
  BY <1>2, <1>3
<1>5. Close({sock_pair[k][1] : k \in {outfd}} \cup {sock_pair[k][2] : k \in {infd}})
  <2>1. {stdin_fd, stdout_fd} = {sock_pair[k][1] : k \in {outfd}} \cup {sock_pair[k][2] : k \in {infd}}
    BY DEF stdin_fd, stdout_fd
  <2> QED BY <2>1
<1>6. fdt' \in [FD -> Open] /\ HostKept /\ Held' /\ NothingElse'
  BY <1>0, <1>4, <1>5, Closed
<1>7. TypeOK'
  <2>1. TypeOK
    BY DEF IInv
  <2> QED BY ONLY <1>0, <1>6, <2>1 DEF TypeOK
<1>8. ChecksPass' /\ Looking' /\ Chosen' /\ Counting'
  BY <1>0 DEF IInv, ChecksPass, Looking, Chosen, Counting
<1> QED BY <1>1, <1>6, <1>7, <1>8 DEF IInv

\* A descriptor above stderr moved to a standard one.
LEMMA Move ==
  ASSUME TypeOK, NEW fd \in FD, NEW std \in {0, 1}, fd > 2, Moved(fd, std)
  PROVE  /\ cfd' \in [FD -> Open] /\ cfd'[std] = cfd[fd]
         /\ \A f \in FD \ {fd, std} : cfd'[f] = cfd[f]
<1>1. cfd \in [FD -> Open] /\ Free \in Open /\ std \in FD /\ fd # std
  <2>1. std = 0 \/ std = 1
    OBVIOUS
  <2>2. std \in FD /\ std # fd
    BY <2>1, Numbers
  <2> QED BY <2>2, Owners DEF TypeOK
<1>2. cfd' = [f \in FD |-> IF f = fd THEN Free ELSE IF f = std THEN cfd[fd] ELSE cfd[f]]
  BY DEF Moved
<1> QED BY ONLY <1>1, <1>2

\* The parent's side is not concerned by what the child does.
LEMMA ParentKept ==
  ASSUME IInv, UNCHANGED <<fdt, pc, i, j, sock_pair, infd, outfd>>
  PROVE  ChecksPass' /\ Held' /\ NothingElse' /\ Looking' /\ Chosen' /\ Counting'
<1>1. ChecksPass /\ Held /\ NothingElse /\ Looking /\ Chosen /\ Counting
  BY DEF IInv
<1>2. ReadEnds' = ReadEnds /\ WriteEnds' = WriteEnds
  BY DEF ReadEnds, WriteEnds, Both
<1>3. Held' /\ NothingElse'
  BY <1>1, <1>2 DEF Held, NothingElse
<1>4. ChecksPass' /\ Looking' /\ Chosen' /\ Counting'
  BY <1>1 DEF ChecksPass, Looking, Chosen, Counting
<1> QED BY <1>3, <1>4

\* The ends the child moves are above stderr.
LEMMA ChildsEnds ==
  ASSUME IInv, cpc # "unborn"
  PROVE  /\ pc \in {"close", "started"} /\ infd # outfd /\ infd \in Pipes /\ outfd \in Pipes
         /\ stdin_fd \in FD /\ stdin_fd > 2 /\ stdout_fd \in FD /\ stdout_fd > 2
<1>1. pc \in {"close", "started"}
  BY DEF IInv, Wired
<1> QED BY <1>1, Pair, Numbers DEF High, stdin_fd, stdout_fd

LEMMA ChildMovesStdinInv == ASSUME IInv, ChildMovesStdin PROVE IInv'
<1> USE DEF ChildMovesStdin
<1>0. /\ cpc = "stdin" /\ cpc' = "stdout" /\ Moved(stdin_fd, 0)
      /\ UNCHANGED <<fdt, pc, i, j, sock_pair, infd, outfd, moves>>
  BY DEF parent
<1>1. TypeOK /\ Wired
  BY DEF IInv
<1>2. /\ cfd' \in [FD -> Open] /\ cfd'[0] = cfd[stdin_fd]
      /\ \A f \in FD \ {stdin_fd, 0} : cfd'[f] = cfd[f]
  BY <1>0, <1>1, Move, ChildsEnds
<1>3. /\ cfd[stdin_fd] = R(outfd) /\ cfd[stdout_fd] = W(infd)
      /\ \A f \in FD : f <= 2 => cfd[f] \in {Free, Host}
  BY <1>0, <1>1 DEF Wired
<1>4. stdout_fd # stdin_fd /\ stdout_fd # 0
  BY <1>0, <1>3, Owners, ChildsEnds
<1>5. ASSUME NEW f \in FD \ {0}, f <= 2 PROVE cfd'[f] \in {Free, Host}
  <2>1. f # stdin_fd
    BY <1>0, <1>5, ChildsEnds, Numbers
  <2> QED BY <1>2, <1>3, <1>5, <2>1
<1>6. cfd'[stdout_fd'] = W(infd') /\ stdout_fd' = stdout_fd
  BY <1>0, <1>2, <1>3, <1>4, ChildsEnds DEF stdout_fd
<1>7. Wired'
  BY <1>0, <1>2, <1>3, <1>5, <1>6, ChildsEnds DEF Wired, ChildIsWired
<1>8. TypeOK'
  BY ONLY <1>0, <1>1, <1>2 DEF TypeOK
<1> QED BY <1>0, <1>7, <1>8, ParentKept DEF IInv

LEMMA ChildMovesStdoutInv == ASSUME IInv, ChildMovesStdout PROVE IInv'
<1> USE DEF ChildMovesStdout
<1>0. /\ cpc = "stdout" /\ cpc' = "close all" /\ Moved(stdout_fd, 1)
      /\ UNCHANGED <<fdt, pc, i, j, sock_pair, infd, outfd, moves>>
  BY DEF parent
<1>1. TypeOK /\ Wired
  BY DEF IInv
<1>2. /\ cfd' \in [FD -> Open] /\ cfd'[1] = cfd[stdout_fd]
      /\ \A f \in FD \ {stdout_fd, 1} : cfd'[f] = cfd[f]
  BY <1>0, <1>1, Move, ChildsEnds
<1>3. /\ cfd[0] = R(outfd) /\ cfd[stdout_fd] = W(infd)
      /\ \A f \in FD \ {0} : f <= 2 => cfd[f] \in {Free, Host}
  BY <1>0, <1>1 DEF Wired
<1>4. cfd'[0] = R(outfd) /\ cfd'[1] = W(infd)
  <2>1. 0 \in FD /\ stdout_fd > 2 /\ ~(0 > 2)
    BY <1>0, ChildsEnds, Numbers, Number
  <2>2. 0 \in FD \ {stdout_fd, 1}
    <3>1. 0 # stdout_fd /\ 0 # 1
      BY <2>1, Number
    <3> QED BY <2>1, <3>1
  <2> QED BY <1>2, <1>3, <2>2
<1>5. ASSUME NEW f \in FD \ {0, 1}, f <= 2 PROVE cfd'[f] \in {Free, Host}
  <2>1. f # stdout_fd
    <3>1. stdout_fd > 2 /\ stdout_fd \in FD
      BY <1>0, ChildsEnds
    <3>2. ~(f > 2)
      BY <1>5, Number
    <3> QED BY <3>1, <3>2
  <2> QED BY <1>2, <1>3, <1>5, <2>1
<1>7. Wired'
  BY <1>0, <1>4, <1>5, ChildsEnds DEF Wired, ChildIsWired
<1>8. TypeOK'
  BY ONLY <1>0, <1>1, <1>2 DEF TypeOK
<1> QED BY <1>0, <1>7, <1>8, ParentKept DEF IInv

LEMMA ChildExecsInv == ASSUME IInv, ChildExecs PROVE IInv'
<1> USE DEF ChildExecs
<1>0. /\ cpc = "close all" /\ cpc' = "exec"
      /\ cfd' = [f \in FD |-> IF f > 2 THEN Free ELSE cfd[f]]
      /\ UNCHANGED <<fdt, pc, i, j, sock_pair, infd, outfd, moves>>
  BY DEF parent
<1>1. TypeOK /\ Wired
  BY DEF IInv
<1>2. cfd' \in [FD -> Open]
  BY <1>0, <1>1, Owners DEF TypeOK
<1>3. /\ cfd[0] = R(outfd) /\ cfd[1] = W(infd)
      /\ \A f \in FD \ {0, 1} : f <= 2 => cfd[f] \in {Free, Host}
  BY <1>0, <1>1 DEF Wired
<1>4. cfd'[0] = R(outfd) /\ cfd'[1] = W(infd)
  <2>1. 0 \in FD /\ 1 \in FD /\ ~(0 > 2) /\ ~(1 > 2)
    BY Numbers, Number
  <2> QED BY <1>0, <1>3, <2>1
<1>5. ASSUME NEW f \in FD \ {0, 1} PROVE cfd'[f] \in {Free, Host}
  <2>1. CASE f > 2
    BY <1>0, <2>1
  <2>2. CASE ~(f > 2)
    <3>1. f <= 2
      BY <2>2, Number
    <3> QED BY <1>0, <1>3, <2>2, <3>1
  <2> QED BY <2>1, <2>2
<1>6. Wired'
  BY <1>0, <1>4, <1>5, ChildsEnds DEF Wired, ChildIsWired
<1>7. TypeOK'
  BY ONLY <1>0, <1>1, <1>2 DEF TypeOK
<1> QED BY <1>0, <1>6, <1>7, ParentKept DEF IInv

-----------------------------------------------------------------------------
(* The other threads                                                       *)

\* They turn a free number into one of the host's or back: no pipe end is touched.
LEMMA HostThreadsInv == ASSUME IInv, HostThreads PROVE IInv'
<1>1. PICK f \in FD : HostOpens(f) \/ HostCloses(f)
  BY DEF HostThreads
<1>0. UNCHANGED <<pc, i, j, sock_pair, infd, outfd, cpc, cfd>>
  BY <1>1 DEF HostOpens, HostCloses, parent, kid
<1>2. TypeOK /\ Held /\ NothingElse /\ Looking /\ Chosen /\ Counting /\ Wired /\ ChecksPass
  BY DEF IInv
<1>3. PICK o \in {Free, Host} : fdt' = [fdt EXCEPT ![f] = o]
  BY <1>1 DEF HostOpens, HostCloses
<1>4. fdt[f] \in {Free, Host} /\ moves < MaxHostMoves /\ moves' = moves + 1
  BY <1>1 DEF HostOpens, HostCloses
<1>5. /\ fdt' \in [FD -> Open] /\ fdt'[f] \in {Free, Host}
      /\ \A g \in FD \ {f} : fdt'[g] = fdt[g]
  BY <1>2, <1>3, Owners DEF TypeOK
<1>6. ReadEnds' = ReadEnds /\ WriteEnds' = WriteEnds
  BY <1>0 DEF ReadEnds, WriteEnds, Both
<1>7. Held'
  <2>1. \A k \in Pipes : sock_pair[k][1] \in FD /\ sock_pair[k][2] \in FD
    BY <1>2 DEF TypeOK
  <2>2. ASSUME NEW k \in ReadEnds PROVE fdt'[sock_pair[k][1]] = R(k)
    BY <1>2, <1>4, <1>5, <2>1, Owners, EndsAreMade DEF Held
  <2>3. ASSUME NEW k \in WriteEnds PROVE fdt'[sock_pair[k][2]] = W(k)
    BY <1>2, <1>4, <1>5, <2>1, Owners, EndsAreMade DEF Held
  <2> QED BY <1>0, <1>6, <2>2, <2>3 DEF Held
<1>8. NothingElse'
  <2>1. ASSUME NEW g \in FD, NEW k \in Pipes
        PROVE  /\ fdt'[g] = R(k) => k \in ReadEnds  /\ g = sock_pair[k][1]
               /\ fdt'[g] = W(k) => k \in WriteEnds /\ g = sock_pair[k][2]
    BY <1>2, <1>5, Owners DEF NothingElse
  <2> QED BY <1>0, <1>6, <2>1 DEF NothingElse
<1>9. TypeOK'
  <2>1. moves' \in 0..MaxHostMoves
    <3>1. moves \in 0..MaxHostMoves
      BY <1>2 DEF TypeOK
    <3> QED BY <1>4, <3>1, MovesAssumption
  <2> QED BY ONLY <1>0, <1>2, <1>5, <2>1 DEF TypeOK
<1>10. ChecksPass' /\ Looking' /\ Chosen' /\ Counting' /\ Wired'
  BY <1>0, <1>2 DEF ChecksPass, Looking, Chosen, Counting, Wired, ChildIsWired, stdin_fd, stdout_fd
<1> QED BY <1>7, <1>8, <1>9, <1>10 DEF IInv

LEMMA StutterInv == ASSUME IInv, UNCHANGED vars PROVE IInv'
<1>0. UNCHANGED <<fdt, pc, i, j, sock_pair, infd, outfd, cpc, cfd, moves>>
  BY DEF vars, parent, kid
<1>1. TypeOK /\ Wired
  BY DEF IInv
<1>2. TypeOK'
  BY ONLY <1>0, <1>1 DEF TypeOK
<1>3. Wired'
  BY <1>0, <1>1 DEF Wired, ChildIsWired, stdin_fd, stdout_fd
<1> QED BY <1>0, <1>2, <1>3, ParentKept DEF IInv

LEMMA StepInv == IInv /\ [Next]_vars => IInv'
<1> SUFFICES ASSUME IInv, [Next]_vars PROVE IInv'
  OBVIOUS
<1>1. CASE CreateTwoHighNumberedPipes
  BY <1>1, PipeFailsInv, PipeTooLowInv, FirstPipeInv, SecondPipeInv, UndoInv, UndoneInv,
     TidyInv, TidiedInv, CheckInv DEF CreateTwoHighNumberedPipes
<1>2. CASE Start
  BY <1>2, ForkInv, ForkFailsInv, ParentClosesInv, ChildMovesStdinInv, ChildMovesStdoutInv,
     ChildExecsInv DEF Start
<1>3. CASE HostThreads
  BY <1>3, HostThreadsInv
<1>4. CASE UNCHANGED vars
  BY <1>4, StutterInv
<1> QED BY <1>1, <1>2, <1>3, <1>4 DEF Next, Done

-----------------------------------------------------------------------------
(* Theorems                                                                *)

\* The inductive invariant of pipe creation, fork and the child's rewiring holds
\* for any limit on descriptors, any set of open ones and any number of moves.
THEOREM Invariance == Spec => []IInv
BY InitInv, StepInv, PTL DEF Spec

\* Every variable of the parent and of the child keeps its type.
THEOREM TypeCorrect == Spec => []TypeOK
<1>1. IInv => TypeOK
  BY DEF IInv
<1> QED BY <1>1, Invariance, PTL

\* The CHECKs after the loop of CreateTwoHighNumberedPipes never fail: of five
\* pipes, at most three have an end below 3.
THEOREM FivePipesSuffice == Spec => []ChecksPass
<1>1. IInv => ChecksPass
  BY DEF IInv
<1> QED BY <1>1, Invariance, PTL

\* The program the child executes reads and writes the two pipes of the parent on
\* its stdin and stdout, and holds nothing else of any pipe.
THEOREM ChildGetsItsStreams == Spec => []ChildIsWired
<1>1. IInv => ChildIsWired
  BY DEF IInv, Wired
<1> QED BY <1>1, Invariance, PTL

\* StartSubprocess leaves the parent with its own two ends, or with none when it
\* fails, and closes every other pipe it made.
THEOREM NoPipeIsLost == Spec => []NothingLost
<1>1. IInv => NothingLost
  <2> SUFFICES ASSUME IInv PROVE NothingLost
    OBVIOUS
  <2>1. Held /\ NothingElse /\ fdt \in [FD -> Open]
    BY DEF IInv, TypeOK
  <2>2. ASSUME pc = "failed", NEW f \in FD PROVE fdt[f] \in {Free, Host}
    <3>1. ReadEnds = {} /\ WriteEnds = {}
      BY <2>2 DEF ReadEnds, WriteEnds, Both
    <3> QED BY <2>1, <3>1, Owners DEF NothingElse
  <2>3. ASSUME pc = "started"
        PROVE  /\ input_fd > 2 /\ fdt[input_fd] = R(infd)
               /\ output_fd > 2 /\ fdt[output_fd] = W(outfd)
               /\ \A f \in FD : fdt[f] \in {Free, Host} \/ f \in {input_fd, output_fd}
    <3>1. ReadEnds = {infd} /\ WriteEnds = {outfd}
      BY <2>3 DEF ReadEnds, WriteEnds, Both
    <3>2. input_fd > 2 /\ output_fd > 2
      BY <2>3, Pair DEF High, input_fd, output_fd
    <3>3. fdt[input_fd] = R(infd) /\ fdt[output_fd] = W(outfd)
      BY <2>1, <3>1 DEF Held, input_fd, output_fd
    <3>4. ASSUME NEW f \in FD PROVE fdt[f] \in {Free, Host} \/ f \in {input_fd, output_fd}
      BY <2>1, <3>1, Owners DEF NothingElse, input_fd, output_fd
    <3> QED BY <3>2, <3>3, <3>4
  <2> QED BY <2>2, <2>3 DEF NothingLost
<1> QED BY <1>1, Invariance, PTL

\* Only the host closes a descriptor of the host: the library never closes a number
\* that another thread got in the meantime.
THEOREM HostKeepsDescriptors == Spec => HostDescriptorsUntouched
<1> DEFINE Kept == \A f \in FD : fdt[f] = Host => fdt'[f] = Host \/ HostCloses(f)
<1>1. ASSUME IInv, [Next]_vars PROVE [Kept]_vars
  <2>1. ASSUME NEW a \in FD, NEW b \in FD, PipeOpens(a, b) PROVE Kept
    <3>1. fdt[a] = Free /\ fdt[b] = Free /\ fdt' = [fdt EXCEPT ![a] = R(i), ![b] = W(i)]
      BY <2>1 DEF PipeOpens, Lowest
    <3>2. fdt \in [FD -> Open]
      BY <1>1 DEF IInv, TypeOK
    <3> QED BY <3>1, <3>2, Owners
  <2>2. CASE CreateTwoHighNumberedPipes
    <3>1. CASE Undo \/ Tidy
      BY <1>1, <3>1, UndoInv, TidyInv DEF HostKept
    <3>2. CASE PipeFails \/ Undone \/ Tidied \/ Check
      BY <3>2 DEF PipeFails, Undone, Tidied, Check
    <3>3. CASE \E a, b \in FD : PipeTooLow(a, b) \/ FirstPipe(a, b) \/ SecondPipe(a, b)
      <4>1. PICK a \in FD, b \in FD : PipeOpens(a, b)
        BY <3>3 DEF PipeTooLow, FirstPipe, SecondPipe
      <4> QED BY <2>1, <4>1
    <3> QED BY <2>2, <3>1, <3>2, <3>3 DEF CreateTwoHighNumberedPipes
  <2>3. CASE Start
    <3>1. CASE ForkFails \/ ParentCloses
      BY <1>1, <3>1, ForkFailsInv, ParentClosesInv DEF HostKept
    <3>2. CASE Fork \/ ChildMovesStdin \/ ChildMovesStdout \/ ChildExecs
      BY <3>2 DEF Fork, ChildMovesStdin, ChildMovesStdout, ChildExecs
    <3> QED BY <2>3, <3>1, <3>2 DEF Start
  <2>4. CASE HostThreads
    <3>1. PICK g \in FD : HostOpens(g) \/ HostCloses(g)
      BY <2>4 DEF HostThreads
    <3>2. fdt \in [FD -> Open]
      BY <1>1 DEF IInv, TypeOK
    <3>3. CASE HostOpens(g)
      BY <3>2, <3>3, Owners DEF HostOpens
    <3>4. CASE HostCloses(g)
      <4>1. fdt' = [fdt EXCEPT ![g] = Free]
        BY <3>4 DEF HostCloses
      <4>2. \A f \in FD : f = g \/ fdt'[f] = fdt[f]
        BY <3>2, <4>1
      <4> QED BY <3>4, <4>2
    <3> QED BY <3>1, <3>3, <3>4
  <2> QED BY <1>1, <2>2, <2>3, <2>4 DEF Next, Done
<1> QED BY <1>1, Invariance, PTL DEF Spec, HostDescriptorsUntouched

=============================================================================
