-------------------------- MODULE Addr2LinePoolProofs --------------------------
(***************************************************************************)
(* The pool is sound, answers come from the right binary and no child is   *)
(* forgotten, for any set of modules, bound of the pool and number of      *)
(* children.                                                               *)
(***************************************************************************)
EXTENDS Addr2LinePoolRefinement, FunctionTheorems, FiniteSetTheorems, TLAPS

\* A process holds a child that was started, on its own module, and shares it with
\* no other process.
ChildrenAreOwn ==
  /\ \A n \in DOMAIN pool : pool[n].child # None =>
       pool[n].child \in DOMAIN kids /\ kids[pool[n].child].module = pool[n].module
  /\ \A n, l \in DOMAIN pool : pool[n].child = pool[l].child /\ pool[n].child # None => n = l

\* A process is only made when there is none for its module, and room for it.
RoomForNew ==
  pc = "new" => Len(pool) < POOLMAX /\ \A n \in DOMAIN pool : pool[n].module # asked

\* The answer is kept until the next request.
ReplyIsFresh == reply # None => pc = "idle" /\ reply \in DOMAIN kids

Bounded == Len(kids) <= MaxChildren

IInv == /\ TypeOK /\ Bounded /\ PoolInOrder /\ ChildrenAreOwn /\ RoomForNew
        /\ ReplyIsFresh /\ ReplyFromRightModule /\ NoOrphan

-----------------------------------------------------------------------------
LEMMA InitInv == Init => IInv
BY PoolMaxAssumption, ChildrenAssumption
   DEF Init, IInv, TypeOK, Bounded, PoolInOrder, ChildrenAreOwn, RoomForNew, ReplyIsFresh,
       ReplyFromRightModule, NoOrphan, None, Process, Kid

\* A function on the indices of a sequence is a sequence of the same length.
LEMMA SameLength ==
  ASSUME NEW S, NEW T, NEW s \in Seq(T), NEW f \in [DOMAIN s -> S]
  PROVE  f \in Seq(S) /\ Len(f) = Len(s) /\ DOMAIN f = DOMAIN s
<1>1. Len(s) \in Nat /\ DOMAIN s = 1..Len(s)
  OBVIOUS
<1>2. f \in Seq(S)
  BY <1>1
<1> QED BY <1>1, <1>2

\* Closing the input of a child changes nothing but its state.
LEMMA Closed ==
  ASSUME NEW k, kids \in Seq(Kid)
  PROVE  /\ CloseInput(k) \in Seq(Kid) /\ Len(CloseInput(k)) = Len(kids)
         /\ DOMAIN CloseInput(k) = DOMAIN kids
         /\ \A n \in DOMAIN kids : /\ CloseInput(k)[n].module = kids[n].module
                                   /\ CloseInput(k)[n].state = "running" => kids[n].state = "running" /\ n # k
<1>1. ASSUME NEW n \in DOMAIN kids
      PROVE  /\ CloseInput(k)[n] \in Kid /\ CloseInput(k)[n].module = kids[n].module
             /\ CloseInput(k)[n].state = "running" => kids[n].state = "running" /\ n # k
  <2>1. kids[n] \in Kid
    OBVIOUS
  <2> QED BY <2>1 DEF CloseInput, Kid
<1>2. CloseInput(k) \in [DOMAIN kids -> Kid]
  BY <1>1 DEF CloseInput
<1> QED BY <1>1, <1>2, SameLength

\* A child's state may be set without touching anything else.
LEMMA StateSet ==
  ASSUME kids \in Seq(Kid), NEW k \in DOMAIN kids, NEW st \in {"leaving", "dead"},
         kids' = [kids EXCEPT ![k].state = st]
  PROVE  /\ kids' \in Seq(Kid) /\ DOMAIN kids' = DOMAIN kids /\ Len(kids') = Len(kids)
         /\ \A c \in DOMAIN kids : /\ kids'[c].module = kids[c].module
                                   /\ kids'[c].state = "running" => kids[c].state = "running"
<1>1. ASSUME NEW c \in DOMAIN kids
      PROVE  /\ kids'[c] \in Kid /\ kids'[c].module = kids[c].module
             /\ kids'[c].state = "running" => kids[c].state = "running"
  <2>1. kids[c] \in Kid
    OBVIOUS
  <2> QED BY <2>1 DEF Kid
<1>2. kids' \in [DOMAIN kids -> Kid]
  BY <1>1
<1> QED BY <1>1, <1>2, SameLength

\* The same for the fields of a process in the pool.
LEMMA ChildSet ==
  ASSUME pool \in Seq(Process), NEW n \in DOMAIN pool, NEW k \in {None} \cup 1..MaxChildren,
         pool' = [pool EXCEPT ![n].child = k]
  PROVE  /\ pool' \in Seq(Process) /\ DOMAIN pool' = DOMAIN pool /\ Len(pool') = Len(pool)
         /\ pool'[n].child = k /\ \A l \in DOMAIN pool : l # n => pool'[l] = pool[l]
         /\ \A l \in DOMAIN pool : pool'[l].module = pool[l].module /\ pool'[l].gone = pool[l].gone
<1>1. ASSUME NEW l \in DOMAIN pool
      PROVE  /\ pool'[l] \in Process
             /\ pool'[l].module = pool[l].module /\ pool'[l].gone = pool[l].gone
             /\ l # n => pool'[l] = pool[l]
             /\ l = n => pool'[l].child = k
  <2>1. pool[l] \in Process
    OBVIOUS
  <2>2. CASE l = n
    <3>1. pool'[l] = [pool[l] EXCEPT !.child = k]
      BY <2>2
    <3> QED BY <2>1, <2>2, <3>1 DEF Process
  <2>3. CASE l # n
    BY <2>1, <2>3
  <2> QED BY <2>2, <2>3
<1>2. pool' \in [DOMAIN pool -> Process]
  BY <1>1
<1>3. pool' \in Seq(Process) /\ DOMAIN pool' = DOMAIN pool /\ Len(pool') = Len(pool)
  BY ONLY <1>2, SameLength, pool \in Seq(Process)
<1> QED BY ONLY <1>1, <1>3, n \in DOMAIN pool

LEMMA GoneSet ==
  ASSUME pool \in Seq(Process), NEW n \in DOMAIN pool, pool' = [pool EXCEPT ![n].gone = TRUE]
  PROVE  /\ pool' \in Seq(Process) /\ DOMAIN pool' = DOMAIN pool /\ Len(pool') = Len(pool)
         /\ \A l \in DOMAIN pool : pool'[l].module = pool[l].module /\ pool'[l].child = pool[l].child
         /\ pool'[n].gone /\ \A l \in DOMAIN pool : l # n => pool'[l] = pool[l]
<1>1. ASSUME NEW l \in DOMAIN pool
      PROVE  /\ pool'[l] \in Process
             /\ pool'[l].module = pool[l].module /\ pool'[l].child = pool[l].child
             /\ l # n => pool'[l] = pool[l]
             /\ l = n => pool'[l].gone
  <2>1. pool[l] \in Process
    OBVIOUS
  <2> QED BY <2>1 DEF Process
<1>2. pool' \in [DOMAIN pool -> Process]
  BY <1>1
<1>3. pool' \in Seq(Process) /\ DOMAIN pool' = DOMAIN pool /\ Len(pool') = Len(pool)
  BY ONLY <1>2, SameLength, pool \in Seq(Process)
<1> QED BY ONLY <1>1, <1>3, n \in DOMAIN pool

LEMMA IntervalSize == ASSUME NEW n \in Nat PROVE IsFiniteSet(1..n) /\ Cardinality(1..n) = n
<1>1. IsFiniteSet(1..n) /\ Cardinality(1..n) = IF 1 > n THEN 0 ELSE n - 1 + 1
  BY FS_Interval
<1>2. n = IF 1 > n THEN 0 ELSE n - 1 + 1
  OBVIOUS
<1> QED BY ONLY <1>1, <1>2

USE DEF None

LEMMA RequestInv == ASSUME IInv, NEW m \in Module, Request(m) PROVE IInv'
<1> USE DEF IInv, Request
<1>1. TypeOK' /\ Bounded'
  BY DEF TypeOK, Bounded
<1>2. PoolInOrder' /\ ChildrenAreOwn'
  BY DEF PoolInOrder, ChildrenAreOwn
<1>3. RoomForNew'
  BY PoolMaxAssumption DEF RoomForNew, PoolInOrder, TypeOK
<1>4. ReplyIsFresh' /\ ReplyFromRightModule'
  BY DEF ReplyIsFresh, ReplyFromRightModule
<1>5. NoOrphan'
  BY DEF NoOrphan, TypeOK
<1> QED BY <1>1, <1>2, <1>3, <1>4, <1>5

LEMMA StopInv == ASSUME IInv, StopTheWorld PROVE IInv'
<1> USE DEF IInv, StopTheWorld
<1>1. TypeOK' /\ Bounded'
  BY DEF TypeOK, Bounded
<1>2. PoolInOrder' /\ ChildrenAreOwn' /\ RoomForNew' /\ ReplyIsFresh' /\ ReplyFromRightModule'
  BY DEF PoolInOrder, ChildrenAreOwn, RoomForNew, ReplyIsFresh, ReplyFromRightModule
<1>3. NoOrphan'
  BY DEF NoOrphan, TypeOK
<1> QED BY <1>1, <1>2, <1>3

LEMMA FlushOneInv == ASSUME IInv, FlushOne PROVE IInv'
<1> USE DEF IInv, FlushOne
<1> DEFINE k == pool[i].child
<1>0. /\ kids' = CloseInput(k) /\ kids' \in Seq(Kid) /\ Len(kids') = Len(kids) /\ DOMAIN kids' = DOMAIN kids
      /\ \A n \in DOMAIN kids : /\ kids'[n].module = kids[n].module
                                /\ kids'[n].state = "running" => kids[n].state = "running" /\ n # k
  BY Closed DEF TypeOK
<1>1. TypeOK' /\ Bounded'
  BY <1>0 DEF TypeOK, Bounded
<1>2. PoolInOrder' /\ RoomForNew'
  BY DEF PoolInOrder, RoomForNew
<1>3. ChildrenAreOwn' /\ ReplyIsFresh' /\ ReplyFromRightModule'
  BY <1>0 DEF ChildrenAreOwn, ReplyIsFresh, ReplyFromRightModule
<1>4. NoOrphan'
  <2> SUFFICES ASSUME NEW c \in DOMAIN kids, kids'[c].state = "running"
               PROVE  \E n \in DOMAIN pool :
                        /\ pool[n].child = c /\ pool[n].module = kids[c].module
                        /\ n >= i + 1
                        /\ \A l \in DOMAIN pool : pool[l].child = c => l = n
    BY <1>0 DEF NoOrphan
  <2>1. kids[c].state = "running" /\ c # k
    BY <1>0
  <2>2. PICK n \in DOMAIN pool : /\ pool[n].child = c /\ pool[n].module = kids[c].module
                                 /\ n >= i
                                 /\ \A l \in DOMAIN pool : pool[l].child = c => l = n
    BY <2>1 DEF NoOrphan
  <2>3. n # i
    BY <2>1, <2>2
  <2> QED BY <2>2, <2>3 DEF TypeOK
<1> QED BY <1>1, <1>2, <1>3, <1>4

LEMMA FlushedInv == ASSUME IInv, Flushed PROVE IInv'
<1> USE DEF IInv, Flushed
<1>1. TypeOK' /\ Bounded'
  BY DEF TypeOK, Bounded
<1>2. PoolInOrder' /\ ChildrenAreOwn' /\ RoomForNew'
  BY PoolMaxAssumption DEF PoolInOrder, ChildrenAreOwn, RoomForNew
<1>3. ReplyIsFresh' /\ ReplyFromRightModule'
  BY DEF ReplyIsFresh, ReplyFromRightModule
<1>4. NoOrphan'
  <2>1. \A n \in DOMAIN pool : ~(n >= i)
    BY DEF TypeOK
  <2> QED BY <2>1 DEF NoOrphan
<1> QED BY <1>1, <1>2, <1>3, <1>4

LEMMA NewProcessInv == ASSUME IInv, NewProcess PROVE IInv'
<1> USE DEF IInv, NewProcess
<1> DEFINE p == [module |-> asked, child |-> None, gone |-> FALSE]
<1>0. /\ pool \in Seq(Process) /\ p \in Process
      /\ pool' = Append(pool, p) /\ DOMAIN pool' = 1..Len(pool) + 1 /\ DOMAIN pool = 1..Len(pool)
      /\ pool'[Len(pool) + 1] = p /\ \A n \in DOMAIN pool : pool'[n] = pool[n]
  BY DEF TypeOK, Process
<1>1. TypeOK' /\ Bounded'
  BY <1>0 DEF TypeOK, Bounded
<1>2. PoolInOrder'
  BY <1>0, PoolMaxAssumption DEF PoolInOrder, RoomForNew
<1>3. ChildrenAreOwn'
  <2>1. \A n \in DOMAIN pool' : pool'[n].child # None => n \in DOMAIN pool
    BY <1>0
  <2> QED BY <1>0, <2>1 DEF ChildrenAreOwn
<1>4. RoomForNew' /\ ReplyIsFresh' /\ ReplyFromRightModule'
  BY DEF RoomForNew, ReplyIsFresh, ReplyFromRightModule
<1>5. NoOrphan'
  <2> SUFFICES ASSUME NEW c \in DOMAIN kids, kids[c].state = "running"
               PROVE  \E n \in DOMAIN pool' :
                        /\ pool'[n].child = c /\ pool'[n].module = kids[c].module
                        /\ \A l \in DOMAIN pool' : pool'[l].child = c => l = n
    BY DEF NoOrphan
  <2>1. PICK n \in DOMAIN pool : /\ pool[n].child = c /\ pool[n].module = kids[c].module
                                 /\ \A l \in DOMAIN pool : pool[l].child = c => l = n
    BY DEF NoOrphan
  <2>2. c # None
    BY DEF TypeOK
  <2> QED BY <1>0, <2>1, <2>2
<1> QED BY <1>1, <1>2, <1>3, <1>4, <1>5

LEMMA RestartsInv == ASSUME IInv, NEW n \in 1..Len(pool), Restarts(n) PROVE IInv'
<1> USE DEF IInv, Restarts
<1> DEFINE k == pool[n].child
<1>0. /\ kids' \in Seq(Kid) /\ Len(kids') = Len(kids) /\ DOMAIN kids' = DOMAIN kids
      /\ \A c \in DOMAIN kids : /\ kids'[c].module = kids[c].module
                                /\ kids'[c].state = "running" => kids[c].state = "running" /\ c # k
  BY Closed DEF TypeOK
<1>1. /\ n \in DOMAIN pool
      /\ pool' \in Seq(Process) /\ DOMAIN pool' = DOMAIN pool /\ Len(pool') = Len(pool)
      /\ pool'[n].child = None /\ \A l \in DOMAIN pool : l # n => pool'[l] = pool[l]
      /\ \A l \in DOMAIN pool : pool'[l].module = pool[l].module
  <2>1. pool \in Seq(Process) /\ n \in DOMAIN pool
    BY DEF TypeOK
  <2>2. pool' = [pool EXCEPT ![n].child = None]
    OBVIOUS
  <2> QED BY ONLY <2>1, <2>2, ChildSet
<1>2. TypeOK' /\ Bounded'
  BY <1>0, <1>1 DEF TypeOK, Bounded
<1>3. PoolInOrder' /\ RoomForNew'
  BY <1>1 DEF PoolInOrder, RoomForNew
<1>4. ChildrenAreOwn'
  BY <1>0, <1>1 DEF ChildrenAreOwn
<1>5. ReplyIsFresh' /\ ReplyFromRightModule'
  BY <1>0 DEF ReplyIsFresh, ReplyFromRightModule
<1>6. NoOrphan'
  <2> SUFFICES ASSUME NEW c \in DOMAIN kids, kids'[c].state = "running"
               PROVE  \E l \in DOMAIN pool' :
                        /\ pool'[l].child = c /\ pool'[l].module = kids'[c].module
                        /\ \A j \in DOMAIN pool' : pool'[j].child = c => j = l
    BY <1>0 DEF NoOrphan
  <2>1. kids[c].state = "running" /\ c # k /\ kids'[c].module = kids[c].module /\ c # None
    BY <1>0 DEF TypeOK
  <2>2. PICK l \in DOMAIN pool : /\ pool[l].child = c /\ pool[l].module = kids[c].module
                                 /\ \A j \in DOMAIN pool : pool[j].child = c => j = l
    BY <2>1 DEF NoOrphan
  <2>3. l # n
    BY <2>1, <2>2
  <2> QED BY <1>1, <2>1, <2>2, <2>3
<1> QED BY <1>2, <1>3, <1>4, <1>5, <1>6

LEMMA StartsInv == ASSUME IInv, NEW n \in 1..Len(pool), Starts(n) PROVE IInv'
<1> USE DEF IInv, Starts
<1> DEFINE new == [module |-> pool[n].module, state |-> "running"]
           k   == Len(kids) + 1
<1>0. /\ kids \in Seq(Kid) /\ new \in Kid /\ kids' = Append(kids, new) /\ Len(kids') = k
      /\ DOMAIN kids = 1..Len(kids) /\ DOMAIN kids' = 1..k /\ k \in 1..MaxChildren
      /\ kids'[k] = new /\ \A c \in DOMAIN kids : kids'[c] = kids[c]
  <2>1. pool[n] \in Process
    BY DEF TypeOK
  <2>2. kids \in Seq(Kid) /\ new \in Kid /\ Len(kids) < MaxChildren
    BY <2>1 DEF TypeOK, Kid, Process
  <2>3. kids' = Append(kids, new)
    OBVIOUS
  <2> HIDE DEF new, Starts, IInv
  <2> QED BY <2>2, <2>3, ChildrenAssumption
<1>1. /\ pool \in Seq(Process) /\ n \in DOMAIN pool
      /\ pool' \in Seq(Process) /\ DOMAIN pool' = DOMAIN pool /\ Len(pool') = Len(pool)
      /\ pool'[n].child = k /\ \A l \in DOMAIN pool : l # n => pool'[l] = pool[l]
      /\ \A l \in DOMAIN pool : pool'[l].module = pool[l].module
  <2>1. pool \in Seq(Process) /\ n \in DOMAIN pool /\ k \in {None} \cup 1..MaxChildren
    BY <1>0 DEF TypeOK
  <2>2. pool' = [pool EXCEPT ![n].child = k]
    OBVIOUS
  <2> QED BY ONLY <2>1, <2>2, ChildSet
<1>2. \A l \in DOMAIN pool : pool[l].child # k
  BY <1>0 DEF ChildrenAreOwn
<1>3. TypeOK' /\ Bounded'
  BY <1>0, <1>1, ChildrenAssumption DEF TypeOK, Bounded
<1>4. PoolInOrder' /\ RoomForNew'
  BY <1>1 DEF PoolInOrder, RoomForNew
<1>5. ChildrenAreOwn'
  BY <1>0, <1>1, <1>2 DEF ChildrenAreOwn
<1>6. ReplyIsFresh' /\ ReplyFromRightModule'
  BY <1>0 DEF ReplyIsFresh, ReplyFromRightModule
<1>7. NoOrphan'
  <2> SUFFICES ASSUME NEW c \in DOMAIN kids', kids'[c].state = "running"
               PROVE  \E l \in DOMAIN pool' :
                        /\ pool'[l].child = c /\ pool'[l].module = kids'[c].module
                        /\ \A j \in DOMAIN pool' : pool'[j].child = c => j = l
    BY DEF NoOrphan
  <2>1. CASE c = k
    BY <2>1, <1>0, <1>1, <1>2
  <2>2. CASE c # k
    <3>1. c \in DOMAIN kids /\ kids[c].state = "running" /\ kids'[c] = kids[c]
      BY <2>2, <1>0
    <3>2. PICK l \in DOMAIN pool : /\ pool[l].child = c /\ pool[l].module = kids[c].module
                                   /\ \A j \in DOMAIN pool : pool[j].child = c => j = l
      BY <3>1 DEF NoOrphan
    <3>3. l # n
      BY <3>1, <3>2, <1>0
    <3> QED BY <3>1, <3>2, <3>3, <2>2, <1>1
  <2> QED BY <2>1, <2>2
<1> QED BY <1>3, <1>4, <1>5, <1>6, <1>7

LEMMA AnswersInv == ASSUME IInv, NEW n \in 1..Len(pool), Answers(n) PROVE IInv'
<1> USE DEF IInv, Answers
<1>1. TypeOK' /\ Bounded'
  <2>1. pool[n] \in Process
    BY DEF TypeOK
  <2>2. reply' \in 1..MaxChildren
    BY <2>1 DEF Process
  <2> QED BY <2>2 DEF TypeOK, Bounded
<1>2. PoolInOrder' /\ ChildrenAreOwn' /\ RoomForNew'
  BY DEF PoolInOrder, ChildrenAreOwn, RoomForNew
<1>3. ReplyIsFresh' /\ ReplyFromRightModule'
  <2>1. n \in DOMAIN pool /\ pool[n].module = asked
    BY DEF IsFor
  <2>2. pool[n].child \in DOMAIN kids /\ kids[pool[n].child].module = asked
    BY <2>1 DEF ChildrenAreOwn
  <2> QED BY <2>2 DEF ReplyIsFresh, ReplyFromRightModule
<1>4. NoOrphan'
  BY DEF NoOrphan
<1> QED BY <1>1, <1>2, <1>3, <1>4

LEMMA FailsInv == ASSUME IInv, NEW n \in 1..Len(pool), Fails(n) PROVE IInv'
<1> USE DEF IInv, Fails
<1>1. /\ pool' \in Seq(Process) /\ DOMAIN pool' = DOMAIN pool /\ Len(pool') = Len(pool)
      /\ \A l \in DOMAIN pool : pool'[l].module = pool[l].module /\ pool'[l].child = pool[l].child
  <2>1. pool \in Seq(Process) /\ n \in DOMAIN pool
    BY DEF TypeOK
  <2>2. pool' = [pool EXCEPT ![n].gone = TRUE]
    OBVIOUS
  <2> QED BY ONLY <2>1, <2>2, GoneSet
<1>2. TypeOK' /\ Bounded'
  BY <1>1 DEF TypeOK, Bounded
<1>3. PoolInOrder' /\ ChildrenAreOwn' /\ RoomForNew'
  BY <1>1 DEF PoolInOrder, ChildrenAreOwn, RoomForNew
<1>4. ReplyIsFresh' /\ ReplyFromRightModule'
  BY DEF ReplyIsFresh, ReplyFromRightModule
<1>5. NoOrphan'
  BY <1>1 DEF NoOrphan
<1> QED BY <1>2, <1>3, <1>4, <1>5

LEMMA ChildInv ==
  ASSUME IInv, NEW k \in 1..Len(kids), ChildLeaves(k) \/ ChildIsGone(k) PROVE IInv'
<1> USE DEF IInv, ChildLeaves, ChildIsGone
<1>1. /\ kids' \in Seq(Kid) /\ DOMAIN kids' = DOMAIN kids /\ Len(kids') = Len(kids)
      /\ \A c \in DOMAIN kids : /\ kids'[c].module = kids[c].module
                                /\ kids'[c].state = "running" => kids[c].state = "running"
  <2>1. kids \in Seq(Kid) /\ k \in DOMAIN kids
    BY DEF TypeOK
  <2>2. \/ kids' = [kids EXCEPT ![k].state = "leaving"]
        \/ kids' = [kids EXCEPT ![k].state = "dead"]
    OBVIOUS
  <2> QED BY ONLY <2>1, <2>2, StateSet
<1>2. TypeOK' /\ Bounded'
  BY <1>1 DEF TypeOK, Bounded
<1>3. PoolInOrder' /\ RoomForNew'
  BY DEF PoolInOrder, RoomForNew
<1>4. ChildrenAreOwn' /\ ReplyIsFresh' /\ ReplyFromRightModule'
  BY <1>1 DEF ChildrenAreOwn, ReplyIsFresh, ReplyFromRightModule
<1>5. NoOrphan'
  BY <1>1 DEF NoOrphan
<1> QED BY <1>2, <1>3, <1>4, <1>5

LEMMA StutterInv == ASSUME IInv, UNCHANGED vars PROVE IInv'
BY DEF vars, IInv, TypeOK, Bounded, PoolInOrder, ChildrenAreOwn, RoomForNew, ReplyIsFresh,
       ReplyFromRightModule, NoOrphan

LEMMA StepInv == IInv /\ [Next]_vars => IInv'
<1> SUFFICES ASSUME IInv, [Next]_vars PROVE IInv'
  OBVIOUS
<1> QED
  BY RequestInv, StopInv, FlushOneInv, FlushedInv, NewProcessInv, RestartsInv, StartsInv, AnswersInv, FailsInv,
     ChildInv, StutterInv DEF Next, Done

-----------------------------------------------------------------------------
\* The invariant of the pool holds in every state (all of lib/use_addr2line.cpp:105-137).
THEOREM PoolInvariance == Spec => []IInv
BY InitInv, StepInv, PTL DEF Spec

\* Every variable of the pool and of its processes keeps its type.
THEOREM TypeCorrect == Spec => []TypeOK
BY PoolInvariance, PTL DEF IInv

\* Each child with an open input has a process of its own in the pool, so there are
\* no more of them than processes.
LEMMA FedChildrenFit ==
  ASSUME IInv PROVE Cardinality({k \in DOMAIN kids : kids[k].state = "running"}) <= POOLMAX
<1> DEFINE fed      == {k \in DOMAIN kids : kids[k].state = "running"}
           Of(k, n) == n \in DOMAIN pool /\ pool[n].child = k
           f        == [k \in fed |-> CHOOSE n : Of(k, n)]
<1>1. \A k \in fed : \E n : Of(k, n)
  BY DEF IInv, NoOrphan
<1>2. \A k \in fed : Of(k, f[k])
  BY <1>1
<1>3. DOMAIN pool = 1..Len(pool) /\ Len(pool) \in Nat /\ Len(pool) <= POOLMAX
  BY DEF IInv, TypeOK, PoolInOrder
<1> HIDE DEF f
<1>4. f \in Injection(fed, 1..Len(pool))
  <2>1. f \in [fed -> 1..Len(pool)]
    BY <1>2, <1>3 DEF f
  <2>2. \A k, l \in fed : f[k] = f[l] => k = l
    BY <1>2
  <2> QED BY <2>1, <2>2 DEF Injection, IsInjective
<1>5. IsFiniteSet(1..Len(pool)) /\ Cardinality(1..Len(pool)) = Len(pool)
  BY ONLY <1>3, IntervalSize
<1> HIDE DEF fed
<1>6. IsFiniteSet(fed) /\ Cardinality(fed) <= Len(pool)
  BY ONLY <1>4, <1>5, FS_Injection
<1>7. Cardinality(fed) \in Nat
  BY <1>6, FS_CardinalityType
<1>8. Cardinality(fed) <= POOLMAX
  BY <1>3, <1>6, <1>7, PoolMaxAssumption
<1> QED BY <1>8 DEF fed

\* The pool keeps its bound and has one process per module, and no more than POOLMAX
\* children are left with an open input, for every POOLMAX (the flush in
\* Addr2LinePool::SendCommand).
THEOREM PoolSoundness == Spec => []PoolIsSound
<1>1. IInv => PoolIsSound
  BY FedChildrenFit DEF IInv, PoolIsSound
<1> QED BY <1>1, PoolInvariance, PTL

\* Every answer comes from a child started on the module that was asked for
\* (the lookup in Addr2LinePool::SendCommand).
THEOREM RightModule == Spec => []ReplyFromRightModule
BY PoolInvariance, PTL DEF IInv

\* No child with an open input is ever forgotten (Addr2LinePool::FlushPool).
THEOREM NobodyForgotten == Spec => []NoOrphan
BY PoolInvariance, PTL DEF IInv

\* A tool that is stopped has an empty pool, and no child whose input it left open:
\* each of them was told to leave.
AllToldToLeave == pc = "stopped" => pool = <<>> /\ \A k \in DOMAIN kids : kids[k].state # "running"

Emptied == pc = "stopped" => pool = <<>>

LEMMA EmptiedStep == Emptied /\ [Next]_vars => Emptied'
<1> SUFFICES ASSUME Emptied, [Next]_vars PROVE Emptied'
  OBVIOUS
<1>1. CASE Flushed
  BY <1>1 DEF Flushed, Emptied
<1>2. CASE \E k \in 1..Len(kids) : ChildLeaves(k) \/ ChildIsGone(k)
  BY <1>2 DEF ChildLeaves, ChildIsGone, Emptied
<1>3. CASE \E m \in Module : Request(m)
  BY <1>3 DEF Request, Emptied
<1>4. CASE \E n \in 1..Len(pool) : Restarts(n) \/ Starts(n) \/ Answers(n) \/ Fails(n)
  BY <1>4 DEF Restarts, Starts, Answers, Fails, Emptied
<1>5. CASE StopTheWorld \/ FlushOne \/ NewProcess
  BY <1>5 DEF StopTheWorld, FlushOne, NewProcess, Emptied
<1>6. CASE UNCHANGED vars
  BY <1>6 DEF vars, Emptied
<1> QED BY <1>1, <1>2, <1>3, <1>4, <1>5, <1>6 DEF Next, Done

\* When stopping the tool is over, every child it ever started has been told to leave
\* (Addr2LinePool::StopTheWorld): what is left to StoppedChildrenLeave is that the
\* kernel completes their exits.
THEOREM StopTellsEverybody == Spec => []AllToldToLeave
<1>1. Init => Emptied
  BY DEF Init, Emptied
<1>2. Spec => []Emptied
  BY <1>1, EmptiedStep, PTL DEF Spec
<1>3. IInv /\ Emptied => AllToldToLeave
  BY DEF IInv, NoOrphan, Emptied, AllToldToLeave
<1> QED BY <1>2, <1>3, PoolInvariance, PTL

-----------------------------------------------------------------------------
(* The pool implements ProcessSet                                          *)

Answered == IF reply = None THEN None ELSE kids[reply].module

\* The pool is as large as the set it shows.
LEMMA InPoolSize == IInv => Cardinality(InPool) = Len(pool)
<1> SUFFICES ASSUME IInv PROVE Cardinality(InPool) = Len(pool)
  OBVIOUS
<1> DEFINE f == [n \in 1..Len(pool) |-> Shown(pool[n])]
<1>1. DOMAIN pool = 1..Len(pool) /\ Len(pool) \in Nat
  BY DEF IInv, TypeOK
<1>2. \A n, l \in 1..Len(pool) : Shown(pool[n]) = Shown(pool[l]) => n = l
  BY <1>1 DEF IInv, PoolInOrder, Shown
<1>3. f \in [1..Len(pool) -> InPool]
  BY <1>1 DEF InPool
<1>4. \A p \in InPool : \E n \in 1..Len(pool) : f[n] = p
  BY <1>1 DEF InPool
<1>5. \A n, l \in 1..Len(pool) : f[n] = f[l] => n = l
  BY <1>2
<1> HIDE DEF f
<1>6. f \in Injection(1..Len(pool), InPool)
  BY <1>3, <1>5 DEF Injection, IsInjective
<1>7. f \in Surjection(1..Len(pool), InPool)
  BY <1>3, <1>4 DEF Surjection
<1>8. IsFiniteSet(1..Len(pool)) /\ Cardinality(1..Len(pool)) = Len(pool)
  BY ONLY <1>1, IntervalSize
<1>9. Cardinality(InPool) = Cardinality(1..Len(pool))
  BY ONLY <1>6, <1>7, <1>8, FS_Surjection
<1> QED BY ONLY <1>8, <1>9

LEMMA InitShows == Init => Set!Init
BY DEF Init, Set!Init, Set!None, Phase, Procs, InPool

\* Cardinality means the same in ProcessSet.
LEMMA SameCardinality == \A S : Set!Cardinality(S) = Cardinality(S)
BY DEF Set!Cardinality, Cardinality

\* A request finds its process, makes room for it or adds it, as the set does.
LEMMA RequestShows == ASSUME IInv, NEW m \in Module, Request(m) PROVE Set!Request(m)
<1> USE DEF Request
<1> DEFINE found == \E n \in DOMAIN pool : pool[n].module = m
<1>1. InPool' = InPool /\ Asked' = Set!Fresh(m) /\ Procs = InPool
  BY DEF InPool, Shown, Asked, Set!Fresh, Procs
<1>2. found <=> \E p \in InPool : p.module = m
  <2>1. \A n \in DOMAIN pool : Shown(pool[n]) \in InPool /\ Shown(pool[n]).module = pool[n].module
    BY DEF InPool, Shown
  <2>2. \A p \in InPool : \E n \in DOMAIN pool : p.module = pool[n].module
    BY DEF InPool, Shown
  <2> QED BY ONLY <2>1, <2>2
<1>3. Len(pool) >= POOLMAX <=> Cardinality(InPool) >= POOLMAX
  BY InPoolSize
<1>4. Procs' = Set!WithProcess(m)
  <2>0. pc' = IF found THEN "talk" ELSE IF Len(pool) >= POOLMAX THEN "flush" ELSE "new"
    OBVIOUS
  <2> HIDE DEF found, Request
  <2>1. CASE found
    <3>1. Procs' = InPool
      BY ONLY <1>1, <2>0, <2>1 DEF Procs
    <3> QED BY ONLY <1>1, <1>2, <2>1, <3>1 DEF Set!WithProcess
  <2>2. CASE ~found /\ Len(pool) >= POOLMAX
    <3>1. Procs' = {Set!Fresh(m)}
      BY ONLY <1>1, <2>0, <2>2 DEF Procs
    <3> QED BY ONLY <1>1, <1>2, <1>3, <2>2, <3>1, SameCardinality DEF Set!WithProcess
  <2>3. CASE ~found /\ ~(Len(pool) >= POOLMAX)
    <3>1. Procs' = InPool \cup {Set!Fresh(m)}
      BY ONLY <1>1, <2>0, <2>3 DEF Procs
    <3> QED BY ONLY <1>1, <1>2, <1>3, <2>3, <3>1, SameCardinality DEF Set!WithProcess
  <2> QED BY ONLY <2>1, <2>2, <2>3
<1>5. Phase = "idle" /\ Phase' = "busy"
  BY DEF Phase
<1> QED BY <1>4, <1>5 DEF Set!Request, Set!None

LEMMA StopShows == StopTheWorld => Set!Stop
BY DEF StopTheWorld, Set!Stop, Set!None, Phase, Procs

\* A flush, be it of a full pool or of one that is stopped, has shown already.
LEMMA FlushShows == IInv /\ (FlushOne \/ Flushed \/ NewProcess) => UNCHANGED Set!vars
<1> SUFFICES ASSUME IInv, FlushOne \/ Flushed \/ NewProcess PROVE UNCHANGED Set!vars
  OBVIOUS
<1>1. reply = None /\ reply' = None /\ asked' = asked /\ Asked' = Asked
  BY DEF FlushOne, Flushed, NewProcess, IInv, ReplyIsFresh, Asked
<1>2. Phase' = Phase
  BY DEF FlushOne, Flushed, NewProcess, Phase
<1>3. Procs' = Procs
  <2>1. CASE FlushOne
    BY <1>1, <2>1 DEF FlushOne, Procs
  <2>2. CASE Flushed
    <3>1. InPool' = {}
      BY <2>2 DEF Flushed, InPool
    <3> QED BY <1>1, <2>2, <3>1 DEF Flushed, Procs
  <2>3. CASE NewProcess
    <3> DEFINE p == [module |-> asked, child |-> None, gone |-> FALSE]
    <3>1. /\ pool \in Seq(Process) /\ p \in Process /\ pool' = Append(pool, p)
          /\ pc = "new" /\ pc' = "talk" /\ Shown(p) = Asked
      BY <2>3 DEF NewProcess, IInv, TypeOK, Process, Shown, Asked
    <3> HIDE DEF p
    <3>2. /\ DOMAIN pool' = 1..Len(pool) + 1 /\ DOMAIN pool = 1..Len(pool) /\ Len(pool) \in Nat
          /\ pool'[Len(pool) + 1] = p /\ \A n \in DOMAIN pool : pool'[n] = pool[n]
      BY ONLY <3>1
    <3>3. DOMAIN pool' = DOMAIN pool \cup {Len(pool) + 1}
      BY ONLY <3>2
    <3>4. InPool' = InPool \cup {Asked}
      BY <3>1, <3>2, <3>3 DEF InPool, Shown
    <3> QED BY <3>1, <3>4 DEF Procs
  <2> QED BY <2>1, <2>2, <2>3
<1> QED BY <1>1, <1>2, <1>3 DEF Set!vars

\* Children come and go unseen.
LEMMA ChildrenAreHidden ==
  ASSUME IInv, \/ \E n \in 1..Len(pool) : Restarts(n) \/ Starts(n)
               \/ \E k \in 1..Len(kids) : ChildLeaves(k) \/ ChildIsGone(k)
  PROVE  UNCHANGED Set!vars
<1>1. UNCHANGED <<pc, asked, reply>>
  BY DEF Restarts, Starts, ChildLeaves, ChildIsGone
<1>2. ASSUME NEW n \in 1..Len(pool), Restarts(n) \/ Starts(n)
      PROVE  InPool' = InPool /\ reply = None
  <2>1. pc = "talk" /\ \E k : k \in {None} \cup 1..MaxChildren /\ pool' = [pool EXCEPT ![n].child = k]
    <3>1. CASE Restarts(n)
      BY <3>1 DEF Restarts
    <3>2. CASE Starts(n)
      <4>1. Len(kids) \in Nat /\ Len(kids) + 1 \in 1..MaxChildren
        BY <3>2, ChildrenAssumption DEF Starts, IInv, TypeOK
      <4>2. pc = "talk" /\ pool' = [pool EXCEPT ![n].child = Len(kids) + 1]
        BY <3>2 DEF Starts
      <4> QED BY ONLY <4>1, <4>2
    <3> QED BY <1>2, <3>1, <3>2
  <2>2. PICK k \in {None} \cup 1..MaxChildren : pool' = [pool EXCEPT ![n].child = k]
    BY <2>1
  <2>3. pool \in Seq(Process) /\ n \in DOMAIN pool
    BY DEF IInv, TypeOK
  <2>4. /\ DOMAIN pool' = DOMAIN pool
        /\ \A l \in DOMAIN pool : pool'[l].module = pool[l].module /\ pool'[l].gone = pool[l].gone
    BY ONLY <2>2, <2>3, ChildSet
  <2> QED BY <2>1, <2>4 DEF InPool, Shown, IInv, ReplyIsFresh
<1>3. ASSUME NEW k \in 1..Len(kids), ChildLeaves(k) \/ ChildIsGone(k)
      PROVE  InPool' = InPool /\ Answered' = Answered
  <2>1. kids \in Seq(Kid) /\ k \in DOMAIN kids
    BY DEF IInv, TypeOK
  <2>2. \/ kids' = [kids EXCEPT ![k].state = "leaving"]
        \/ kids' = [kids EXCEPT ![k].state = "dead"]
    BY <1>3 DEF ChildLeaves, ChildIsGone
  <2>3. \A c \in DOMAIN kids : kids'[c].module = kids[c].module
    BY ONLY <2>1, <2>2, StateSet
  <2>4. pool' = pool
    BY <1>3 DEF ChildLeaves, ChildIsGone
  <2> QED BY <1>1, <2>3, <2>4 DEF InPool, Shown, Answered, IInv, ReplyIsFresh
<1>4. InPool' = InPool /\ Answered' = Answered
  BY <1>1, <1>2, <1>3 DEF Answered
<1> QED BY <1>1, <1>4 DEF Set!vars, Phase, Procs, Asked, Answered

\* The process that answers is the one for the module, and has not failed.
LEMMA AnswerShows == ASSUME IInv, IInv', NEW n \in 1..Len(pool), Answers(n) PROVE Set!Reply
<1> USE DEF Answers, IsFor
<1>1. Phase = "busy" /\ Phase' = "idle" /\ Procs = InPool /\ Procs' = InPool
  BY DEF Phase, Procs, InPool, Shown
<1>2. Set!Fresh(asked) \in InPool
  <2>1. pool[n] \in Process
    BY DEF IInv, TypeOK
  <2>2. pool[n].gone = FALSE
    BY <2>1 DEF Process
  <2> QED BY <2>2 DEF Set!Fresh, InPool, Shown
<1>3. reply' # None /\ kids[reply'].module = asked
  BY DEF IInv, ReplyFromRightModule
<1> QED BY <1>1, <1>2, <1>3 DEF Set!Reply

\* Only the process that is asked is marked.
LEMMA FailureShows == ASSUME IInv, NEW n \in 1..Len(pool), Fails(n) PROVE Set!GiveUp
<1> USE DEF Fails, IsFor
<1> DEFINE p == Shown(pool[n])
<1>1. pool \in Seq(Process) /\ n \in DOMAIN pool /\ pool[n] \in Process
  BY DEF IInv, TypeOK
<1>2. /\ DOMAIN pool' = DOMAIN pool
      /\ \A l \in DOMAIN pool : pool'[l].module = pool[l].module
      /\ pool'[n].gone /\ \A l \in DOMAIN pool : l # n => pool'[l] = pool[l]
      /\ pool' \in Seq(Process)
  <2>1. pool' = [pool EXCEPT ![n].gone = TRUE]
    OBVIOUS
  <2> QED BY ONLY <1>1, <2>1, GoneSet
<1>3. \A l \in DOMAIN pool : l # n => Shown(pool[l]) # p
  BY <1>1 DEF IInv, PoolInOrder, Shown
<1>4. Shown(pool'[n]) = Set!Failed(asked) /\ p.module = asked
  <2>1. pool'[n] \in Process
    BY <1>1, <1>2
  <2>2. pool'[n].gone = TRUE
    BY <1>2, <2>1 DEF Process
  <2>3. pool'[n].module = pool[n].module
    BY <1>1, <1>2
  <2> QED BY <2>2, <2>3 DEF Shown, Set!Failed
<1> HIDE DEF p
<1>5. InPool' = (InPool \ {p}) \cup {Set!Failed(asked)}
  <2>1. \A l \in DOMAIN pool : l # n => Shown(pool'[l]) = Shown(pool[l])
    BY <1>2 DEF Shown
  <2>2. InPool' = {Shown(pool'[l]) : l \in DOMAIN pool}
    BY <1>2 DEF InPool, Shown
  <2>3. InPool \ {p} = {Shown(pool[l]) : l \in DOMAIN pool \ {n}}
    BY <1>1, <1>3 DEF InPool, p
  <2> QED BY <1>1, <1>4, <2>1, <2>2, <2>3
<1>6. p \in InPool
  BY <1>1 DEF InPool, p
<1>7. Phase = "busy" /\ Phase' = "idle" /\ Procs = InPool /\ Procs' = InPool'
  BY DEF Phase, Procs
<1> QED BY <1>4, <1>5, <1>6, <1>7 DEF Set!GiveUp

LEMMA StepShows == IInv /\ IInv' /\ [Next]_vars => [Set!Next]_(Set!vars)
<1> SUFFICES ASSUME IInv, IInv', [Next]_vars PROVE Set!Next \/ UNCHANGED Set!vars
  OBVIOUS
<1>1. ASSUME NEW m \in Module, Request(m) PROVE Set!Next
  BY <1>1, RequestShows DEF Set!Next
<1>2. CASE StopTheWorld
  BY <1>2, StopShows DEF Set!Next
<1>3. CASE FlushOne \/ Flushed \/ NewProcess
  BY <1>3, FlushShows
<1>4. ASSUME NEW n \in 1..Len(pool), Answers(n) \/ Fails(n) PROVE Set!Next
  BY <1>4, AnswerShows, FailureShows DEF Set!Next
<1>5. CASE \/ \E n \in 1..Len(pool) : Restarts(n) \/ Starts(n)
           \/ \E k \in 1..Len(kids) : ChildLeaves(k) \/ ChildIsGone(k)
  BY <1>5, ChildrenAreHidden
<1>6. CASE UNCHANGED vars
  BY <1>6 DEF vars, Set!vars, Phase, Procs, InPool, Shown, Asked
<1> QED BY <1>1, <1>2, <1>3, <1>4, <1>5, <1>6 DEF Next, Done

\* For every POOLMAX and set of modules the pool is a set of processes that changes in
\* one step with each request (all of Addr2LinePool): a flush that takes several steps,
\* restarts, and children that leave at any time never show.
THEOREM PoolImplementsSet == Spec => ImplementsProcessSet
BY PoolInvariance, InitShows, StepShows, PTL DEF Spec, ImplementsProcessSet, Set!Spec

=============================================================================
