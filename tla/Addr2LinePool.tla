---------------------------- MODULE Addr2LinePool ----------------------------
(***************************************************************************)
(* The pool of addr2line processes (lib/use_addr2line.cpp): one            *)
(* SymbolizerProcess per module, at most POOLMAX of them; when another is  *)
(* needed all are killed and the pool starts again from nothing.           *)
(*                                                                         *)
(* A SymbolizerProcess is seen from outside, as module SymbolizerProcess   *)
(* describes it in detail: it starts a child, starts another when that one *)
(* exits, and may give up for good.  Killing it closes the pipes of its    *)
(* child; the child leaves in its own time.  So it behaves as long as no   *)
(* other thread is given a number the object still keeps (its `reused').   *)
(*                                                                         *)
(* A definition whose name ends in _Slip is the definition that follows it *)
(* with a plausible slip in it; none is part of the specification.         *)
(***************************************************************************)
EXTENDS Integers, Sequences, FiniteSets

CONSTANTS
  Module,        \* the binaries that addresses are asked of
  POOLMAX,       \* SANSYMTOOL_ADDR2LINE_POOLMAX
  MaxChildren    \* bound: children started

ASSUME PoolMaxAssumption == POOLMAX \in Nat \ {0}
ASSUME ChildrenAssumption == MaxChildren \in Nat

VARIABLES
  pool,          \* addr2line_pool_: [module, child, gone]
  kids,          \* the children, oldest first: [module, state]
  pc, i, asked,  \* the library: step, loop counter of FlushPool, module_name
  reply          \* the child that gave the latest answer, None if there is none

vars == <<pool, kids, pc, i, asked, reply>>

None == 0

\* A child runs on the module on its command line; it is leaving when its input is
\* closed or it exits on its own, and dead when that is complete.
Kid == [module : Module, state : {"running", "leaving", "dead"}]
Process == [module : Module, child : {None} \cup 1..MaxChildren, gone : BOOLEAN]

Init ==
  /\ pool = <<>> /\ kids = <<>>
  /\ pc = "idle" /\ i = 1 /\ asked \in Module
  /\ reply = None

\* The first process in the pool for the module that is asked for.
IsFor_Slip(n) == n = Len(pool)
IsFor(n) ==
  /\ n \in DOMAIN pool /\ pool[n].module = asked
  /\ \A l \in 1..n - 1 : pool[l].module # asked

\* SymbolizerProcess::Kill of a process whose child is k.
CloseInput(k) ==
  [n \in DOMAIN kids |-> IF n = k /\ kids[n].state = "running" THEN [kids[n] EXCEPT !.state = "leaving"]
                                                               ELSE kids[n]]

-----------------------------------------------------------------------------
\* SendCommand: look for the process; if there is none, make room for it.
Request_Slip(m) ==
  /\ pc = "idle" /\ asked' = m
  /\ pc' = IF \E n \in DOMAIN pool : pool[n].module = m THEN "talk"
           ELSE IF Len(pool) > POOLMAX THEN "flush" ELSE "new"
  /\ i' = 1 /\ reply' = None
  /\ UNCHANGED <<pool, kids>>

Request(m) ==
  /\ pc = "idle" /\ asked' = m
  /\ pc' = IF \E n \in DOMAIN pool : pool[n].module = m THEN "talk"
           ELSE IF Len(pool) >= POOLMAX THEN "flush" ELSE "new"
  /\ i' = 1 /\ reply' = None
  /\ UNCHANGED <<pool, kids>>

StopTheWorld ==
  /\ pc = "idle" /\ pc' = "stop"
  /\ i' = 1 /\ reply' = None
  /\ UNCHANGED <<pool, kids, asked>>

\* FlushPool: one process at a time, then the vector is cleared.
FlushOne_Slip ==
  /\ pc \in {"flush", "stop"} /\ i <= Len(pool)
  /\ i' = i + 1
  /\ UNCHANGED <<pool, kids, pc, asked, reply>>

FlushOne ==
  /\ pc \in {"flush", "stop"} /\ i <= Len(pool)
  /\ kids' = CloseInput(pool[i].child)
  /\ i' = i + 1
  /\ UNCHANGED <<pool, pc, asked, reply>>

Flushed ==
  /\ pc \in {"flush", "stop"} /\ i > Len(pool)
  /\ pool' = <<>>
  /\ pc' = IF pc = "flush" THEN "new" ELSE "stopped"
  /\ UNCHANGED <<kids, i, asked, reply>>

NewProcess_Slip ==
  /\ pc = "new" /\ pc' = "talk"
  /\ pool' = Append(pool, [module |-> None, child |-> None, gone |-> FALSE])
  /\ UNCHANGED <<kids, i, asked, reply>>

NewProcess ==
  /\ pc = "new" /\ pc' = "talk"
  /\ pool' = Append(pool, [module |-> asked, child |-> None, gone |-> FALSE])
  /\ UNCHANGED <<kids, i, asked, reply>>

-----------------------------------------------------------------------------
(* SymbolizerProcess::SendCommand of the n-th process                      *)

\* A child cannot be used any more, be it that it exits, that it did not come up or
\* that a signal cut a command short: Restart closes its pipes and forgets it.
Restarts(n) ==
  /\ pc = "talk" /\ IsFor(n) /\ ~pool[n].gone /\ pool[n].child # None
  /\ kids' = CloseInput(pool[n].child)
  /\ pool' = [pool EXCEPT ![n].child = None]
  /\ UNCHANGED <<pc, i, asked, reply>>

Starts(n) ==
  /\ pc = "talk" /\ IsFor(n) /\ ~pool[n].gone /\ pool[n].child = None
  /\ Len(kids) < MaxChildren
  /\ kids' = Append(kids, [module |-> pool[n].module, state |-> "running"])
  /\ pool' = [pool EXCEPT ![n].child = Len(kids) + 1]
  /\ UNCHANGED <<pc, i, asked, reply>>

\* The answer may be the last thing the child did.
Answers(n) ==
  /\ pc = "talk" /\ IsFor(n) /\ ~pool[n].gone /\ pool[n].child # None
  /\ reply' = pool[n].child
  /\ pc' = "idle"
  /\ UNCHANGED <<pool, kids, i, asked>>

\* Too many restarts, now or in an earlier call: the process stays in the pool.
Fails(n) ==
  /\ pc = "talk" /\ IsFor(n)
  /\ pool' = [pool EXCEPT ![n].gone = TRUE]
  /\ pc' = "idle"
  /\ UNCHANGED <<kids, i, asked, reply>>

\* A child exits on its own, and its exit becomes complete.
ChildLeaves(k) ==
  /\ kids[k].state = "running"
  /\ kids' = [kids EXCEPT ![k].state = "leaving"]
  /\ UNCHANGED <<pool, pc, i, asked, reply>>

ChildIsGone(k) ==
  /\ kids[k].state = "leaving"
  /\ kids' = [kids EXCEPT ![k].state = "dead"]
  /\ UNCHANGED <<pool, pc, i, asked, reply>>

-----------------------------------------------------------------------------
Done == pc = "stopped" /\ UNCHANGED vars

Next ==
  \/ \E m \in Module : Request(m)
  \/ StopTheWorld \/ FlushOne \/ Flushed \/ NewProcess
  \/ \E n \in 1..Len(pool) : Restarts(n) \/ Starts(n) \/ Answers(n) \/ Fails(n)
  \/ \E k \in 1..Len(kids) : ChildLeaves(k) \/ ChildIsGone(k)
  \/ Done

Spec == Init /\ [][Next]_vars

\* The library finishes a flush, and the kernel completes exits.  No child has to
\* exit by itself, and no caller has to ask.
Fairness ==
  /\ WF_vars(FlushOne \/ Flushed)
  /\ \A k \in 1..MaxChildren : WF_vars(k <= Len(kids) /\ ChildIsGone(k))

FairSpec == Spec /\ Fairness

-----------------------------------------------------------------------------
(* Properties                                                              *)

TypeOK ==
  /\ pool \in Seq(Process) /\ kids \in Seq(Kid)
  /\ pc \in {"idle", "flush", "stop", "new", "talk", "stopped"}
  /\ i \in Nat \ {0} /\ asked \in Module
  /\ reply \in {None} \cup 1..MaxChildren

\* The pool never grows beyond its bound and never has two processes for a module,
\* so the linear search finds the only one there can be.
PoolInOrder ==
  /\ Len(pool) <= POOLMAX
  /\ \A n, l \in DOMAIN pool : pool[n].module = pool[l].module => n = l

\* The bound is one on addr2line processes too, the purpose it is there for: however
\* often processes restart and the pool is flushed, no more than POOLMAX children are
\* left with an open input.
PoolIsSound ==
  PoolInOrder /\ Cardinality({k \in DOMAIN kids : kids[k].state = "running"}) <= POOLMAX

\* An answer comes from a child that was started on the module asked for, however
\* often the pool was flushed and processes restarted in between.
ReplyFromRightModule == reply # None => kids[reply].module = asked

\* A child whose input is still open belongs to a process in the pool that has not
\* been flushed yet, and to one only: nobody else could ever tell it to leave.
NoOrphan ==
  \A k \in DOMAIN kids : kids[k].state = "running" =>
    \E n \in DOMAIN pool :
      /\ pool[n].child = k /\ pool[n].module = kids[k].module
      /\ pc \in {"flush", "stop"} => n >= i
      /\ \A l \in DOMAIN pool : pool[l].child = k => l = n

\* When the tool is stopped every child it ever started leaves in the end: those of
\* the pool, those of processes that were flushed or that gave up, and those a
\* restart left behind.
StoppedChildrenLeave ==
  pc = "stop" ~> pc = "stopped" /\ \A k \in DOMAIN kids : kids[k].state = "dead"

=============================================================================
