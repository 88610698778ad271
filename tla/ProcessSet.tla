----------------------------- MODULE ProcessSet -----------------------------
(***************************************************************************)
(* What Addr2LinePool (lib/use_addr2line.cpp) promises to its caller, as   *)
(* module Session relies on it: a set of processes, one for a module, that *)
(* starts again from nothing when it is full; a request is answered by the *)
(* process for the module it names, or that process has failed for good.   *)
(* Children, restarts and the order of the pool are hidden, and so is a    *)
(* flush, which takes no time.                                             *)
(***************************************************************************)
EXTENDS Integers, FiniteSets

CONSTANTS
  Module,        \* the binaries that addresses are asked of
  POOLMAX        \* SANSYMTOOL_ADDR2LINE_POOLMAX

VARIABLES
  phase,         \* "idle", "busy" with a request, or "stopped"
  procs,         \* the processes: [module, failed]
  asked,         \* the module of the latest request
  answered       \* the module its answer is about, None if there is no answer

vars == <<phase, procs, asked, answered>>

None == 0

Fresh(m)  == [module |-> m, failed |-> FALSE]
Failed(m) == [module |-> m, failed |-> TRUE]

Init == phase = "idle" /\ procs = {} /\ asked \in Module /\ answered = None

\* The processes once the one for m is there.
WithProcess(m) ==
  IF \E p \in procs : p.module = m THEN procs
  ELSE (IF Cardinality(procs) >= POOLMAX THEN {} ELSE procs) \cup {Fresh(m)}

Request(m) ==
  /\ phase = "idle" /\ phase' = "busy"
  /\ asked' = m /\ procs' = WithProcess(m)
  /\ answered' = None

\* The process for this module, which has not failed, answers.
Reply ==
  /\ phase = "busy" /\ phase' = "idle"
  /\ Fresh(asked) \in procs /\ answered' = asked
  /\ UNCHANGED <<procs, asked>>

\* It gives up, now or in an earlier request, and stays where it is.
GiveUp ==
  /\ phase = "busy" /\ phase' = "idle"
  /\ \E p \in procs : /\ p.module = asked
                      /\ procs' = (procs \ {p}) \cup {Failed(asked)}
  /\ UNCHANGED <<asked, answered>>

Stop ==
  /\ phase = "idle" /\ phase' = "stopped"
  /\ procs' = {} /\ answered' = None
  /\ UNCHANGED asked

Next == (\E m \in Module : Request(m)) \/ Reply \/ GiveUp \/ Stop

Spec == Init /\ [][Next]_vars

=============================================================================
