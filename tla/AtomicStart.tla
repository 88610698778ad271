----------------------------- MODULE AtomicStart -----------------------------
(***************************************************************************)
(* What StartSymbolizerSubprocess (lib/symbolizer.cpp) does to the host's  *)
(* descriptors, as SymbolizerProcess sees it: in one step it turns two     *)
(* free numbers above stderr into the ends the library keeps, or it        *)
(* changes nothing.  Other threads of the host go on meanwhile; the pipes  *)
(* made and closed on the way, and the child, are hidden.                  *)
(***************************************************************************)
EXTENDS Integers

CONSTANT FD      \* descriptor numbers

VARIABLES
  table,         \* the host's table of open descriptors
  state          \* "starting", "started" or "failed"

vars == <<table, state>>

Free == <<"free", 0>>
Host == <<"host", 0>>

\* The ends the library keeps: of the child's stdout, and of its stdin.
In   == <<"input_fd_", 0>>
Out  == <<"output_fd_", 0>>

Init == table \in [FD -> {Free, Host}] /\ state = "starting"

Succeeds ==
  /\ state = "starting" /\ state' = "started"
  /\ \E infd, outfd \in FD :
       /\ infd > 2 /\ outfd > 2 /\ infd # outfd
       /\ table[infd] = Free /\ table[outfd] = Free
       /\ table' = [table EXCEPT ![infd] = In, ![outfd] = Out]

Fails ==
  /\ state = "starting" /\ state' = "failed"
  /\ UNCHANGED table

HostMoves(f, from, to) ==
  /\ table[f] = from
  /\ table' = [table EXCEPT ![f] = to]
  /\ UNCHANGED state

Next ==
  \/ Succeeds \/ Fails
  \/ \E f \in FD : HostMoves(f, Free, Host) \/ HostMoves(f, Host, Free)

Spec == Init /\ [][Next]_vars

=============================================================================
