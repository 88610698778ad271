---------------------- MODULE StartSubprocessRefinement ----------------------
(***************************************************************************)
(* StartSubprocess implements AtomicStart.  While the start is under way   *)
(* the numbers of its pipes pass for free; once it is over every pipe end  *)
(* that is still open shows, be it meant or forgotten.                     *)
(***************************************************************************)
EXTENDS StartSubprocess

In  == <<"input_fd_", 0>>
Out == <<"output_fd_", 0>>

State == CASE pc \in {"started", "failed", "dead"} -> pc
           [] OTHER -> "starting"

\* The table as AtomicStart sees it.
Table ==
  CASE State = "starting" -> [f \in FD |-> IF fdt[f] = Host THEN Host ELSE Free]
    [] State = "started"  -> [f \in FD |-> IF fdt[f] = R(infd) THEN In
                                          ELSE IF fdt[f] = W(outfd) THEN Out ELSE fdt[f]]
    [] OTHER -> fdt

Atomic == INSTANCE AtomicStart WITH
  table <- Table,
  state <- State

\* All the calls of pipe and close together either yield the two descriptors of the
\* library and nothing else, or leave no trace, whatever other threads do between
\* them: a start may be taken for one step, as module SymbolizerProcess does.
ImplementsAtomicStart == Atomic!Spec

=============================================================================
