--------------------- MODULE SymbolizerProcessRefinement ---------------------
(***************************************************************************)
(* SymbolizerProcess implements CommandChannel, as long as no signal       *)
(* interrupts a read.  The reply of the channel is buffer_, which is only  *)
(* shown once SendCommand has returned it: while it is being filled the    *)
(* channel has no reply.                                                   *)
(*                                                                         *)
(* It also implements ProcessLife, with any fault.  A child whose stdin    *)
(* has been closed counts as leaving, whether it has noticed or not.       *)
(*                                                                         *)
(* Both are suspended while the object keeps a number that another thread  *)
(* of the host was given in the middle of a call.                          *)
(***************************************************************************)
EXTENDS SymbolizerProcess

Phase == IF reused THEN "void"
         ELSE IF stopping THEN IF pc = "stopped" THEN "stopped" ELSE "stopping"
         ELSE IF pc \in InCall THEN "busy" ELSE pc

Channel == INSTANCE CommandChannel WITH
  Output <- [c \in Command |-> Answer(c)],
  phase  <- Phase,
  cmd    <- cmd,
  ret    <- ret,
  reply  <- IF ret = "data" THEN buffer_ ELSE <<>>,
  failed <- failed_to_start_

\* Every step of the process is a step the channel allows, or invisible to its
\* user: restarts, children that die at any point and numbers that the object
\* keeps after closing them never show through SendCommand, unless such a number
\* was reused in the middle of a call, and then only until the next fork.
ImplementsChannel == Channel!Spec

-----------------------------------------------------------------------------
Current == IF forks # 0 /\ IsOpen(Out(forks)) THEN forks ELSE 0

Fate(g) ==
  CASE child[g] = "unborn" -> "unborn"
    [] child[g] = "running" -> IF IsOpen(Out(g)) THEN "running" ELSE "leaving"
    [] child[g] = "exiting" -> "leaving"
    [] OTHER -> "dead"

Life == INSTANCE ProcessLife WITH
  phase   <- IF Phase = "busy" THEN "talk" ELSE Phase,
  current <- Current,
  kids    <- [g \in Pids |-> Fate(g)],
  gone    <- failed_to_start_,
  reply   <- IF ret = "data" THEN forks ELSE 0

\* An owner of the process may think of it as Addr2LinePool does: only the youngest
\* child is ever fed or answers, none but one that is leaving is replaced, and Kill
\* leaves no child running that could still wait for a command, although it tells
\* by an active_pid_ that is set late and may be that of an earlier child.
ImplementsLife == Life!Spec

=============================================================================
