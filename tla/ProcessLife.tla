----------------------------- MODULE ProcessLife -----------------------------
(***************************************************************************)
(* The life of a SymbolizerProcess (lib/symbolizer.cpp) as its owner sees  *)
(* it, above all Addr2LinePool: at most one child at a time is fed         *)
(* commands; it is given up for another when a command cannot be sent; the *)
(* object may fail for good; and killing it leaves no child behind that    *)
(* still waits for input.  Commands, pipes, descriptors and waitpid are    *)
(* hidden.  While the life is void (the process may use a descriptor of    *)
(* another thread of the host) the owner knows only that no child is fed,  *)
(* and that what has failed has failed.                                    *)
(***************************************************************************)
EXTENDS Integers

CONSTANT Pids    \* numbers of the children it may start, none of them 0

VARIABLES
  phase,         \* "idle", "talk" in a call, "stopping", "stopped", "dead" with the host;
                 \* or "void"
  current,       \* the child whose input is open, None if there is none
  kids,          \* what has become of each child: "unborn", "running", "leaving", "dead"
  gone,          \* it has failed for good
  reply          \* the child that gave the latest answer, None if there is none

vars == <<phase, current, kids, gone, reply>>

None == 0

Init ==
  /\ phase = "idle" /\ current = None /\ kids = [k \in Pids |-> "unborn"]
  /\ gone = FALSE /\ reply = None

\* The child that loses its input leaves in its own time.
CloseInput(k) == [c \in Pids |-> IF c = k /\ kids[c] = "running" THEN "leaving" ELSE kids[c]]

Request ==
  /\ phase = "idle" /\ phase' = IF gone THEN "idle" ELSE "talk"
  /\ reply' = None
  /\ UNCHANGED <<current, kids, gone>>

Restarts ==
  /\ phase = "talk" /\ ~gone /\ current # None
  /\ current' = None /\ kids' = CloseInput(current)
  /\ UNCHANGED <<phase, gone, reply>>

Starts ==
  /\ phase = "talk" /\ ~gone /\ current = None
  /\ \E k \in Pids : /\ kids[k] = "unborn"
                     /\ current' = k /\ kids' = [kids EXCEPT ![k] = "running"]
  /\ UNCHANGED <<phase, gone, reply>>

Answers ==
  /\ phase = "talk" /\ ~gone /\ current # None
  /\ phase' = "idle" /\ reply' = current
  /\ UNCHANGED <<current, kids, gone>>

Fails ==
  /\ phase = "talk" /\ phase' = "idle"
  /\ gone' = TRUE
  /\ UNCHANGED <<current, kids, reply>>

HostDies ==
  /\ phase = "talk" /\ phase' = "dead"
  /\ UNCHANGED <<current, kids, gone, reply>>

Stop ==
  /\ phase = "idle" /\ phase' = "stopping" /\ reply' = None
  /\ UNCHANGED <<current, kids, gone>>

\* The pipes of a child that is gone may be forgotten, but no running child is.
Stopped ==
  /\ phase = "stopping" /\ phase' = "stopped"
  /\ kids' = CloseInput(current) /\ current' \in {current, None}
  /\ UNCHANGED <<gone, reply>>

ChildLeaves(k) ==
  /\ kids[k] = "running" /\ kids' = [kids EXCEPT ![k] = "leaving"]
  /\ UNCHANGED <<phase, current, gone, reply>>

ChildIsGone(k) ==
  /\ kids[k] = "leaving" /\ kids' = [kids EXCEPT ![k] = "dead"]
  /\ UNCHANGED <<phase, current, gone, reply>>

\* A child may leave, but none that is gone comes back.
Void ==
  /\ "void" \in {phase, phase'}
  /\ phase = "void" => current = None
  /\ gone => gone'
  /\ \A k \in Pids : kids[k] = "dead" => kids'[k] = "dead"

Next ==
  \/ Request \/ Restarts \/ Starts \/ Answers \/ Fails \/ HostDies \/ Stop \/ Stopped
  \/ \E k \in Pids : ChildLeaves(k) \/ ChildIsGone(k)
  \/ Void

Spec == Init /\ [][Next]_vars

=============================================================================
