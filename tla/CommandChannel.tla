--------------------------- MODULE CommandChannel ---------------------------
(***************************************************************************)
(* What a symbolizer tool is promised by SymbolizerProcess::SendCommand    *)
(* (lib/symbolizer.h): a channel that answers each command with its own    *)
(* output, whole or cut short, or returns nullptr -- and once it has       *)
(* returned nullptr, returns nothing else.  Children, pipes, restarts and  *)
(* read() are hidden.  While the channel is void (the process may be in    *)
(* conversation with a descriptor of another thread of the host) only the  *)
(* last of these promises holds.                                           *)
(***************************************************************************)
EXTENDS Naturals, Sequences

CONSTANTS
  MaxCalls,  \* bound: calls made in a behaviour
  Output     \* the output of command c is Output[c], a sequence

VARIABLES
  phase,   \* "idle" between calls, "busy" in one, "stopping", "stopped", "dead" with the
           \* host; or "void"
  cmd,     \* number of the latest call
  ret,     \* what it returned: "none" yet, "null", or "data" in reply
  reply,
  failed   \* the channel has given up

vars == <<phase, cmd, ret, reply, failed>>

Beginnings(s) == {SubSeq(s, 1, n) : n \in 0..Len(s)}

Init ==
  /\ phase = "idle" /\ cmd = 0 /\ ret = "none" /\ reply = <<>> /\ failed = FALSE

Call ==
  /\ phase = "idle" /\ cmd < MaxCalls
  /\ cmd' = cmd + 1
  /\ IF failed THEN phase' = "idle" /\ ret' = "null"
               ELSE phase' = "busy" /\ ret' = "none"
  /\ reply' = <<>>
  /\ UNCHANGED failed

Reply ==
  /\ phase = "busy" /\ phase' = "idle"
  /\ ret' = "data"
  /\ reply' \in Beginnings(Output[cmd])
  /\ UNCHANGED <<cmd, failed>>

ReturnNull ==
  /\ phase = "busy" /\ phase' = "idle"
  /\ ret' = "null" /\ failed' = TRUE
  /\ UNCHANGED <<cmd, reply>>

\* A CHECK that fails, or SIGPIPE.
HostDies ==
  /\ phase = "busy" /\ phase' = "dead"
  /\ UNCHANGED <<cmd, ret, reply, failed>>

Stop ==
  /\ phase = "idle" /\ phase' = "stopping"
  /\ ret' = "none" /\ reply' = <<>>
  /\ UNCHANGED <<cmd, failed>>

Stopped ==
  /\ phase = "stopping" /\ phase' = "stopped"
  /\ UNCHANGED <<cmd, ret, reply, failed>>

Void ==
  /\ "void" \in {phase, phase'}
  /\ failed => failed' /\ ret' # "data"

Next == Call \/ Reply \/ ReturnNull \/ HostDies \/ Stop \/ Stopped \/ Void

Spec == Init /\ [][Next]_vars

=============================================================================
