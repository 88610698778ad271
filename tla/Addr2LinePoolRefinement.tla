----------------------- MODULE Addr2LinePoolRefinement -----------------------
(***************************************************************************)
(* Addr2LinePool implements ProcessSet.  What a request does to the pool   *)
(* shows at once, although the pool is flushed one process at a time and   *)
(* the new process is made after that; so does the end of the pool.        *)
(***************************************************************************)
EXTENDS Addr2LinePool

Shown(p) == [module |-> p.module, failed |-> p.gone]
InPool   == {Shown(pool[n]) : n \in DOMAIN pool}
Asked    == [module |-> asked, failed |-> FALSE]

Procs ==
  CASE pc = "flush" -> {Asked}
    [] pc = "new" -> InPool \cup {Asked}
    [] pc \in {"idle", "talk"} -> InPool
    [] OTHER -> {}

Phase ==
  CASE pc \in {"flush", "new", "talk"} -> "busy"
    [] pc = "idle" -> "idle"
    [] OTHER -> "stopped"

Set == INSTANCE ProcessSet WITH
  phase    <- Phase,
  procs    <- Procs,
  asked    <- asked,
  answered <- IF reply = None THEN None ELSE kids[reply].module

\* Whatever becomes of the children meanwhile, a request finds its process or makes
\* room for one, and its answer is about the module it names; a process that has
\* failed keeps its place until the pool is flushed.  Session is right to see the
\* pool as a set that changes in one step.
ImplementsProcessSet == Set!Spec

=============================================================================
