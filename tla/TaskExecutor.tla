---------------------------- MODULE TaskExecutor ----------------------------
(***************************************************************************)
(* What NVMeMi::Worker promises to its callers: a queue of tasks executed  *)
(* first in first out, each task once, until the executor is closed.  A    *)
(* closed executor has run all it accepted, and accepts nothing more.      *)
(***************************************************************************)
EXTENDS Sequences

CONSTANT Tasks          \* the closures handed to post()

VARIABLES
  backlog,              \* tasks accepted and not yet run
  closed                \* the worker thread has ended

vars == <<backlog, closed>>

Init ==
  /\ backlog = <<>>
  /\ closed = FALSE

Accept(t) ==
  /\ ~closed
  /\ backlog' = Append(backlog, t)
  /\ UNCHANGED closed

Run ==
  /\ ~closed
  /\ backlog # <<>>
  /\ backlog' = Tail(backlog)
  /\ UNCHANGED closed

Close ==
  /\ ~closed
  /\ backlog = <<>>
  /\ closed' = TRUE
  /\ UNCHANGED backlog

Next == (\E t \in Tasks : Accept(t)) \/ Run \/ Close

Spec == Init /\ [][Next]_vars
=============================================================================
