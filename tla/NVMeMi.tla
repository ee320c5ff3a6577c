------------------------------- MODULE NVMeMi -------------------------------
(***************************************************************************)
(* The command layer of one drive, NVMeMi, with the endpoint behind it.  A *)
(* command method hands a closure to the shared Worker, which runs them in *)
(* the order of the calls (see TaskExecutor) and posts each reply to the   *)
(* main loop.  The drive is external: which commands fail, and what those  *)
(* that succeed answer, is chosen freely, but for the sanitize operation.  *)
(***************************************************************************)
EXTENDS Naturals, Sequences, Functions

CONSTANTS
  Handles,              \* controller handles libnvme-mi may hand out
  NoCtrl,               \* the uninitialised handle of a new drive object
  Failing,              \* commands that may fail
  Mishaps,              \* which of KnownMishaps happen
  Functional,           \* what health status polls may report
  Readings              \* the warnings SMART logs may report

KnownMishaps == {"overlapping erase", "lost sanitize reply", "restart"}

EndpointCommands   == {"scan", "port", "health"}
ControllerCommands == {"identify", "smart", "sanlog", "sanitize"}
Commands           == EndpointCommands \cup ControllerCommands

\* The state of the drive's last sanitize operation (SSTAT of its log).
Sanitizing == {"never", "busy", "ok", "failed"}

ASSUME CommandConstants ==
  /\ NoCtrl \notin Handles
  /\ Failing \subseteq Commands
  /\ Mishaps \subseteq KnownMishaps
  /\ Functional \subseteq BOOLEAN

VARIABLES
  jobs,                 \* this drive's closures in the Worker's queue
  replies,              \* callbacks posted to the main loop, in order
  nvmeEP,               \* whether nvme_mi_open_libmctp() gave an endpoint
  open,                 \* the controller handles that are open
  hwSanitize            \* the drive: its last sanitize operation

endpointVars == <<nvmeEP, open, hwSanitize>>
miVars == <<jobs, replies, endpointVars>>

Request(cmd, ctrl) == [cmd |-> cmd, ctrl |-> ctrl]
Error(cmd)         == [cmd |-> cmd, ok |-> FALSE]
Done(cmd)          == [cmd |-> cmd, ok |-> TRUE]

Job == [cmd : Commands, ctrl : Handles \cup {NoCtrl}]

\* The expiry of scanTimer waits in the main loop as a reply does.
Reply ==
  [cmd : Commands, ok : {FALSE}] \cup
  [cmd : {"identify", "port", "sanitize", "timer"}, ok : {TRUE}] \cup
  [cmd : {"scan"},   ok : {TRUE}, ctrl : Handles] \cup
  [cmd : {"health"}, ok : {TRUE}, functional : Functional] \cup
  [cmd : {"smart"},  ok : {TRUE}, reported : Readings \cup {{}}] \cup
  [cmd : {"sanlog"}, ok : {TRUE}, sstat : Sanitizing]

MiInit ==
  /\ jobs = <<>>
  /\ replies = <<>>
  /\ nvmeEP \in BOOLEAN
  /\ open = {}
  /\ hwSanitize = "never"

\* A command has been issued and its reply not yet been handled.
Queued(cmd)   == \E job \in Range(jobs) : job.cmd = cmd
Answered(cmd) == \E reply \in Range(replies) : reply.cmd = cmd
InFlight(cmd) == Queued(cmd) \/ Answered(cmd)

-----------------------------------------------------------------------------
\* A command method, called by a handler that leaves `rest` in the main loop:
\* the closure is posted to the Worker, or without an endpoint the error reply
\* is posted at once.
Issue(rest, request) ==
  IF nvmeEP THEN /\ jobs' = Append(jobs, request)
                 /\ replies' = rest
            ELSE /\ replies' = Append(rest, Error(request.cmd))
                 /\ UNCHANGED jobs

\* Two commands in a row.
IssueBoth(rest, first, second) ==
  IF nvmeEP THEN /\ jobs' = Append(Append(jobs, first), second)
                 /\ replies' = rest
            ELSE /\ replies' = Append(Append(rest, Error(first.cmd)), Error(second.cmd))
                 /\ UNCHANGED jobs

-----------------------------------------------------------------------------
(* The Worker runs the closure at the head of its queue.                   *)

Run(cmd) ==
  /\ jobs # <<>>
  /\ Head(jobs).cmd = cmd
  /\ jobs' = Tail(jobs)

Answer(reply) == replies' = Append(replies, reply)

\* A command sent through a closed handle may do anything; otherwise only the
\* kinds in Failing fail.
MayFail(cmd) ==
  \/ cmd \in Failing
  \/ cmd \in ControllerCommands /\ Head(jobs).ctrl \notin open

\* nvme_mi_scan_ep() with force_rescan closes every controller first.  An empty
\* list is handled as an error, and counts as one here.
ScanSucceeds(handle) ==
  /\ Run("scan")
  /\ open' = {handle}
  /\ Answer([cmd |-> "scan", ok |-> TRUE, ctrl |-> handle])
  /\ UNCHANGED <<nvmeEP, hwSanitize>>

ScanFails ==
  /\ Run("scan")
  /\ MayFail("scan")
  /\ open' = {}
  /\ Answer(Error("scan"))
  /\ UNCHANGED <<nvmeEP, hwSanitize>>

\* identify, port information and health status poll reply once either way.
CommandFails(cmd) ==
  /\ Run(cmd)
  /\ MayFail(cmd)
  /\ Answer(Error(cmd))
  /\ UNCHANGED endpointVars

InfoSucceeds(cmd) ==
  /\ Run(cmd)
  /\ Answer(Done(cmd))
  /\ UNCHANGED endpointVars

HealthSucceeds(functional) ==
  /\ Run("health")
  /\ Answer([cmd |-> "health", ok |-> TRUE, functional |-> functional])
  /\ UNCHANGED endpointVars

SmartLog(reported) == [cmd |-> "smart", ok |-> TRUE, reported |-> reported]

SmartSucceeds(reported) ==
  /\ Run("smart")
  /\ Answer(SmartLog(reported))
  /\ UNCHANGED endpointVars

\* A status of the drive (rc > 0) has no return after its error reply: the
\* success reply follows, with the zeroes of the unfilled buffer.
SmartRefused ==
  /\ Run("smart")
  /\ MayFail("smart")
  /\ replies' = Append(Append(replies, Error("smart")), SmartLog({}))
  /\ UNCHANGED endpointVars

SanitizeLog(sstat) == [cmd |-> "sanlog", ok |-> TRUE, sstat |-> sstat]

SanlogSucceeds ==
  /\ Run("sanlog")
  /\ Answer(SanitizeLog(hwSanitize))
  /\ UNCHANGED endpointVars

\* Its rc is a shadowed variable: a failure replies success, with zeroes.
SanlogFails ==
  /\ Run("sanlog")
  /\ MayFail("sanlog")
  /\ Answer(SanitizeLog("never"))
  /\ UNCHANGED endpointVars

\* The drive accepts a sanitize command unless one is in progress.
SanitizeStarts ==
  /\ Run("sanitize")
  /\ hwSanitize # "busy"
  /\ hwSanitize' = "busy"
  /\ Answer(Done("sanitize"))
  /\ UNCHANGED <<nvmeEP, open>>

SanitizeRejected ==
  /\ Run("sanitize")
  /\ hwSanitize = "busy" \/ MayFail("sanitize")
  /\ Answer(Error("sanitize"))
  /\ UNCHANGED endpointVars

\* The operation starts, but the reply times out.
SanitizeReplyLost ==
  /\ "lost sanitize reply" \in Mishaps
  /\ Run("sanitize")
  /\ hwSanitize # "busy"
  /\ hwSanitize' = "busy"
  /\ Answer(Error("sanitize"))
  /\ UNCHANGED <<nvmeEP, open>>

RunJob ==
  \/ \E handle \in Handles : ScanSucceeds(handle)
  \/ ScanFails
  \/ \E cmd \in {"identify", "port"} : InfoSucceeds(cmd)
  \/ \E cmd \in {"identify", "port", "health", "smart"} : CommandFails(cmd)
  \/ \E functional \in Functional : HealthSucceeds(functional)
  \/ \E reported \in Readings : SmartSucceeds(reported)
  \/ SmartRefused
  \/ SanlogSucceeds
  \/ SanlogFails
  \/ SanitizeStarts
  \/ SanitizeRejected
  \/ SanitizeReplyLost

\* The drive ends its sanitize operation.
SanitizeEnds ==
  /\ hwSanitize = "busy"
  /\ hwSanitize' \in {"ok", "failed"}
  /\ UNCHANGED <<jobs, replies, nvmeEP, open>>
=============================================================================
