--------------------------- MODULE EraseOperation ---------------------------
(***************************************************************************)
(* What erase() and the Progress interface promise to D-Bus callers, as    *)
(* long as nothing is lost: one operation at a time, which is announced    *)
(* before it is concluded, and concluded once, by its own outcome.         *)
(***************************************************************************)
VARIABLES
  shown,      \* Progress::status
  accepted,   \* the drive has taken a command that D-Bus does not show yet
  drive       \* the drive's last operation

eraseVars == <<shown, accepted, drive>>

Init ==
  /\ shown = "Unset"
  /\ accepted = FALSE
  /\ drive = "never"

\* No command is waiting, under way, or shown to be.
Idle == ~accepted /\ drive # "busy" /\ shown # "InProgress"

Begin ==
  /\ Idle
  /\ drive' = "busy"
  /\ accepted' = TRUE
  /\ UNCHANGED shown

\* A command that starts nothing.
Refuse ==
  /\ Idle
  /\ shown' = "Failed"
  /\ UNCHANGED <<accepted, drive>>

Announce ==
  /\ accepted
  /\ shown' = "InProgress"
  /\ accepted' = FALSE
  /\ UNCHANGED drive

End ==
  /\ drive = "busy"
  /\ drive' \in {"ok", "failed"}
  /\ UNCHANGED <<shown, accepted>>

Conclude ==
  /\ ~accepted
  /\ shown = "InProgress"
  /\ \/ drive = "ok" /\ shown' = "Completed"
     \/ drive = "failed" /\ shown' = "Failed"
  /\ UNCHANGED <<accepted, drive>>

Next == Begin \/ Refuse \/ Announce \/ End \/ Conclude

Spec == Init /\ [][Next]_eraseVars
=============================================================================
