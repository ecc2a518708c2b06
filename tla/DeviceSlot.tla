----------------------------- MODULE DeviceSlot -----------------------------
(***************************************************************************)
(* What the session supervisor promises to Telegram (the comment of        *)
(* Restart, cmd/lazytg/cmd/session.go): an account shows up as one device. *)
(* The slot is taken by one session at a time, is vacated before the next  *)
(* one takes it, and is never taken again once the supervisor is closed,   *)
(* by a shutdown or by a revoked authorization.                            *)
(***************************************************************************)
CONSTANTS Sessions, NoSession

VARIABLES
  holder,  \* the session in the slot
  closed   \* no session may take the slot any more

Init ==
  /\ holder = NoSession
  /\ closed = FALSE

Occupy(s) ==
  /\ holder = NoSession /\ ~closed
  /\ holder' = s
  /\ UNCHANGED closed

Vacate ==
  /\ holder # NoSession
  /\ holder' = NoSession
  /\ UNCHANGED closed

Close ==
  /\ closed' = TRUE
  /\ UNCHANGED holder

Next == (\E s \in Sessions : Occupy(s)) \/ Vacate \/ Close

Spec == Init /\ [][Next]_<<holder, closed>>
=============================================================================
