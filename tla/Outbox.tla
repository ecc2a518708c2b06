-------------------------------- MODULE Outbox --------------------------------
(***************************************************************************)
(* SendService (internal/core/sync/send.go): the lifecycle of an outgoing  *)
(* message.  SendText stores an optimistic record and starts one goroutine *)
(* per message, deliver, which takes a token from the send guard, calls    *)
(* the sender and repeats until the server accepts or refuses the message, *)
(* the retries are used up or the program shuts down.                      *)
(*                                                                         *)
(* The sender (internal/tg/send.go) draws a new random_id for every call,  *)
(* so the server takes each call it receives for a new message: copies     *)
(* counts the messages the server holds.                                   *)
(***************************************************************************)
EXTENDS Naturals

CONSTANTS
  Sends,       \* local ids: each names one call of SendText
  MaxRetries   \* SendConfig.MaxNetworkRetries

(* defaults() replaces a value that is not positive.                       *)
ASSUME MaxRetriesAssumption == MaxRetries \in Nat \ {0}

VARIABLES
  pc,         \* program point of each send
  attempt,    \* deliver's counter, kept at MaxRetries once it gets there
  verdict,    \* how deliver ended: markSent or markFailed
  row,        \* state of the record in the outgoing table
  copies,     \* messages the server holds for this send
  transient,  \* calls of the sender that ended in a transient error
  phase,      \* of the process: "quitting" once the service context is done
  readOnly    \* Repo.readOnly, set and cleared by the degradation detector

vars == <<pc, attempt, verdict, row, copies, transient, phase, readOnly>>

Point == {"idle", "refused", "saved", "token", "rpc", "flood", "backoff",
          "settle", "tell", "done", "dead"}
Delivering == {"token", "rpc", "flood", "backoff", "settle", "tell"}

TypeOK ==
  /\ pc \in [Sends -> Point]
  /\ attempt \in [Sends -> 0 .. MaxRetries]
  /\ verdict \in [Sends -> {"none", "sent", "failed"}]
  /\ row \in [Sends -> {"absent", "pending", "sent", "failed"}]
  /\ copies \in [Sends -> Nat]
  /\ transient \in [Sends -> Nat]
  /\ phase \in {"up", "quitting", "down"}
  /\ readOnly \in BOOLEAN

Init ==
  /\ pc = [m \in Sends |-> "idle"]
  /\ attempt = [m \in Sends |-> 0]
  /\ verdict = [m \in Sends |-> "none"]
  /\ row = [m \in Sends |-> "absent"]
  /\ copies = [m \in Sends |-> 0]
  /\ transient = [m \in Sends |-> 0]
  /\ phase = "up"
  /\ readOnly = FALSE

At(m, l) == phase # "down" /\ pc[m] = l
GoTo(m, l) == pc' = [pc EXCEPT ![m] = l]

(* The body of markSent / markFailed starts with this verdict.             *)
Ends(m, v) ==
  /\ GoTo(m, "settle")
  /\ verdict' = [verdict EXCEPT ![m] = v]
-----------------------------------------------------------------------------
(* Mutant: a local id is drawn again and its record overwritten.           *)
SaveOutgoing_IdReused(m) ==
  /\ At(m, "idle") \/ At(m, "done")
  /\ GoTo(m, "saved")
  /\ row' = [row EXCEPT ![m] = "pending"]
  /\ UNCHANGED <<attempt, verdict, copies, transient, phase, readOnly>>

(* SendText: the record is stored, or the call returns an error.           *)
SaveOutgoing(m) ==
  /\ At(m, "idle")
  /\ \/ /\ ~readOnly
        /\ GoTo(m, "saved")
        /\ row' = [row EXCEPT ![m] = "pending"]
     \/ /\ GoTo(m, "refused")
        /\ UNCHANGED row
  /\ UNCHANGED <<attempt, verdict, copies, transient, phase, readOnly>>

(* SendText publishes "pending" and starts deliver.                        *)
StartDeliver(m) ==
  /\ At(m, "saved")
  /\ GoTo(m, "token")
  /\ UNCHANGED <<attempt, verdict, row, copies, transient, phase, readOnly>>

(* deliver: awaitToken returns true.  The bucket hands a token out without *)
(* looking at the context.                                                 *)
TokenGranted(m) ==
  /\ At(m, "token")
  /\ GoTo(m, "rpc")
  /\ UNCHANGED <<attempt, verdict, row, copies, transient, phase, readOnly>>

(* The server stored the message and its answer arrived.                   *)
Accepted(m) ==
  /\ At(m, "rpc")
  /\ copies' = [copies EXCEPT ![m] = @ + 1]
  /\ Ends(m, "sent")
  /\ UNCHANGED <<attempt, row, transient, phase, readOnly>>

(* FLOOD_WAIT: sleep as long as the server asked, then go around again.    *)
FloodWait(m) ==
  /\ At(m, "rpc")
  /\ GoTo(m, "flood")
  /\ UNCHANGED <<attempt, verdict, row, copies, transient, phase, readOnly>>

(* A validation error is final.                                            *)
Invalid(m) ==
  /\ At(m, "rpc")
  /\ Ends(m, "failed")
  /\ UNCHANGED <<attempt, row, copies, transient, phase, readOnly>>

(* Mutant: the number of retries is not looked at.                         *)
TransientError_Forever(m) ==
  /\ At(m, "rpc")
  /\ \E stored \in {0, 1} : copies' = [copies EXCEPT ![m] = @ + stored]
  /\ transient' = [transient EXCEPT ![m] = @ + 1]
  /\ GoTo(m, "backoff")
  /\ UNCHANGED <<attempt, verdict, row, phase, readOnly>>

(* Any other error.  The request may have reached the server: only the     *)
(* answer is known to be missing.                                          *)
TransientError(m) ==
  /\ At(m, "rpc")
  /\ \E stored \in {0, 1} : copies' = [copies EXCEPT ![m] = @ + stored]
  /\ transient' = [transient EXCEPT ![m] = @ + 1]
  /\ IF attempt[m] >= MaxRetries
     THEN Ends(m, "failed")
     ELSE GoTo(m, "backoff") /\ UNCHANGED verdict
  /\ UNCHANGED <<attempt, row, phase, readOnly>>

(* Mutant: a call cut off counts as sent.                                  *)
CallCancelled_Sent(m) ==
  /\ At(m, "rpc")
  /\ \E stored \in {0, 1} : copies' = [copies EXCEPT ![m] = @ + stored]
  /\ Ends(m, "sent")
  /\ UNCHANGED <<attempt, row, transient, phase, readOnly>>

(* The call ends with a context error, that of the program shutting down   *)
(* or one the library gives a call whose session is torn down under it.    *)
(* Again the server may hold the message.                                  *)
CallCancelled(m) ==
  /\ At(m, "rpc")
  /\ \E stored \in {0, 1} : copies' = [copies EXCEPT ![m] = @ + stored]
  /\ Ends(m, "failed")
  /\ UNCHANGED <<attempt, row, transient, phase, readOnly>>

(* Mutant: the counter goes past its limit.                                *)
SleepOver_Unbounded(m) ==
  /\ At(m, "flood") \/ At(m, "backoff")
  /\ attempt' = [attempt EXCEPT ![m] = @ + 1]
  /\ GoTo(m, "token")
  /\ UNCHANGED <<verdict, row, copies, transient, phase, readOnly>>

(* sleep returns true; the loop's post statement counts the attempt, after *)
(* a flood wait's continue as after a backoff.                             *)
SleepOver(m) ==
  /\ At(m, "flood") \/ At(m, "backoff")
  /\ attempt' = [attempt EXCEPT ![m] = IF @ < MaxRetries THEN @ + 1 ELSE @]
  /\ GoTo(m, "token")
  /\ UNCHANGED <<verdict, row, copies, transient, phase, readOnly>>

(* awaitToken or sleep finds the context done.                             *)
WaitCancelled(m) ==
  /\ At(m, "token") \/ At(m, "flood") \/ At(m, "backoff")
  /\ phase = "quitting"
  /\ Ends(m, "failed")
  /\ UNCHANGED <<attempt, row, copies, transient, phase, readOnly>>

(* Mutants: every end is recorded as sent; a failed write ends deliver     *)
(* before the event is published.                                          *)
UpdateOutgoingState_AlwaysSent(m) ==
  /\ At(m, "settle")
  /\ row' = IF readOnly \/ phase = "quitting" \/ row[m] = "absent"
            THEN row ELSE [row EXCEPT ![m] = "sent"]
  /\ GoTo(m, "tell")
  /\ UNCHANGED <<attempt, verdict, copies, transient, phase, readOnly>>

UpdateOutgoingState_Silent(m) ==
  /\ At(m, "settle")
  /\ ~readOnly /\ phase = "up" /\ row[m] # "absent"
  /\ row' = [row EXCEPT ![m] = verdict[m]]
  /\ GoTo(m, "tell")
  /\ UNCHANGED <<attempt, verdict, copies, transient, phase, readOnly>>

(* markSent / markFailed: UpdateOutgoingState runs under deliver's own     *)
(* context, so it fails once that is done; it also fails on a read-only    *)
(* store and on a record that is gone.  A failure is logged.               *)
UpdateOutgoingState(m) ==
  /\ At(m, "settle")
  /\ row' = IF readOnly \/ phase = "quitting" \/ row[m] = "absent"
            THEN row ELSE [row EXCEPT ![m] = verdict[m]]
  /\ GoTo(m, "tell")
  /\ UNCHANGED <<attempt, verdict, copies, transient, phase, readOnly>>

(* Mutant: a failure is published and the message tried once more.         *)
PublishVerdict_TriesAgain(m) ==
  /\ At(m, "tell")
  /\ GoTo(m, IF verdict[m] = "failed" THEN "saved" ELSE "done")
  /\ UNCHANGED <<attempt, verdict, row, copies, transient, phase, readOnly>>

(* ... and the event is published whether or not the write succeeded.      *)
PublishVerdict(m) ==
  /\ At(m, "tell")
  /\ GoTo(m, "done")
  /\ UNCHANGED <<attempt, verdict, row, copies, transient, phase, readOnly>>
-----------------------------------------------------------------------------
(* The rest of the program.                                                *)

(* The chat is pruned or deleted; the foreign key cascades.                *)
ChatDeleted(m) ==
  /\ phase # "down" /\ ~readOnly /\ row[m] # "absent"
  /\ row' = [row EXCEPT ![m] = "absent"]
  /\ UNCHANGED <<pc, attempt, verdict, copies, transient, phase, readOnly>>

StorageModeChanges ==
  /\ phase # "down"
  /\ readOnly' = ~readOnly
  /\ UNCHANGED <<pc, attempt, verdict, row, copies, transient, phase>>

(* cancelBG: the service context is done.                                  *)
Quit ==
  /\ phase = "up"
  /\ phase' = "quitting"
  /\ UNCHANGED <<pc, attempt, verdict, row, copies, transient, readOnly>>

(* The process ends; nothing waits for the deliver goroutines.             *)
Exit ==
  /\ phase = "quitting"
  /\ phase' = "down"
  /\ pc' = [m \in Sends |-> IF pc[m] = "idle" THEN "idle" ELSE "dead"]
  /\ UNCHANGED <<attempt, verdict, row, copies, transient, readOnly>>

(* A new process opens the same database.  It does not read the table.     *)
Reopen ==
  /\ phase = "down"
  /\ phase' = "up"
  /\ readOnly' = FALSE
  /\ UNCHANGED <<pc, attempt, verdict, row, copies, transient>>

Answer(m) == Accepted(m) \/ Invalid(m) \/ TransientError(m)

Deliver(m) ==
  \/ StartDeliver(m) \/ TokenGranted(m)
  \/ Answer(m) \/ FloodWait(m) \/ CallCancelled(m)
  \/ SleepOver(m) \/ WaitCancelled(m)
  \/ UpdateOutgoingState(m) \/ PublishVerdict(m)

Next ==
  \/ \E m \in Sends : SaveOutgoing(m) \/ Deliver(m) \/ ChatDeleted(m)
  \/ StorageModeChanges \/ Quit \/ Exit \/ Reopen

Spec == Init /\ [][Next]_vars

(* The goroutine runs, its timers fire and its calls return; a server that *)
(* is asked again and again does not answer with FLOOD_WAIT forever.       *)
Fairness ==
  \A m \in Sends : WF_vars(Deliver(m)) /\ SF_vars(Answer(m))

FairSpec == Spec /\ Fairness
-----------------------------------------------------------------------------
(* What the interface has been told about m (OutgoingMessageStateChanged). *)
told == [m \in Sends |->
          CASE pc[m] \in {"idle", "refused", "saved"} -> "none"
            [] pc[m] = "done" -> verdict[m]
            [] pc[m] = "dead" -> "lost"
            [] OTHER -> "pending"]

(* Whatever says that a message is sent, the record or the event, the      *)
(* server does hold it.                                                    *)
SentWasDelivered ==
  \A m \in Sends : row[m] = "sent" \/ told[m] = "sent" => copies[m] >= 1

(* deliver calls the sender at most MaxRetries + 1 times without a verdict *)
(* of the server, and the chat never holds more copies of a message than   *)
(* transient errors can explain.                                           *)
AttemptsBounded ==
  \A m \in Sends :
    /\ transient[m] <= MaxRetries + 1
    /\ copies[m] <= transient[m] + 1

(* The record never contradicts the verdict the interface is given.        *)
RecordFinal ==
  \A m \in Sends : row[m] \in {"sent", "failed"} => row[m] = verdict[m]

(* A settled record stays settled, over later processes too, until its     *)
(* chat is deleted.                                                        *)
RecordNeverReverts ==
  [][\A m \in Sends :
       row[m] \in {"sent", "failed"} => row'[m] \in {row[m], "absent"}]_vars

(* Every accepted message is reported as sent or failed, as long as the    *)
(* process lives and the server does not flood-wait forever.               *)
AlwaysSettles ==
  \A m \in Sends : pc[m] = "saved" ~> pc[m] \in {"done", "dead"}

(* The service keeps the promise of module Outgoing.                       *)
Lifecycle == INSTANCE Outgoing
ImplementsLifecycle == Lifecycle!Spec
-----------------------------------------------------------------------------
(* What the source says and the code does not do.  README.md names the     *)
(* instance that refutes each of these.                                    *)

(* MaxNetworkRetries is "how many times SendService retries an RPC after a *)
(* non-validation, non-FLOOD_WAIT error before giving up" (SendConfig).    *)
GivesUp(m) ==
  /\ pc[m] = "rpc" /\ pc'[m] = "settle" /\ verdict'[m] = "failed"
  /\ transient'[m] = transient[m] + 1
RetryBudget ==
  [][\A m \in Sends : GivesUp(m) => transient[m] = MaxRetries]_vars

(* random_id is "the per-message deduplication id" (internal/tg/forward.go)*)
(* so that a message sent once is in the chat once.                        *)
DeliveredOnce == \A m \in Sends : copies[m] <= 1

(* "Every terminal transition writes back to storage" (deliver): with a    *)
(* writable store the record is no longer pending once deliver is done.    *)
TerminalRecorded ==
  [][\A m \in Sends :
       pc[m] = "settle" /\ pc'[m] = "tell" /\ ~readOnly => row'[m] # "pending"]_vars

(* "reopening lazytg surfaces in-flight or failed messages instead of      *)
(* silently dropping them" (migrations/0004_outgoing.sql): what an earlier *)
(* process left unsent is looked after again.                              *)
SurfacesAfterReopen ==
  \A m \in Sends :
    phase = "up" /\ row[m] \in {"pending", "failed"} => pc[m] # "dead"
=============================================================================
