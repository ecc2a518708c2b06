------------------------------- MODULE Session -------------------------------
(***************************************************************************)
(* The lifetime of the MTProto connection of lazytg: the supervisor that   *)
(* opens and tears down sessions (cmd/lazytg/cmd/session.go), the goroutine*)
(* of each session with the wrapper around the library's run loop          *)
(* (internal/tg/client.go), and the reconnect manager that drives the      *)
(* supervisor (internal/core/sync/reconnect.go).                           *)
(*                                                                         *)
(* Two goroutines call the supervisor.  "main" attaches at startup (Start) *)
(* and, once the user quits, calls Stop and closes the database.  "rm" is  *)
(* the reconnect manager: it calls Restart for every disconnect.  Each     *)
(* mutex-protected section of the supervisor is one action; between two    *)
(* sections everything else may run.                                       *)
(*                                                                         *)
(* A session is named by a member of Sessions.  The program opens an       *)
(* unbounded number of sessions; a name is taken again once its session is *)
(* gone and nothing refers to it any more.                                 *)
(***************************************************************************)
EXTENDS Naturals

CONSTANTS
  Sessions,     \* names of sessions
  NoSession,    \* the nil handle
  Stuck,        \* sessions that may need longer than the grace period to unwind
  MaxAttempts   \* ReconnectConfig.MaxAttempts, 0 is "unlimited"

ASSUME NoSessionAssumption == NoSession \notin Sessions
ASSUME StuckAssumption == Stuck \subseteq Sessions
ASSUME MaxAttemptsAssumption == MaxAttempts \in Nat

VARIABLES
  sess,      \* stage of each session's goroutine
  cancel,    \* has the session's own context been cancelled
  result,    \* what Client.Run returned: nil and context.Canceled are "canceled"
  ready,     \* content of the session's one-slot ready channel
  gap,       \* the session's gap-recovery goroutine
  cur,       \* session whose library client is the current one (Client.tgc)
  handle,    \* supervisor: the session cancel/done belong to
  stopped,   \* supervisor: no further session may start
  signal,    \* content of the one-slot disconnect channel
  pc, tgt, fail, \* per caller: program point, session at hand, error at hand
  attempt,   \* retry: number of the attempt (kept at 1 when unlimited)
  shown,     \* last connection state the manager published
  netUp      \* is the network good enough for handshakes and pings

svars == <<sess, cancel, result, ready, gap, cur>>
supvars == <<handle, stopped>>
procvars == <<pc, tgt, fail>>
vars == <<svars, supvars, signal, procvars, attempt, shown, netUp>>

Proc == {"main", "rm"}
Free == {"none", "gone"}
Stage == Free \cup {"spawned", "dialing", "live", "ended", "signalled"}
MainAt == {"start", "await", "teardown", "tearwait", "offline", "ui",
           "stopmark", "stoptake", "stopwait", "closed"}
RmAt == {"off", "wait", "backoff", "stoptake", "stopwait", "start", "await",
         "teardown", "tearwait", "drop", "ping", "exited"}

(* The goroutine of s exists: run has been spawned and done is still open. *)
Running == {s \in Sessions : sess[s] \notin Free}

(* cancelBG has run: the parent of every session and the manager's ctx.    *)
parentDone == pc["main"] \in {"stopmark", "stoptake", "stopwait", "closed"}
cancelled(s) == cancel[s] \/ parentDone

TypeOK ==
  /\ sess \in [Sessions -> Stage]
  /\ cancel \in [Sessions -> BOOLEAN]
  /\ result \in [Sessions -> {"none", "error", "canceled"}]
  /\ ready \in [Sessions -> {"none", "ok", "error", "canceled", "unauth"}]
  /\ gap \in [Sessions -> {"off", "running", "returned"}]
  /\ cur \in Sessions \cup {NoSession}
  /\ handle \in Sessions \cup {NoSession}
  /\ stopped \in BOOLEAN
  /\ signal \in {"empty", "error", "canceled"}
  /\ pc \in [Proc -> MainAt \cup RmAt]
  /\ pc["main"] \in MainAt
  /\ pc["rm"] \in RmAt
  /\ tgt \in [Proc -> Sessions \cup {NoSession}]
  /\ fail \in [Proc -> {"none", "error", "canceled", "unauth"}]
  /\ attempt \in Nat
  /\ shown \in {"connecting", "online", "offline"}
  /\ netUp \in BOOLEAN

(* main is about to call Start from attachTelegram; the manager does not   *)
(* exist yet.                                                              *)
Init ==
  /\ sess = [s \in Sessions |-> "none"]
  /\ cancel = [s \in Sessions |-> FALSE]
  /\ result = [s \in Sessions |-> "none"]
  /\ ready = [s \in Sessions |-> "none"]
  /\ gap = [s \in Sessions |-> "off"]
  /\ cur = NoSession
  /\ handle = NoSession
  /\ stopped = FALSE
  /\ signal = "empty"
  /\ pc = [p \in Proc |-> IF p = "main" THEN "start" ELSE "off"]
  /\ tgt = [p \in Proc |-> NoSession]
  /\ fail = [p \in Proc |-> "none"]
  /\ attempt = 1
  /\ shown = "connecting"
  /\ netUp \in BOOLEAN

GoTo(p, l) == pc' = [pc EXCEPT ![p] = l]
-----------------------------------------------------------------------------
(* The goroutine of one session: supervisor.run around Client.Run.         *)

(* Client.Run takes the client to use: the first run finds the one New     *)
(* built, every later run replaces the spent one.                          *)
Rotate(s) ==
  /\ sess[s] = "spawned"
  /\ sess' = [sess EXCEPT ![s] = "dialing"]
  /\ cur' = s
  /\ UNCHANGED <<cancel, result, ready, gap, supvars, signal, procvars, attempt, shown, netUp>>

(* Run fails before the callback executes: ready stays empty for now.      *)
DialFails(s) ==
  /\ sess[s] = "dialing" /\ ready[s] = "none"
  /\ ~netUp
  /\ sess' = [sess EXCEPT ![s] = "ended"]
  /\ result' = [result EXCEPT ![s] = "error"]
  /\ UNCHANGED <<cancel, ready, gap, cur, supvars, signal, procvars, attempt, shown, netUp>>

(* The callback asks for the authorization status and gets an error or a   *)
(* refusal, reports it and returns it.                                     *)
AuthFails(s) ==
  /\ sess[s] = "dialing"
  /\ \E why \in {"error", "unauth"} :
       /\ why = "error" => ~netUp
       /\ ready' = [ready EXCEPT ![s] = why]
  /\ sess' = [sess EXCEPT ![s] = "ended"]
  /\ result' = [result EXCEPT ![s] = "error"]
  /\ UNCHANGED <<cancel, gap, cur, supvars, signal, procvars, attempt, shown, netUp>>

(* Authorized: gap recovery starts, ready carries nil, the callback blocks.*)
AuthOk(s) ==
  /\ sess[s] = "dialing"
  /\ netUp
  /\ sess' = [sess EXCEPT ![s] = "live"]
  /\ ready' = [ready EXCEPT ![s] = "ok"]
  /\ gap' = [gap EXCEPT ![s] = "running"]
  /\ UNCHANGED <<cancel, result, cur, supvars, signal, procvars, attempt, shown, netUp>>

(* Mutant: the end of the run is not recorded.                             *)
Dies_Unrecorded(s) ==
  /\ sess[s] = "live" /\ ~netUp
  /\ sess' = [sess EXCEPT ![s] = "ended"]
  /\ UNCHANGED <<cancel, result, ready, gap, cur, supvars, signal, procvars, attempt, shown, netUp>>

(* The library gives the connection up for a reason of its own.            *)
Dies(s) ==
  /\ sess[s] = "live"
  /\ ~netUp
  /\ sess' = [sess EXCEPT ![s] = "ended"]
  /\ result' = [result EXCEPT ![s] = "error"]
  /\ UNCHANGED <<cancel, ready, gap, cur, supvars, signal, procvars, attempt, shown, netUp>>

(* A cancelled context ends the run with nil or context.Canceled.          *)
Unwinds(s) ==
  /\ sess[s] \in {"dialing", "live"}
  /\ cancelled(s)
  /\ sess' = [sess EXCEPT ![s] = "ended"]
  /\ result' = [result EXCEPT ![s] = "canceled"]
  /\ UNCHANGED <<cancel, ready, gap, cur, supvars, signal, procvars, attempt, shown, netUp>>

(* signalDisconnect: never blocks, the newest value wins.                  *)
SignalDisconnect(s) ==
  /\ sess[s] = "ended"
  /\ sess' = [sess EXCEPT ![s] = "signalled"]
  /\ signal' = result[s]
  /\ UNCHANGED <<cancel, result, ready, gap, cur, supvars, procvars, attempt, shown, netUp>>

(* Mutant: gap recovery does not listen to its context.                    *)
GapReturns_Deaf(s) ==
  /\ gap[s] = "running" /\ ~netUp
  /\ gap' = [gap EXCEPT ![s] = "returned"]
  /\ UNCHANGED <<sess, cancel, result, ready, cur, supvars, signal, procvars, attempt, shown, netUp>>

(* Gap recovery returns: on its own failure, or once runCtx is cancelled,  *)
(* which the end of the run does too.                                      *)
GapReturns(s) ==
  /\ gap[s] = "running"
  /\ \/ ~netUp
     \/ cancelled(s)
     \/ sess[s] \in {"ended", "signalled"}
  /\ gap' = [gap EXCEPT ![s] = "returned"]
  /\ UNCHANGED <<sess, cancel, result, ready, cur, supvars, signal, procvars, attempt, shown, netUp>>

(* What the goroutine posts when Run failed without any report: the run's  *)
(* own result, and a run that returned nil posts nil.                      *)
LateReport(s) ==
  IF ready[s] # "none" THEN {ready[s]}
  ELSE IF result[s] = "error" THEN {"error"} ELSE {"canceled", "ok"}

(* Mutant: done closes without joining gap recovery.                       *)
Finish_Unjoined(s) ==
  /\ sess[s] = "signalled"
  /\ \E r \in LateReport(s) : ready' = [ready EXCEPT ![s] = r]
  /\ sess' = [sess EXCEPT ![s] = "gone"]
  /\ UNCHANGED <<cancel, result, gap, cur, supvars, signal, procvars, attempt, shown, netUp>>

(* Gap recovery is joined, then done closes.                               *)
Finish(s) ==
  /\ sess[s] = "signalled"
  /\ gap[s] # "running"
  /\ \E r \in LateReport(s) : ready' = [ready EXCEPT ![s] = r]
  /\ sess' = [sess EXCEPT ![s] = "gone"]
  /\ UNCHANGED <<cancel, result, gap, cur, supvars, signal, procvars, attempt, shown, netUp>>
-----------------------------------------------------------------------------
(* Start, called by main at attach and by rm from Restart.                 *)

(* A name no running goroutine and no variable refers to.                  *)
Unused(s) ==
  /\ sess[s] \in Free
  /\ s \notin {handle, cur, tgt["main"], tgt["rm"]}

Open(p, s) ==
  /\ pc[p] = "start" /\ ~stopped
  /\ Unused(s)
  /\ handle' = s
  /\ tgt' = [tgt EXCEPT ![p] = s]
  /\ GoTo(p, "await")
  /\ sess' = [sess EXCEPT ![s] = "spawned"]
  /\ cancel' = [cancel EXCEPT ![s] = FALSE]
  /\ result' = [result EXCEPT ![s] = "none"]
  /\ ready' = [ready EXCEPT ![s] = "none"]
  /\ gap' = [gap EXCEPT ![s] = "off"]
  /\ UNCHANGED <<cur, stopped, signal, fail, attempt, shown, netUp>>

(* The handshake came up.  main attaches the services, starts the manager  *)
(* and builds the UI, which shows "online" at once.                        *)
AwaitOk(p) ==
  /\ pc[p] = "await"
  /\ ready[tgt[p]] = "ok"
  /\ tgt' = [tgt EXCEPT ![p] = NoSession]
  /\ IF p = "main"
     THEN /\ pc' = [pc EXCEPT !["main"] = "ui", !["rm"] = "wait"]
          /\ shown' = "online"
     ELSE GoTo(p, "drop") /\ UNCHANGED shown
  /\ UNCHANGED <<svars, supvars, signal, fail, attempt, netUp>>

(* The handshake failed, took too long, or the caller's context is done.   *)
AwaitFails(p) ==
  /\ pc[p] = "await"
  /\ \E why \in {"error", "canceled", "unauth"} :
       /\ \/ ready[tgt[p]] = why
          \/ ready[tgt[p]] = "none" /\ ~netUp /\ why = "error"
          \/ parentDone /\ why = "canceled"
       /\ fail' = [fail EXCEPT ![p] = why]
  /\ GoTo(p, "teardown")
  /\ UNCHANGED <<svars, supvars, signal, tgt, attempt, shown, netUp>>

(* Mutant: the handle is dropped and the session not cancelled.            *)
Teardown_Uncancelled(p) ==
  /\ pc[p] = "teardown"
  /\ handle' = IF handle = tgt[p] THEN NoSession ELSE handle
  /\ GoTo(p, "tearwait")
  /\ UNCHANGED <<sess, cancel, result, ready, gap, cur, stopped, signal, tgt, fail, attempt, shown, netUp>>

(* teardown drops the supervisor's handle only if it is still this session.*)
Teardown(p) ==
  /\ pc[p] = "teardown"
  /\ handle' = IF handle = tgt[p] THEN NoSession ELSE handle
  /\ cancel' = [cancel EXCEPT ![tgt[p]] = TRUE]
  /\ GoTo(p, "tearwait")
  /\ UNCHANGED <<sess, result, ready, gap, cur, stopped, signal, tgt, fail, attempt, shown, netUp>>

(* Mutant: a failed Start does not wait for the session it gives up.       *)
WaitOver_Never(p) == TRUE

(* wait returns: done closed, or the grace period is over.                 *)
WaitOver(p) == sess[tgt[p]] = "gone" \/ tgt[p] \in Stuck

(* Mutant: the manager waits for a disconnect that is not coming.          *)
AttemptFailed_Waits ==
  /\ shown' = "offline"
  /\ GoTo("rm", "wait") /\ UNCHANGED attempt

(* What retry does with an attempt that failed and may be repeated.        *)
AttemptFailed ==
  /\ shown' = "offline"
  /\ IF MaxAttempts > 0 /\ attempt >= MaxAttempts
     THEN GoTo("rm", "wait") /\ UNCHANGED attempt
     ELSE /\ GoTo("rm", "backoff")
          /\ attempt' = IF MaxAttempts > 0 THEN attempt + 1 ELSE attempt

(* Start returns its error: a refused authorization closes the supervisor. *)
StartFailed(p) ==
  /\ pc[p] = "tearwait"
  /\ WaitOver(p)
  /\ stopped' = (stopped \/ fail[p] = "unauth")
  /\ tgt' = [tgt EXCEPT ![p] = NoSession]
  /\ fail' = [fail EXCEPT ![p] = "none"]
  /\ \/ /\ p = "main"
        /\ GoTo(p, "offline")
        /\ shown' = "offline"
        /\ UNCHANGED attempt
     \/ /\ p = "rm" /\ fail[p] # "error"
        /\ GoTo(p, "exited")
        /\ UNCHANGED <<attempt, shown>>
     \/ /\ p = "rm" /\ fail[p] = "error"
        /\ AttemptFailed
  /\ UNCHANGED <<svars, handle, signal, netUp>>
-----------------------------------------------------------------------------
(* stopCurrent, called by rm from Restart and by main from Stop.  After it *)
(* a Restart goes on to Start, and Stop lets main close the database.      *)
AfterStop(p) == IF p = "main" THEN "closed" ELSE "start"

StopCurrent(p) ==
  /\ pc[p] = "stoptake"
  /\ handle' = NoSession
  /\ tgt' = [tgt EXCEPT ![p] = handle]
  /\ IF handle = NoSession
     THEN GoTo(p, AfterStop(p)) /\ UNCHANGED cancel
     ELSE /\ GoTo(p, "stopwait")
          /\ cancel' = [cancel EXCEPT ![handle] = TRUE]
  /\ UNCHANGED <<sess, result, ready, gap, cur, stopped, signal, fail, attempt, shown, netUp>>

StopDone(p) ==
  /\ pc[p] = "stopwait"
  /\ sess[tgt[p]] = "gone"
  /\ tgt' = [tgt EXCEPT ![p] = NoSession]
  /\ GoTo(p, AfterStop(p))
  /\ UNCHANGED <<svars, supvars, signal, fail, attempt, shown, netUp>>

(* The grace period is over first: Stop gives up waiting, Restart returns  *)
(* errSessionStuck.                                                        *)
StopGivesUp(p) ==
  /\ pc[p] = "stopwait"
  /\ tgt[p] \in Stuck /\ sess[tgt[p]] # "gone"
  /\ tgt' = [tgt EXCEPT ![p] = NoSession]
  /\ IF p = "main"
     THEN GoTo(p, "closed") /\ UNCHANGED <<attempt, shown>>
     ELSE AttemptFailed
  /\ UNCHANGED <<svars, supvars, signal, fail, netUp>>
-----------------------------------------------------------------------------
(* main: the user quits.  cancelBG runs, then Stop if the attach succeeded.*)
Quit ==
  /\ pc["main"] \in {"ui", "offline"}
  /\ GoTo("main", IF pc["main"] = "ui" THEN "stopmark" ELSE "closed")
  /\ UNCHANGED <<svars, supvars, signal, tgt, fail, attempt, shown, netUp>>

(* Mutant: the supervisor stays open.                                      *)
MarkStopped_StaysOpen ==
  /\ pc["main"] = "stopmark"
  /\ GoTo("main", "stoptake")
  /\ UNCHANGED <<svars, supvars, signal, tgt, fail, attempt, shown, netUp>>

MarkStopped ==
  /\ pc["main"] = "stopmark"
  /\ stopped' = TRUE
  /\ GoTo("main", "stoptake")
  /\ UNCHANGED <<svars, handle, signal, tgt, fail, attempt, shown, netUp>>
-----------------------------------------------------------------------------
(* rm: ReconnectManager.Run and retry.                                     *)

(* A disconnect is read: cancellation is taken for a shutdown.             *)
ObserveDisconnect ==
  /\ pc["rm"] = "wait" /\ signal # "empty"
  /\ signal' = "empty"
  /\ IF signal = "canceled"
     THEN GoTo("rm", "exited") /\ UNCHANGED <<attempt, shown>>
     ELSE /\ GoTo("rm", "backoff")
          /\ attempt' = 1
          /\ shown' = "offline"
  /\ UNCHANGED <<svars, supvars, tgt, fail, netUp>>

ContextDone ==
  /\ pc["rm"] \in {"wait", "backoff", "ping"} /\ parentDone
  /\ GoTo("rm", "exited")
  /\ UNCHANGED <<svars, supvars, signal, tgt, fail, attempt, shown, netUp>>

(* The backoff is over: publish "connecting" and call Restart.             *)
BackoffOver ==
  /\ pc["rm"] = "backoff"
  /\ GoTo("rm", "stoptake")
  /\ shown' = "connecting"
  /\ UNCHANGED <<svars, supvars, signal, tgt, fail, attempt, netUp>>

(* Start finds the supervisor stopped: errSessionStopped ends the manager. *)
StartRefused ==
  /\ pc["rm"] = "start" /\ stopped
  /\ GoTo("rm", "exited")
  /\ UNCHANGED <<svars, supvars, signal, tgt, fail, attempt, shown, netUp>>

(* Mutant: the disconnect of the replaced session stays in the channel.    *)
DropStaleDisconnect_Keeps ==
  /\ pc["rm"] = "drop"
  /\ GoTo("rm", "ping")
  /\ UNCHANGED <<svars, supvars, signal, tgt, fail, attempt, shown, netUp>>

(* Mutant: the new session is taken for granted, without a ping.           *)
DropStaleDisconnect_Unpinged ==
  /\ pc["rm"] = "drop"
  /\ signal' = "empty"
  /\ GoTo("rm", "wait")
  /\ UNCHANGED <<svars, supvars, tgt, fail, attempt, shown, netUp>>

(* What is in the channel is taken to be the replaced session's.  The ping *)
(* that follows finds a new session that has died already.                 *)
DropStaleDisconnect ==
  /\ pc["rm"] = "drop"
  /\ signal' = "empty"
  /\ GoTo("rm", "ping")
  /\ UNCHANGED <<svars, supvars, tgt, fail, attempt, shown, netUp>>

(* Ping goes to the current client, so it answers only while that client's *)
(* session is live.                                                        *)
PingAnswered ==
  /\ pc["rm"] = "ping"
  /\ netUp /\ cur \in Sessions /\ sess[cur] = "live"
  /\ GoTo("rm", "wait")
  /\ shown' = "online"
  /\ UNCHANGED <<svars, supvars, signal, tgt, fail, attempt, netUp>>

PingFails ==
  /\ pc["rm"] = "ping"
  /\ ~netUp \/ cur \notin Sessions \/ sess[cur] # "live"
  /\ AttemptFailed
  /\ UNCHANGED <<svars, supvars, signal, tgt, fail, netUp>>
-----------------------------------------------------------------------------
(* The network (environment).                                              *)
NetChanges ==
  /\ netUp' = ~netUp
  /\ UNCHANGED <<svars, supvars, signal, procvars, attempt, shown>>

SessionStep(s) ==
  \/ Rotate(s) \/ DialFails(s) \/ AuthFails(s) \/ AuthOk(s) \/ Dies(s)
  \/ Unwinds(s) \/ SignalDisconnect(s) \/ GapReturns(s) \/ Finish(s)

SupervisorStep(p) ==
  \/ \E s \in Sessions : Open(p, s)
  \/ AwaitOk(p) \/ AwaitFails(p) \/ Teardown(p) \/ StartFailed(p)
  \/ StopCurrent(p) \/ StopDone(p) \/ StopGivesUp(p)

ManagerStep ==
  \/ ObserveDisconnect \/ ContextDone \/ BackoffOver \/ StartRefused
  \/ DropStaleDisconnect \/ PingAnswered \/ PingFails

Next ==
  \/ \E s \in Sessions : SessionStep(s)
  \/ \E p \in Proc : SupervisorStep(p)
  \/ Quit \/ MarkStopped
  \/ ManagerStep
  \/ NetChanges

Spec == Init /\ [][Next]_vars

(* Goroutines are scheduled and their timers fire: every step of theirs is *)
(* eventually taken.  The user need not quit, the network need not change, *)
(* Telegram need not refuse an authorization, a live connection need not   *)
(* die.                                                                    *)
Fairness ==
  /\ \A s \in Sessions :
       /\ WF_vars(Rotate(s) \/ AuthOk(s) \/ Unwinds(s) \/ SignalDisconnect(s) \/ Finish(s))
       /\ WF_vars((sess[s] # "live" \/ cancelled(s)) /\ GapReturns(s))
  /\ \A p \in Proc : WF_vars(SupervisorStep(p))
  /\ WF_vars(MarkStopped)
  /\ WF_vars(ManagerStep)

FairSpec == Spec /\ Fairness
-----------------------------------------------------------------------------
(* Two Run loops on one account are two device slots as far as Telegram is *)
(* concerned (Restart): at most one session goroutine exists at a time.    *)
(* Needs Stuck = {}: see the run session_two_loops for the other case.     *)
OneRunLoop == \A s, t \in Running : s = t

(* The update manager is shared by all sessions and each session resets it *)
(* (RunManager): two gap-recovery goroutines never run together.           *)
GapExclusive ==
  \A s, t \in Sessions : gap[s] = "running" /\ gap[t] = "running" => s = t

(* No connection is left that nobody owns: a session goroutine has been    *)
(* told to stop or is the one the supervisor's handle reaches.             *)
NoOrphan == \A s \in Running : cancel[s] \/ handle = s

(* Once main goes on to close the database, every session left has been    *)
(* cancelled by the supervisor and no reconnect attempt opens another one. *)
ClosedIsFinal ==
  pc["main"] = "closed" =>
    /\ handle = NoSession
    /\ \A s \in Running : cancel[s]

(* A session that outlives its grace period is never left running          *)
(* uncancelled and unheld, nor is one opened after the shutdown            *)
(* (stopCurrent and markStopped of session.go): what holds of the          *)
(* supervisor even when sessions get stuck.                                *)
StuckStaysOwned == NoOrphan /\ ClosedIsFinal

(* The manager ends its loop only when the program shuts down or the       *)
(* authorization is gone: it never takes the teardown of a session it      *)
(* replaced itself for a shutdown (dropStaleDisconnect).                   *)
ManagerSurvives == pc["rm"] = "exited" => parentDone \/ stopped

(* dropStaleDisconnect discards no disconnect the manager still needs:     *)
(* while it waits on an empty channel some session has yet to report.      *)
NoLostDisconnect ==
  pc["rm"] = "wait" /\ signal = "empty" =>
    \E s \in Sessions : sess[s] \in {"live", "ended"}

(* If the network comes back for good, the manager brings a session back   *)
(* and settles on "online", unless the attach failed, the account lost its *)
(* authorization or the user quit.                                         *)
Connected ==
  /\ pc["rm"] = "wait" /\ signal = "empty" /\ shown = "online"
  /\ cur \in Sessions /\ sess[cur] = "live"
Recovers ==
  (<>[]netUp) => <>[](Connected \/ stopped \/ parentDone \/ pc["main"] = "offline")

(* Quitting always completes: the database is closed, the manager has left *)
(* its loop, and no session goroutine stays behind.                        *)
ShutdownCompletes ==
  parentDone ~> ( /\ pc["main"] = "closed"
                  /\ pc["rm"] \in {"off", "exited"}
                  /\ Running = {} )
-----------------------------------------------------------------------------
(* The supervisor implements the one device slot of DeviceSlot: the holder *)
(* is the session whose goroutine exists.                                  *)
Holder == IF Running = {} THEN NoSession ELSE CHOOSE s \in Sessions : s \in Running
Slot == INSTANCE DeviceSlot WITH holder <- Holder, closed <- stopped
ImplementsDeviceSlot == Slot!Spec
-----------------------------------------------------------------------------
(* What the source says and the code does not do.  README.md names the     *)
(* instance that refutes each of these.                                    *)

(* Stop waits for the session goroutine, because the caller closes the     *)
(* database right after (the comment of wait).                             *)
StopWaits == pc["main"] = "closed" => Running = {}
=============================================================================
