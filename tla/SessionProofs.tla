--------------------------- MODULE SessionProofs ---------------------------
(***************************************************************************)
(* Theorems about Session, for any set of session names, and about the     *)
(* connection indicator of StatusFeed.                                     *)
(*                                                                         *)
(* Control relates the program points of the two callers to the handle of  *)
(* the supervisor; with it NoOrphan becomes inductive.  Owned adds, for    *)
(* sessions that unwind within the grace period, that a running session is *)
(* always at the hand of someone, from which OneRunLoop follows.           *)
(***************************************************************************)
EXTENDS StatusFeed, TLAPS

AtStop == {"stopmark", "stoptake", "stopwait", "closed"}

(* Where the callers can be together, and what the handle is there.        *)
Control ==
  /\ pc["rm"] # "off" => pc["main"] \in {"ui"} \cup AtStop
  /\ pc["main"] \in {"stoptake", "stopwait"} => stopped
  /\ pc["main"] = "closed" /\ pc["rm"] # "off" => stopped
  /\ pc["main"] \in {"start", "tearwait", "offline", "stopwait", "closed"} => handle = NoSession
  /\ pc["rm"] \in {"start", "tearwait", "stopwait"} => handle = NoSession
  /\ \A p \in Proc :
       /\ pc[p] \in {"await", "teardown"} => tgt[p] \in Sessions /\ handle \in {tgt[p], NoSession}
       /\ pc[p] \in {"tearwait", "stopwait"} => tgt[p] \in Sessions

(* A run that ended has a result to signal.                                *)
Ended ==
  \A s \in Sessions : sess[s] \in {"ended", "signalled"} => result[s] # "none"

SafeInv == TypeOK /\ Control /\ Ended /\ NoOrphan

LEMMA InitSafeInv == Init => SafeInv
<1> SUFFICES ASSUME Init PROVE SafeInv
  OBVIOUS
<1> USE DEF Init, Running, Free, Stage, Proc, MainAt, RmAt, AtStop
<1>1. TypeOK
  BY DEF TypeOK
<1>2. Control /\ Ended /\ NoOrphan
  BY DEF Control, Ended, NoOrphan
<1> QED
  BY <1>1, <1>2 DEF SafeInv

LEMMA SessionStepSafe ==
  ASSUME SafeInv, NEW s \in Sessions, SessionStep(s)
  PROVE  SafeInv'
<1> USE DEF SafeInv, TypeOK, Control, Ended, NoOrphan, Running, Free, Stage, Proc, MainAt, RmAt, AtStop,
        supvars, procvars
<1>1. CASE Rotate(s)            BY <1>1 DEF Rotate
<1>2. CASE DialFails(s)         BY <1>2 DEF DialFails
<1>3. CASE AuthFails(s)         BY <1>3 DEF AuthFails
<1>4. CASE AuthOk(s)            BY <1>4 DEF AuthOk
<1>5. CASE Dies(s)              BY <1>5 DEF Dies
<1>6. CASE Unwinds(s)           BY <1>6 DEF Unwinds
<1>7. CASE SignalDisconnect(s)  BY <1>7 DEF SignalDisconnect
<1>8. CASE GapReturns(s)        BY <1>8 DEF GapReturns
<1>9. CASE Finish(s)            BY <1>9 DEF Finish, LateReport
<1> QED BY <1>1, <1>2, <1>3, <1>4, <1>5, <1>6, <1>7, <1>8, <1>9 DEF SessionStep

LEMMA SupervisorStepSafe ==
  ASSUME SafeInv, NEW p \in Proc, SupervisorStep(p)
  PROVE  SafeInv'
<1> USE NoSessionAssumption, MaxAttemptsAssumption
    DEF SafeInv, TypeOK, Control, Ended, NoOrphan, Running, Free, Stage, Proc, MainAt, RmAt, AtStop,
        svars, supvars, procvars, GoTo
<1>1. ASSUME NEW s \in Sessions, Open(p, s) PROVE SafeInv'
  BY <1>1 DEF Open, Unused
<1>2. CASE AwaitOk(p)      BY <1>2 DEF AwaitOk
<1>3. CASE AwaitFails(p)   BY <1>3 DEF AwaitFails
<1>4. CASE Teardown(p)     BY <1>4 DEF Teardown
<1>5. CASE StartFailed(p)  BY <1>5 DEF StartFailed, AttemptFailed
<1>6. CASE StopCurrent(p)
  <2>1. CASE handle = NoSession  BY <1>6, <2>1 DEF StopCurrent, AfterStop
  <2>2. CASE handle # NoSession
    <3>1. TypeOK'
      <4>1. /\ handle \in Sessions
            /\ cancel' = [cancel EXCEPT ![handle] = TRUE]
            /\ pc' = [pc EXCEPT ![p] = "stopwait"]
            /\ tgt' = [tgt EXCEPT ![p] = handle]
            /\ handle' = NoSession
        BY <1>6, <2>2 DEF StopCurrent
      <4>2. cancel' \in [Sessions -> BOOLEAN] /\ tgt' \in [Proc -> Sessions \cup {NoSession}]
        BY <4>1
      <4>3. /\ pc' \in [Proc -> MainAt \cup RmAt]
            /\ pc'["main"] \in MainAt /\ pc'["rm"] \in RmAt
        BY <4>1
      <4> QED  BY <4>1, <4>2, <4>3, <1>6 DEF StopCurrent
    <3>2. Ended' /\ NoOrphan'  BY <1>6, <2>2 DEF StopCurrent
    <3>3. Control'             BY <1>6, <2>2 DEF StopCurrent
    <3> QED  BY <3>1, <3>2, <3>3
  <2> QED  BY <2>1, <2>2
<1>7. CASE StopDone(p)     BY <1>7 DEF StopDone, AfterStop
<1>8. CASE StopGivesUp(p)  BY <1>8 DEF StopGivesUp, AttemptFailed
<1> QED BY <1>1, <1>2, <1>3, <1>4, <1>5, <1>6, <1>7, <1>8 DEF SupervisorStep

LEMMA ManagerStepSafe ==
  ASSUME SafeInv, ManagerStep
  PROVE  SafeInv'
<1> USE MaxAttemptsAssumption
    DEF SafeInv, TypeOK, Control, Ended, NoOrphan, Running, Free, Stage, Proc, MainAt, RmAt, AtStop,
        svars, supvars, procvars, GoTo
<1>1. CASE ObserveDisconnect    BY <1>1 DEF ObserveDisconnect
<1>2. CASE ContextDone          BY <1>2 DEF ContextDone
<1>3. CASE BackoffOver          BY <1>3 DEF BackoffOver
<1>4. CASE StartRefused         BY <1>4 DEF StartRefused
<1>5. CASE DropStaleDisconnect  BY <1>5 DEF DropStaleDisconnect
<1>6. CASE PingAnswered         BY <1>6 DEF PingAnswered
<1>7. CASE PingFails            BY <1>7 DEF PingFails, AttemptFailed
<1> QED BY <1>1, <1>2, <1>3, <1>4, <1>5, <1>6, <1>7 DEF ManagerStep

LEMMA NextSafeInv == SafeInv /\ [Next]_vars => SafeInv'
<1> SUFFICES ASSUME SafeInv, [Next]_vars PROVE SafeInv'
  OBVIOUS
<1> USE DEF SafeInv, TypeOK, Control, Ended, NoOrphan, Running, Free, Stage, Proc, MainAt, RmAt, AtStop,
        svars, supvars, procvars, GoTo
<1>1. CASE Quit         BY <1>1 DEF Quit
<1>2. CASE MarkStopped  BY <1>2 DEF MarkStopped
<1>3. CASE NetChanges   BY <1>3 DEF NetChanges
<1>4. CASE UNCHANGED vars
  BY <1>4 DEF vars
<1> QED
  BY <1>1, <1>2, <1>3, <1>4, SessionStepSafe, SupervisorStepSafe, ManagerStepSafe DEF Next

(* TypeOK, for any number of sessions and any attempt limit.               *)
THEOREM TypeCorrect == Spec => []TypeOK
<1>1. SafeInv => TypeOK
  BY DEF SafeInv
<1> QED
  BY InitSafeInv, NextSafeInv, <1>1, PTL DEF Spec

(* Nobody ever loses track of a connection: even when sessions do not      *)
(* unwind in time, each is cancelled or held by the supervisor.            *)
THEOREM NeverOrphaned == Spec => []NoOrphan
<1>1. SafeInv => NoOrphan
  BY DEF SafeInv
<1> QED
  BY InitSafeInv, NextSafeInv, <1>1, PTL DEF Spec

(* What Stop leaves behind has been cancelled, even when it gave up        *)
(* waiting, and the supervisor holds no session any more.                  *)
THEOREM ClosedStaysFinal == Spec => []ClosedIsFinal
<1>1. SafeInv => ClosedIsFinal
  BY NoSessionAssumption DEF SafeInv, TypeOK, Control, NoOrphan, ClosedIsFinal, Running
<1> QED
  BY InitSafeInv, NextSafeInv, <1>1, PTL DEF Spec
(* Both together: what a session that does not stop in time cannot break.  *)
THEOREM StuckOwned == Spec => []StuckStaysOwned
  BY NeverOrphaned, ClosedStaysFinal, PTL DEF StuckStaysOwned
-----------------------------------------------------------------------------
(* Sessions that unwind within the grace period.                           *)

AtHand == {"await", "teardown", "tearwait", "stopwait"}

(* A running session is the supervisor's or is at some caller's hand; no   *)
(* other one exists, and none does when the next one may open.             *)
Owned ==
  /\ \A s \in Running : handle = s \/ \E p \in Proc : tgt[p] = s /\ pc[p] \in AtHand
  /\ \A p \in Proc : pc[p] = "start" /\ ~stopped => Running = {}
  /\ pc["main"] \in {"await", "teardown"} => handle = tgt["main"]
  /\ pc["rm"] \in {"await", "teardown"} /\ handle = NoSession =>
       \/ sess[tgt["rm"]] = "gone"
       \/ pc["main"] = "stopwait" /\ tgt["main"] = tgt["rm"]

(* The gap-recovery goroutine is joined before done closes.                *)
GapJoined == \A s \in Sessions : gap[s] = "running" => s \in Running

TimelyInv == SafeInv /\ Owned /\ OneRunLoop /\ GapJoined

LEMMA InitTimelyInv == Init => TimelyInv
<1> SUFFICES ASSUME Init PROVE TimelyInv
  OBVIOUS
<1> USE DEF Init, Running, Free, Proc
<1>1. Owned /\ OneRunLoop /\ GapJoined
  BY DEF Owned, OneRunLoop, GapJoined
<1> QED
  BY <1>1, InitSafeInv DEF TimelyInv

LEMMA SessionStepTimely ==
  ASSUME TimelyInv, NEW s \in Sessions, SessionStep(s)
  PROVE  (Owned /\ OneRunLoop /\ GapJoined)'
<1> USE DEF TimelyInv, SafeInv, TypeOK, Owned, OneRunLoop, GapJoined, Running, Free, Stage,
        supvars, procvars
<1>1. CASE Rotate(s)            BY <1>1 DEF Rotate
<1>2. CASE DialFails(s)         BY <1>2 DEF DialFails
<1>3. CASE AuthFails(s)         BY <1>3 DEF AuthFails
<1>4. CASE AuthOk(s)            BY <1>4 DEF AuthOk
<1>5. CASE Dies(s)              BY <1>5 DEF Dies
<1>6. CASE Unwinds(s)           BY <1>6 DEF Unwinds
<1>7. CASE SignalDisconnect(s)  BY <1>7 DEF SignalDisconnect
<1>8. CASE GapReturns(s)        BY <1>8 DEF GapReturns
<1>9. CASE Finish(s)            BY <1>9 DEF Finish
<1> QED BY <1>1, <1>2, <1>3, <1>4, <1>5, <1>6, <1>7, <1>8, <1>9 DEF SessionStep

LEMMA SupervisorStepTimely ==
  ASSUME Stuck = {}, TimelyInv, NEW p \in Proc, SupervisorStep(p)
  PROVE  (Owned /\ OneRunLoop /\ GapJoined)'
<1> USE NoSessionAssumption
    DEF TimelyInv, SafeInv, TypeOK, Control, Owned, OneRunLoop, GapJoined, Running, Free, Stage,
        Proc, MainAt, RmAt, AtStop, AtHand, svars, supvars, procvars, GoTo
<1>1. ASSUME NEW s \in Sessions, Open(p, s) PROVE (Owned /\ OneRunLoop /\ GapJoined)'
  BY <1>1 DEF Open, Unused
<1>2. CASE AwaitOk(p)      BY <1>2 DEF AwaitOk
<1>3. CASE AwaitFails(p)   BY <1>3 DEF AwaitFails
<1>4. CASE Teardown(p)     BY <1>4 DEF Teardown
<1>5. CASE StartFailed(p)  BY <1>5 DEF StartFailed, AttemptFailed, WaitOver
<1>6. CASE StopCurrent(p)  BY <1>6 DEF StopCurrent, AfterStop
<1>7. CASE StopDone(p)     BY <1>7 DEF StopDone, AfterStop
<1>8. CASE StopGivesUp(p)  BY <1>8 DEF StopGivesUp
<1> QED BY <1>1, <1>2, <1>3, <1>4, <1>5, <1>6, <1>7, <1>8 DEF SupervisorStep

LEMMA ManagerStepTimely ==
  ASSUME TimelyInv, ManagerStep
  PROVE  (Owned /\ OneRunLoop /\ GapJoined)'
<1> USE DEF TimelyInv, SafeInv, TypeOK, Owned, OneRunLoop, GapJoined, Running, Proc, AtHand,
        svars, supvars, procvars, GoTo
<1>1. CASE ObserveDisconnect    BY <1>1 DEF ObserveDisconnect
<1>2. CASE ContextDone          BY <1>2 DEF ContextDone
<1>3. CASE BackoffOver          BY <1>3 DEF BackoffOver
<1>4. CASE StartRefused         BY <1>4 DEF StartRefused
<1>5. CASE DropStaleDisconnect  BY <1>5 DEF DropStaleDisconnect
<1>6. CASE PingAnswered         BY <1>6 DEF PingAnswered
<1>7. CASE PingFails            BY <1>7 DEF PingFails, AttemptFailed
<1> QED BY <1>1, <1>2, <1>3, <1>4, <1>5, <1>6, <1>7 DEF ManagerStep

LEMMA NextTimelyInv ==
  ASSUME Stuck = {}, TimelyInv, [Next]_vars
  PROVE  TimelyInv'
<1>1. SafeInv'
  BY NextSafeInv DEF TimelyInv
<1>2. (Owned /\ OneRunLoop /\ GapJoined)'
  <2> USE DEF TimelyInv, SafeInv, TypeOK, Owned, OneRunLoop, GapJoined, Running, Proc, AtHand,
          svars, supvars, procvars, GoTo
  <2>1. CASE Quit             BY <2>1 DEF Quit
  <2>2. CASE MarkStopped      BY <2>2 DEF MarkStopped
  <2>3. CASE NetChanges       BY <2>3 DEF NetChanges
  <2>4. CASE UNCHANGED vars   BY <2>4 DEF vars
  <2> QED
    BY <2>1, <2>2, <2>3, <2>4, SessionStepTimely, SupervisorStepTimely, ManagerStepTimely DEF Next
<1> QED
  BY <1>1, <1>2 DEF TimelyInv

(* At most one session goroutine exists, as long as every session unwinds  *)
(* within the grace period.                                                *)
THEOREM SingleRunLoop ==
  ASSUME Stuck = {}
  PROVE  Spec => []OneRunLoop
<1>1. TimelyInv /\ [Next]_vars => TimelyInv'
  BY NextTimelyInv
<1>2. TimelyInv => OneRunLoop
  BY DEF TimelyInv
<1> QED
  BY InitTimelyInv, <1>1, <1>2, PTL DEF Spec

(* Under the same condition the shared update manager is run by one        *)
(* session at a time.                                                      *)
THEOREM SingleGapRecovery ==
  ASSUME Stuck = {}
  PROVE  Spec => []GapExclusive
<1>1. TimelyInv /\ [Next]_vars => TimelyInv'
  BY NextTimelyInv
<1>2. TimelyInv => GapExclusive
  BY DEF TimelyInv, OneRunLoop, GapJoined, GapExclusive
<1> QED
  BY InitTimelyInv, <1>1, <1>2, PTL DEF Spec
-----------------------------------------------------------------------------
(* The device slot.                                                        *)

LEMMA HolderIsRunning ==
  ASSUME OneRunLoop, NEW s \in Running
  PROVE  Holder = s
<1>1. \A t \in Sessions : t \in Running => t = s
  BY DEF OneRunLoop
<1>2. s \in Sessions
  BY DEF Running
<1>3. (CHOOSE t \in Sessions : t \in Running) \in Running
  BY <1>2
<1> QED
  BY <1>1, <1>3 DEF Holder, Running

LEMMA NobodyHolds == ASSUME Running = {} PROVE Holder = NoSession
  BY DEF Holder

(* A step that opens no session leaves the holder in the slot or vacates   *)
(* it.                                                                     *)
LEMMA HolderKept ==
  ASSUME TimelyInv, TimelyInv', Running' \subseteq Running
  PROVE  Holder' = Holder \/ (Holder # NoSession /\ Holder' = NoSession)
<1>1. CASE Running' = {}
  <2>1. Holder' = NoSession
    BY <1>1 DEF Holder
  <2> QED  BY <2>1
<1>2. CASE Running' # {}
  <2>1. PICK s : s \in Running'
    BY <1>2
  <2>2. s \in Running
    BY <2>1
  <2>3. Holder = s
    BY <2>2, HolderIsRunning DEF TimelyInv
  <2>4. Holder' = s
    <3>1. \A t \in Sessions : t \in Running' => t = s
      BY <2>1 DEF TimelyInv, OneRunLoop
    <3>2. s \in Sessions
      BY <2>1 DEF Running
    <3>3. (CHOOSE t \in Sessions : t \in Running') \in Running'
      BY <2>1, <3>2
    <3> QED  BY <3>1, <3>3, <2>1 DEF Holder, Running
  <2> QED  BY <2>3, <2>4
<1> QED
  BY <1>1, <1>2

(* Opening a session occupies the slot.                                    *)
LEMMA OpenOccupies ==
  ASSUME TimelyInv, TimelyInv', NEW p \in Proc, NEW s \in Sessions, Open(p, s)
  PROVE  Slot!Occupy(s)
<1>1. Running = {} /\ ~stopped
  BY DEF TimelyInv, Owned, Open
<1>2. Running' = {s}
  BY <1>1 DEF Open, Running, TimelyInv, SafeInv, TypeOK, Free
<1>3. Holder = NoSession
  BY <1>1, NobodyHolds
<1>4. Holder' = s
  <2>1. (CHOOSE t \in Sessions : t \in Running') = s
    BY <1>2
  <2> QED  BY <1>2, <2>1 DEF Holder
<1> QED
  BY <1>1, <1>3, <1>4 DEF Slot!Occupy, Open

(* stopped only ever changes from FALSE to TRUE, and no step that changes  *)
(* it opens or ends a session.                                             *)
LEMMA OtherSteps ==
  ASSUME TimelyInv, [Next]_vars, ~\E p \in Proc, s \in Sessions : Open(p, s)
  PROVE  /\ Running' \subseteq Running
         /\ stopped' # stopped => stopped' = TRUE /\ sess' = sess
<1> USE DEF TimelyInv, SafeInv, TypeOK, Running, Free, Stage, svars, supvars, procvars
<1>1. ASSUME NEW s \in Sessions, SessionStep(s)
      PROVE  Running' \subseteq Running /\ stopped' = stopped
  BY <1>1 DEF SessionStep, Rotate, DialFails, AuthFails, AuthOk, Dies, Unwinds,
     SignalDisconnect, GapReturns, Finish
<1>2. ASSUME NEW p \in Proc, SupervisorStep(p)
      PROVE  sess' = sess /\ (stopped' # stopped => stopped' = TRUE)
  BY <1>2 DEF SupervisorStep, AwaitOk, AwaitFails, Teardown, StartFailed, StopCurrent,
     StopDone, StopGivesUp
<1>3. ManagerStep => sess' = sess /\ stopped' = stopped
  BY DEF ManagerStep, ObserveDisconnect, ContextDone, BackoffOver, StartRefused,
     DropStaleDisconnect, PingAnswered, PingFails
<1>4. Quit \/ MarkStopped \/ NetChanges => sess' = sess /\ (stopped' # stopped => stopped' = TRUE)
  BY DEF Quit, MarkStopped, NetChanges
<1>5. UNCHANGED vars => sess' = sess /\ stopped' = stopped
  BY DEF vars
<1> QED
  BY <1>1, <1>2, <1>3, <1>4, <1>5 DEF Next

(* The supervisor implements the device slot: an account never shows up as *)
(* two devices and never comes back after a shutdown.                      *)
THEOREM SlotImplemented ==
  ASSUME Stuck = {}
  PROVE  Spec => ImplementsDeviceSlot
<1>1. Init => Slot!Init
  BY DEF Init, Slot!Init, Holder, Running, Free
<1>2. ASSUME TimelyInv, TimelyInv', [Next]_vars
      PROVE  [Slot!Next]_<<Holder, stopped>>
  <2>1. CASE \E p \in Proc, s \in Sessions : Open(p, s)
    BY <2>1, <1>2, OpenOccupies DEF Slot!Next
  <2>2. CASE ~\E p \in Proc, s \in Sessions : Open(p, s)
    <3>1. /\ Running' \subseteq Running
          /\ stopped' # stopped => stopped' = TRUE /\ sess' = sess
      BY <1>2, <2>2, OtherSteps
    <3>2. CASE stopped' = stopped
      BY <1>2, <3>1, <3>2, HolderKept DEF Slot!Next, Slot!Vacate
    <3>3. CASE stopped' # stopped
      <4>1. Holder' = Holder
        BY <3>1, <3>3 DEF Holder, Running
      <4> QED  BY <3>1, <3>3, <4>1 DEF Slot!Next, Slot!Close
    <3> QED  BY <3>2, <3>3
  <2> QED  BY <2>1, <2>2
<1>3. TimelyInv /\ [Next]_vars => TimelyInv'
  BY NextTimelyInv
<1> QED
  BY InitTimelyInv, <1>1, <1>2, <1>3, PTL DEF Spec, ImplementsDeviceSlot, Slot!Spec
-----------------------------------------------------------------------------
(* The manager and the disconnect channel.                                 *)

InBusiness == ~parentDone /\ ~stopped

(* While the supervisor is neither stopped nor shutting down, a            *)
(* cancellation is always the manager's own doing, and it is in no channel *)
(* and no running session when the manager goes back to waiting.           *)
OwnCancel ==
  /\ \A s \in Sessions :
       result[s] = "canceled" \/ ready[s] = "canceled" => cancelled(s)
  /\ \A p \in Proc : pc[p] = "await" => ~cancel[tgt[p]] \/ stopped
  /\ fail["rm"] = "canceled" => ~InBusiness
  /\ pc["rm"] \in {"teardown", "tearwait"} => fail["rm"] # "none"
  /\ pc["main"] \in {"start", "await"} => ~stopped
  /\ pc["rm"] \in {"drop", "ping", "wait"} /\ InBusiness => \A s \in Running : ~cancel[s]
  /\ pc["rm"] \in {"ping", "wait"} /\ InBusiness => signal # "canceled"
  /\ pc["rm"] = "off" /\ pc["main"] \in {"start", "await"} => signal # "canceled"

ManagerInv == TimelyInv /\ OwnCancel /\ ManagerSurvives

LEMMA InitManagerInv == Init => ManagerInv
<1> SUFFICES ASSUME Init PROVE ManagerInv
  OBVIOUS
<1>1. OwnCancel /\ ManagerSurvives
  BY DEF Init, OwnCancel, ManagerSurvives, InBusiness, Running, Free, Proc
<1> QED
  BY <1>1, InitTimelyInv DEF ManagerInv

LEMMA SessionStepManager ==
  ASSUME ManagerInv, NEW s \in Sessions, SessionStep(s)
  PROVE  (OwnCancel /\ ManagerSurvives)'
<1> USE DEF ManagerInv, TimelyInv, SafeInv, TypeOK, Control, Ended, OwnCancel, ManagerSurvives,
        InBusiness, parentDone, cancelled, Running, Free, Stage, Proc, supvars, procvars
<1>1. CASE Rotate(s)            BY <1>1 DEF Rotate
<1>2. CASE DialFails(s)         BY <1>2 DEF DialFails
<1>3. CASE AuthFails(s)         BY <1>3 DEF AuthFails
<1>4. CASE AuthOk(s)            BY <1>4 DEF AuthOk
<1>5. CASE Dies(s)              BY <1>5 DEF Dies
<1>6. CASE Unwinds(s)           BY <1>6 DEF Unwinds
<1>7. CASE SignalDisconnect(s)  
  <2> USE <1>7 DEF SignalDisconnect
  <2>1. result[s] = "canceled" /\ ~parentDone => cancel[s]
    OBVIOUS
  <2>2. result[s] = "canceled" /\ pc["rm"] = "off" => pc["main"] \notin {"start", "await"}
    BY <2>1 DEF Owned, AtHand
  <2> QED  BY <2>1, <2>2
<1>8. CASE GapReturns(s)        BY <1>8 DEF GapReturns
<1>9. CASE Finish(s)            BY <1>9 DEF Finish, LateReport
<1> QED BY <1>1, <1>2, <1>3, <1>4, <1>5, <1>6, <1>7, <1>8, <1>9 DEF SessionStep

LEMMA SupervisorStepManager ==
  ASSUME Stuck = {}, MaxAttempts = 0, ManagerInv, NEW p \in Proc, SupervisorStep(p)
  PROVE  (OwnCancel /\ ManagerSurvives)'
<1> USE NoSessionAssumption
    DEF ManagerInv, TimelyInv, SafeInv, TypeOK, Control, OwnCancel, ManagerSurvives,
        InBusiness, parentDone, cancelled, Running, Free, Stage, Proc, MainAt, RmAt, AtStop,
        svars, supvars, procvars, GoTo
<1>1. ASSUME NEW s \in Sessions, Open(p, s) PROVE (OwnCancel /\ ManagerSurvives)'
  BY <1>1 DEF Open, Unused
<1>2. CASE AwaitOk(p)      BY <1>2 DEF AwaitOk, Owned, OneRunLoop, AtHand
<1>3. CASE AwaitFails(p)   BY <1>3 DEF AwaitFails
<1>4. CASE Teardown(p)     BY <1>4 DEF Teardown
<1>5. CASE StartFailed(p)
  <2>1. CASE p = "main"  BY <1>5, <2>1 DEF StartFailed
  <2>2. CASE p = "rm" /\ fail[p] # "error"
    <3>1. fail[p] \in {"canceled", "unauth"}
      BY <1>5, <2>2 DEF StartFailed
    <3>2. /\ pc' = [pc EXCEPT !["rm"] = "exited"]
          /\ stopped' = (stopped \/ fail[p] = "unauth")
          /\ fail' = [fail EXCEPT ![p] = "none"]
          /\ UNCHANGED <<svars, signal>>
      BY <1>5, <2>2 DEF StartFailed
    <3>3. ManagerSurvives'
      BY <3>1, <3>2, <2>2
    <3>4. stopped' \/ parentDone
      BY <3>1, <3>2, <2>2
    <3>5. pc'["rm"] = "exited" /\ pc'["main"] = pc["main"] /\ fail'["rm"] = "none"
      BY <3>2, <2>2
    <3>6. \A s \in Sessions : cancelled(s)' = cancelled(s)
      BY <3>2, <3>5
    <3>7. OwnCancel'
      <4>1. pc'["main"] \in {"start", "await"} => ~stopped'
        BY <1>5, <3>5, <2>2 DEF StartFailed
      <4> QED  BY <3>2, <3>4, <3>5, <3>6, <4>1, <2>2
    <3> QED  BY <3>3, <3>7
  <2>3. CASE p = "rm" /\ fail[p] = "error"  BY <1>5, <2>3 DEF StartFailed, AttemptFailed
  <2> QED  BY <2>1, <2>2, <2>3
<1>6. CASE StopCurrent(p)  BY <1>6 DEF StopCurrent, AfterStop
<1>7. CASE StopDone(p)     BY <1>7 DEF StopDone, AfterStop
<1>8. CASE StopGivesUp(p)  BY <1>8 DEF StopGivesUp
<1> QED BY <1>1, <1>2, <1>3, <1>4, <1>5, <1>6, <1>7, <1>8 DEF SupervisorStep

LEMMA ManagerStepManager ==
  ASSUME MaxAttempts = 0, ManagerInv, ManagerStep
  PROVE  (OwnCancel /\ ManagerSurvives)'
<1> USE DEF ManagerInv, TimelyInv, SafeInv, TypeOK, Control, OwnCancel, ManagerSurvives,
        InBusiness, parentDone, cancelled, Running, Proc, svars, supvars, procvars, GoTo
<1>1. CASE ObserveDisconnect    BY <1>1 DEF ObserveDisconnect
<1>2. CASE ContextDone          BY <1>2 DEF ContextDone
<1>3. CASE BackoffOver          BY <1>3 DEF BackoffOver
<1>4. CASE StartRefused         BY <1>4 DEF StartRefused
<1>5. CASE DropStaleDisconnect  BY <1>5 DEF DropStaleDisconnect
<1>6. CASE PingAnswered         BY <1>6 DEF PingAnswered
<1>7. CASE PingFails            BY <1>7 DEF PingFails, AttemptFailed
<1> QED BY <1>1, <1>2, <1>3, <1>4, <1>5, <1>6, <1>7 DEF ManagerStep

(* As long as sessions unwind within the grace period and attempts are     *)
(* unlimited, the reconnect manager only leaves its loop when the program  *)
(* shuts down or the authorization is gone: it never mistakes its own      *)
(* teardown for a shutdown.                                                *)
THEOREM ManagerNeverDies ==
  ASSUME Stuck = {}, MaxAttempts = 0
  PROVE  Spec => []ManagerSurvives
<1>1. ASSUME ManagerInv, [Next]_vars
      PROVE  ManagerInv'
  <2>1. TimelyInv'
    BY <1>1, NextTimelyInv DEF ManagerInv
  <2>2. (OwnCancel /\ ManagerSurvives)'
    <3> USE DEF ManagerInv, TimelyInv, SafeInv, TypeOK, Control, OwnCancel, ManagerSurvives,
            InBusiness, parentDone, cancelled, Running, Proc, svars, supvars, procvars, GoTo
    <3>1. CASE Quit             BY <1>1, <3>1 DEF Quit
    <3>2. CASE MarkStopped      BY <1>1, <3>2 DEF MarkStopped
    <3>3. CASE NetChanges       BY <1>1, <3>3 DEF NetChanges
    <3>4. CASE UNCHANGED vars   BY <1>1, <3>4 DEF vars
    <3> QED
      BY <1>1, <3>1, <3>2, <3>3, <3>4, SessionStepManager, SupervisorStepManager,
         ManagerStepManager DEF Next
  <2> QED  BY <2>1, <2>2 DEF ManagerInv
<1>2. ManagerInv => ManagerSurvives
  BY DEF ManagerInv
<1>3. ManagerInv /\ [Next]_vars => ManagerInv'
  BY <1>1
<1> QED
  BY InitManagerInv, <1>2, <1>3, PTL DEF Spec
-----------------------------------------------------------------------------
(* Disconnects are not lost.                                               *)

(* A handshake that came up belongs to a session past its dialing, and     *)
(* before the manager exists nobody empties the disconnect channel: what   *)
(* the first session has to report is still to come or is in the channel.  *)
Reports ==
  /\ \A s \in Sessions : ready[s] = "ok" => sess[s] \notin {"none", "spawned", "dialing"}
  /\ pc["rm"] = "off" /\ pc["main"] = "await" /\ sess[tgt["main"]] \in {"signalled", "gone"} =>
       signal # "empty"
  /\ pc["main"] = "await" => sess[tgt["main"]] # "none"

ReportInv == SafeInv /\ Reports /\ NoLostDisconnect

LEMMA InitReportInv == Init => ReportInv
<1> SUFFICES ASSUME Init PROVE ReportInv
  OBVIOUS
<1>1. Reports /\ NoLostDisconnect
  BY DEF Init, Reports, NoLostDisconnect, Proc
<1> QED
  BY <1>1, InitSafeInv DEF ReportInv

LEMMA SessionStepReport ==
  ASSUME ReportInv, NEW s \in Sessions, SessionStep(s)
  PROVE  (Reports /\ NoLostDisconnect)'
<1> USE DEF ReportInv, SafeInv, TypeOK, Control, Ended, Reports, NoLostDisconnect, Free, Stage, Proc,
        supvars, procvars
<1>1. CASE Rotate(s)            BY <1>1 DEF Rotate
<1>2. CASE DialFails(s)         BY <1>2 DEF DialFails
<1>3. CASE AuthFails(s)         BY <1>3 DEF AuthFails
<1>4. CASE AuthOk(s)            BY <1>4 DEF AuthOk
<1>5. CASE Dies(s)              BY <1>5 DEF Dies
<1>6. CASE Unwinds(s)           BY <1>6 DEF Unwinds
<1>7. CASE SignalDisconnect(s)  BY <1>7 DEF SignalDisconnect
<1>8. CASE GapReturns(s)        BY <1>8 DEF GapReturns
<1>9. CASE Finish(s)            BY <1>9 DEF Finish, LateReport
<1> QED BY <1>1, <1>2, <1>3, <1>4, <1>5, <1>6, <1>7, <1>8, <1>9 DEF SessionStep

LEMMA SupervisorStepReport ==
  ASSUME MaxAttempts = 0, ReportInv, NEW p \in Proc, SupervisorStep(p)
  PROVE  (Reports /\ NoLostDisconnect)'
<1> USE NoSessionAssumption
    DEF ReportInv, SafeInv, TypeOK, Control, Ended, Reports, NoLostDisconnect, Free, Stage, Proc,
        MainAt, RmAt, AtStop, svars, supvars, procvars, GoTo
<1>1. ASSUME NEW s \in Sessions, Open(p, s) PROVE (Reports /\ NoLostDisconnect)'
  BY <1>1 DEF Open, Unused
<1>2. CASE AwaitOk(p)      BY <1>2 DEF AwaitOk
<1>3. CASE AwaitFails(p)   BY <1>3 DEF AwaitFails
<1>4. CASE Teardown(p)     BY <1>4 DEF Teardown
<1>5. CASE StartFailed(p)  BY <1>5 DEF StartFailed, AttemptFailed
<1>6. CASE StopCurrent(p)  BY <1>6 DEF StopCurrent, AfterStop
<1>7. CASE StopDone(p)     BY <1>7 DEF StopDone, AfterStop
<1>8. CASE StopGivesUp(p)  BY <1>8 DEF StopGivesUp, AttemptFailed
<1> QED BY <1>1, <1>2, <1>3, <1>4, <1>5, <1>6, <1>7, <1>8 DEF SupervisorStep

LEMMA ManagerStepReport ==
  ASSUME MaxAttempts = 0, ReportInv, ManagerStep
  PROVE  (Reports /\ NoLostDisconnect)'
<1> USE DEF ReportInv, SafeInv, TypeOK, Control, Reports, NoLostDisconnect, Proc,
        svars, supvars, procvars, GoTo
<1>1. CASE ObserveDisconnect    BY <1>1 DEF ObserveDisconnect
<1>2. CASE ContextDone          BY <1>2 DEF ContextDone
<1>3. CASE BackoffOver          BY <1>3 DEF BackoffOver
<1>4. CASE StartRefused         BY <1>4 DEF StartRefused
<1>5. CASE DropStaleDisconnect  BY <1>5 DEF DropStaleDisconnect
<1>6. CASE PingAnswered         BY <1>6 DEF PingAnswered
<1>7. CASE PingFails            BY <1>7 DEF PingFails, AttemptFailed
<1> QED BY <1>1, <1>2, <1>3, <1>4, <1>5, <1>6, <1>7 DEF ManagerStep

(* With unlimited attempts the manager never waits for a disconnect that   *)
(* nobody will report, however long sessions take to unwind.               *)
THEOREM DisconnectsReachTheManager ==
  ASSUME MaxAttempts = 0
  PROVE  Spec => []NoLostDisconnect
<1>1. ASSUME ReportInv, [Next]_vars
      PROVE  ReportInv'
  <2>1. SafeInv'
    BY <1>1, NextSafeInv DEF ReportInv
  <2>2. (Reports /\ NoLostDisconnect)'
    <3> USE DEF ReportInv, SafeInv, TypeOK, Control, Reports, NoLostDisconnect, Proc,
            svars, supvars, procvars, GoTo
    <3>1. CASE Quit             BY <1>1, <3>1 DEF Quit
    <3>2. CASE MarkStopped      BY <1>1, <3>2 DEF MarkStopped
    <3>3. CASE NetChanges       BY <1>1, <3>3 DEF NetChanges
    <3>4. CASE UNCHANGED vars   BY <1>1, <3>4 DEF vars
    <3> QED
      BY <1>1, <3>1, <3>2, <3>3, <3>4, SessionStepReport, SupervisorStepReport,
         ManagerStepReport DEF Next
  <2> QED  BY <2>1, <2>2 DEF ReportInv
<1>2. ReportInv => NoLostDisconnect
  BY DEF ReportInv
<1>3. ReportInv /\ [Next]_vars => ReportInv'
  BY <1>1
<1> QED
  BY InitReportInv, <1>2, <1>3, PTL DEF Spec
-----------------------------------------------------------------------------
(* The indicator.  The two publishers agree once they are at rest because  *)
(* of three facts: the pump's latest word on a running session that is     *)
(* online is "online" (Fresh), the indicator of a waiting manager shows    *)
(* the manager's "online" or the pump's last word (Shown), and only one    *)
(* session reports at a time (OneRunLoop).                                 *)

(* The last thing the library reported that the pump has not swallowed.    *)
Latest == IF feed = "none" THEN pumpLast ELSE feed

Fresh == \A s \in Running : link[s] = "online" => Latest = "online"

(* What a waiting manager finds on the status bar.                         *)
Shown ==
  /\ pumpHeld \in {"none", pumpLast}
  /\ pc["rm"] = "wait" /\ pumpHeld = "none" => shown \in {"online", pumpLast}

FeedInv == TimelyInv /\ FeedTypeOK /\ Fresh /\ Shown

LEMMA InitFeedInv == FeedInit => FeedInv
<1> SUFFICES ASSUME FeedInit PROVE FeedInv
  OBVIOUS
<1>1. TimelyInv
  BY InitTimelyInv DEF FeedInit
<1>2. FeedTypeOK /\ Fresh /\ Shown
  BY DEF FeedInit, Init, FeedTypeOK, LinkState, Fresh, Shown, Running, Free, Proc
<1> QED
  BY <1>1, <1>2 DEF FeedInv

(* Sessions, supervisor and manager: a session that starts running has its *)
(* link reset, so no other link becomes online.                            *)
LEMMA SessionMovesFeed ==
  ASSUME Stuck = {}, MaxAttempts = 0, FeedInv, SessionMoves
  PROVE  FeedInv'
<1>1. TimelyInv'
  BY NextTimelyInv DEF FeedInv, SessionMoves
<1>2. FeedTypeOK'
  BY DEF FeedInv, FeedTypeOK, LinkState, SessionMoves
<1>3. \A s \in Running' : s \in Running \/ sess'[s] = "spawned"
  <2>1. CASE \E p \in Proc, t \in Sessions : Open(p, t)
    BY <2>1 DEF Open, Running, Free, FeedInv, TimelyInv, SafeInv, TypeOK
  <2>2. CASE ~\E p \in Proc, t \in Sessions : Open(p, t)
    BY <2>2, OtherSteps DEF FeedInv, SessionMoves
  <2> QED  BY <2>1, <2>2
<1>4. Fresh'
  <2> SUFFICES ASSUME NEW s \in Running', link'[s] = "online"
               PROVE  Latest' = "online"
    BY DEF Fresh
  <2>1. s \in Sessions /\ sess'[s] # "spawned" /\ link[s] = "online"
    BY DEF SessionMoves, Running
  <2> QED
    BY <1>3, <2>1 DEF SessionMoves, FeedInv, Fresh, Latest
<1>5. Shown'
  <2> USE DEF FeedInv, TimelyInv, SafeInv, TypeOK, FeedTypeOK, LinkState, Shown, SessionMoves,
          Proc, MainAt, RmAt, svars, supvars, procvars, GoTo
  <2>1. ASSUME NEW s \in Sessions, SessionStep(s) PROVE Shown'
    BY <2>1 DEF SessionStep, Rotate, DialFails, AuthFails, AuthOk, Dies, Unwinds,
       SignalDisconnect, GapReturns, Finish
  <2>2. ASSUME NEW p \in Proc, SupervisorStep(p) PROVE Shown'
    <3>1. ASSUME NEW s \in Sessions, Open(p, s) PROVE Shown'  BY <3>1 DEF Open
    <3>2. CASE AwaitOk(p)      BY <3>2 DEF AwaitOk
    <3>3. CASE AwaitFails(p)   BY <3>3 DEF AwaitFails
    <3>4. CASE Teardown(p)     BY <3>4 DEF Teardown
    <3>5. CASE StartFailed(p)  BY <3>5 DEF StartFailed, AttemptFailed, Control, AtStop
    <3>6. CASE StopCurrent(p)  BY <3>6 DEF StopCurrent, AfterStop
    <3>7. CASE StopDone(p)     BY <3>7 DEF StopDone, AfterStop
    <3>8. CASE StopGivesUp(p)  BY <3>8 DEF StopGivesUp
    <3> QED  BY <2>2, <3>1, <3>2, <3>3, <3>4, <3>5, <3>6, <3>7, <3>8 DEF SupervisorStep
  <2>3. CASE ObserveDisconnect    BY <2>3 DEF ObserveDisconnect
  <2>4. CASE ContextDone          BY <2>4 DEF ContextDone
  <2>5. CASE BackoffOver          BY <2>5 DEF BackoffOver
  <2>6. CASE StartRefused         BY <2>6 DEF StartRefused
  <2>7. CASE DropStaleDisconnect  BY <2>7 DEF DropStaleDisconnect
  <2>8. CASE PingAnswered         BY <2>8 DEF PingAnswered
  <2>9. CASE PingFails            BY <2>9 DEF PingFails, AttemptFailed
  <2>10. CASE Quit \/ MarkStopped \/ NetChanges
    BY <2>10 DEF Quit, MarkStopped, NetChanges
  <2> QED
    BY <2>1, <2>2, <2>3, <2>4, <2>5, <2>6, <2>7, <2>8, <2>9, <2>10 DEF Next, ManagerStep
<1> QED
  BY <1>1, <1>2, <1>4, <1>5 DEF FeedInv

(* A report comes from the only session there is.                          *)
LEMMA ReportFeed ==
  ASSUME Stuck = {}, FeedInv, NEW s \in Sessions, NEW state \in LinkState,
         OnConnectionState(s, state)
  PROVE  FeedInv'
<1>1. TimelyInv'
  <2>1. [Next]_vars
    BY DEF OnConnectionState
  <2> QED  BY <2>1, NextTimelyInv DEF FeedInv
<1>2. s \in Running
  BY DEF OnConnectionState, Running, Free
<1>3. Running' = Running
  BY DEF OnConnectionState, Running, vars, svars
<1>4. \A t \in Running' : t = s
  BY <1>2, <1>3 DEF FeedInv, TimelyInv, OneRunLoop
<1>5. Latest' = state
  BY DEF OnConnectionState, Latest, LinkState
<1>6. FeedTypeOK' /\ Fresh' /\ Shown'
  <2>1. FeedTypeOK' /\ Fresh'
    BY <1>4, <1>5 DEF OnConnectionState, FeedInv, FeedTypeOK, LinkState, Fresh
  <2>2. Shown'
    BY DEF OnConnectionState, FeedInv, Shown, vars, procvars
  <2> QED  BY <2>1, <2>2
<1> QED
  BY <1>1, <1>6 DEF FeedInv

LEMMA PumpFeed ==
  ASSUME Stuck = {}, FeedInv, PumpTake \/ PumpPublish
  PROVE  FeedInv'
<1>1. CASE PumpTake
  <2>1. TimelyInv'
    <3>1. [Next]_vars
      BY <1>1 DEF PumpTake
    <3> QED  BY <3>1, NextTimelyInv DEF FeedInv
  <2>2. Running' = Running /\ Latest' = Latest
    BY <1>1 DEF PumpTake, Running, Latest, vars, svars, FeedInv, FeedTypeOK, LinkState
  <2>3. FeedTypeOK' /\ Fresh' /\ Shown'
    BY <1>1, <2>2 DEF PumpTake, FeedInv, FeedTypeOK, Fresh, Shown, vars, procvars
  <2> QED  BY <2>1, <2>3 DEF FeedInv
<1>2. CASE PumpPublish
  <2>1. UNCHANGED <<svars, supvars, signal, procvars, attempt, netUp>>
    BY <1>2 DEF PumpPublish
  <2>2. SafeInv'
    BY <1>2, <2>1 DEF PumpPublish, FeedInv, FeedTypeOK, LinkState, TimelyInv, SafeInv, TypeOK,
       Control, Ended, NoOrphan, Running, svars, supvars, procvars
  <2>3. (Owned /\ OneRunLoop /\ GapJoined)'
    BY <2>1 DEF FeedInv, TimelyInv, Owned, OneRunLoop, GapJoined, Running, svars, supvars, procvars
  <2>4. FeedTypeOK' /\ Fresh' /\ Shown'
    BY <1>2, <2>1 DEF PumpPublish, FeedInv, FeedTypeOK, Fresh, Shown, Latest, Running,
       svars, procvars
  <2> QED  BY <2>2, <2>3, <2>4 DEF FeedInv, TimelyInv
<1> QED
  BY <1>1, <1>2

LEMMA NextFeedInv ==
  ASSUME Stuck = {}, MaxAttempts = 0, FeedInv, [FeedNext]_allvars
  PROVE  FeedInv'
<1>1. CASE UNCHANGED allvars
  <2>1. [Next]_vars
    BY <1>1 DEF allvars
  <2>2. TimelyInv'
    BY <2>1, NextTimelyInv DEF FeedInv
  <2> QED
    BY <1>1, <2>2 DEF allvars, feedvars, vars, svars, procvars, FeedInv, FeedTypeOK, Fresh,
       Shown, Latest, Running
<1> QED
  BY <1>1, SessionMovesFeed, ReportFeed, PumpFeed DEF FeedNext

(* With sessions that unwind in time and unlimited attempts, whatever the  *)
(* two publishers did and in whichever order: once they are at rest a      *)
(* working connection is shown as working.                                 *)
THEOREM IndicatorSettles ==
  ASSUME Stuck = {}, MaxAttempts = 0
  PROVE  FeedSpec => []FeedTruthful
<1>1. FeedInv => FeedTruthful
  <2> SUFFICES ASSUME FeedInv, Settled, link[cur] = "online" PROVE shown = "online"
    BY DEF FeedTruthful, FeedInv, NeverStuckOffline
  <2>1. cur \in Running
    BY DEF Settled, Running, Free
  <2>2. pumpLast = "online"
    BY <2>1 DEF FeedInv, Fresh, Latest, Settled
  <2> QED
    BY <2>2 DEF FeedInv, Shown, Settled
<1>2. FeedInv /\ [FeedNext]_allvars => FeedInv'
  BY NextFeedInv
<1> QED
  BY InitFeedInv, <1>1, <1>2, PTL DEF FeedSpec
=============================================================================
