----------------------------- MODULE OutboxProofs -----------------------------
(***************************************************************************)
(* Proofs about Outbox, for any set of sends and any retry limit.  The     *)
(* inductive invariant SendInv says, for each send, what its counters and  *)
(* its record can be at each point of deliver.                             *)
(***************************************************************************)
EXTENDS Outbox, TLAPS

Before == {"idle", "refused", "saved"}
Trying == {"token", "rpc", "flood"}
Ended == {"settle", "tell", "done"}

SendInv(m) ==
  /\ transient[m] <= MaxRetries + 1
  /\ copies[m] <= transient[m] + 1
  /\ pc[m] \in Before => transient[m] = 0 /\ copies[m] = 0
  /\ pc[m] \in Trying => transient[m] <= attempt[m] /\ copies[m] <= transient[m]
  /\ pc[m] = "backoff" =>
       /\ transient[m] <= attempt[m] + 1 /\ attempt[m] < MaxRetries
       /\ copies[m] <= transient[m]
  /\ pc[m] \in Before \cup Trying \cup {"backoff"} => verdict[m] = "none"
  /\ pc[m] \in Ended => verdict[m] # "none"
  /\ verdict[m] = "sent" => copies[m] >= 1
  /\ row[m] \in {"sent", "failed"} => row[m] = verdict[m]

IInv == TypeOK /\ \A m \in Sends : SendInv(m)

LEMMA InitIInv == Init => IInv
<1> SUFFICES ASSUME Init PROVE IInv
  OBVIOUS
<1>1. TypeOK
  <2>1. 0 \in 0 .. MaxRetries
    BY MaxRetriesAssumption
  <2>2. readOnly \in BOOLEAN
    BY DEF Init
  <2> QED
    BY <2>1, <2>2 DEF Init, TypeOK, Point
<1>2. ASSUME NEW m \in Sends PROVE SendInv(m)
  <2>1. /\ pc[m] = "idle" /\ verdict[m] = "none" /\ row[m] = "absent"
        /\ transient[m] = 0 /\ copies[m] = 0
    BY DEF Init
  <2> QED
    BY <2>1, MaxRetriesAssumption DEF SendInv, Before, Trying, Ended
<1> QED
  BY <1>1, <1>2 DEF IInv

(* The steps of one send keep its own part of the invariant and leave the  *)
(* others alone.                                                           *)
LEMMA SendStepKeepsIInv ==
  ASSUME IInv, NEW m \in Sends, SaveOutgoing(m) \/ Deliver(m) \/ ChatDeleted(m)
  PROVE  IInv'
<1> USE MaxRetriesAssumption DEF IInv, TypeOK, SendInv, Before, Trying, Ended,
         Point, At, GoTo, Ends
<1>1. CASE SaveOutgoing(m)
  BY <1>1 DEF SaveOutgoing
<1>2. CASE StartDeliver(m)
  BY <1>2 DEF StartDeliver
<1>3. CASE TokenGranted(m)
  BY <1>3 DEF TokenGranted
<1>4. CASE Accepted(m)
  BY <1>4 DEF Accepted
<1>5. CASE FloodWait(m)
  BY <1>5 DEF FloodWait
<1>6. CASE Invalid(m)
  BY <1>6 DEF Invalid
<1>7. CASE TransientError(m)
  BY <1>7 DEF TransientError
<1>8. CASE CallCancelled(m)
  BY <1>8 DEF CallCancelled
<1>9. CASE SleepOver(m)
  BY <1>9 DEF SleepOver
<1>10. CASE WaitCancelled(m)
  BY <1>10 DEF WaitCancelled
<1>11. CASE UpdateOutgoingState(m)
  BY <1>11 DEF UpdateOutgoingState
<1>12. CASE PublishVerdict(m)
  BY <1>12 DEF PublishVerdict
<1>13. CASE ChatDeleted(m)
  BY <1>13 DEF ChatDeleted
<1> QED
  BY <1>1, <1>2, <1>3, <1>4, <1>5, <1>6, <1>7, <1>8, <1>9, <1>10, <1>11,
     <1>12, <1>13 DEF Deliver, Answer

LEMMA NextIInv == IInv /\ [Next]_vars => IInv'
<1> SUFFICES ASSUME IInv, [Next]_vars PROVE IInv'
  OBVIOUS
<1>1. CASE \E m \in Sends : SaveOutgoing(m) \/ Deliver(m) \/ ChatDeleted(m)
  BY <1>1, SendStepKeepsIInv
<1>2. CASE StorageModeChanges \/ Quit \/ Reopen \/ UNCHANGED vars
  BY <1>2 DEF StorageModeChanges, Quit, Reopen, vars, IInv, TypeOK, SendInv
<1>3. CASE Exit
  BY <1>3 DEF Exit, IInv, TypeOK, SendInv, Before, Trying, Ended, Point
<1> QED
  BY <1>1, <1>2, <1>3 DEF Next

LEMMA SpecIInv == Spec => []IInv
  BY InitIInv, NextIInv, PTL DEF Spec

(* The variables of the outbox keep their types.                           *)
THEOREM OutboxTypeCorrect == Spec => []TypeOK
<1>1. IInv => TypeOK
  BY DEF IInv
<1> QED
  BY <1>1, SpecIInv, PTL

(* A message marked sent, in the table or on the screen, is on the server. *)
THEOREM SentIsDelivered == Spec => []SentWasDelivered
<1>1. IInv => SentWasDelivered
  BY DEF IInv, SendInv, SentWasDelivered, told
<1> QED
  BY <1>1, SpecIInv, PTL

(* Retries are bounded, and with them the copies a lost answer can cause.  *)
THEOREM RetriesAreBounded == Spec => []AttemptsBounded
<1>1. IInv => AttemptsBounded
  BY DEF IInv, SendInv, AttemptsBounded
<1> QED
  BY <1>1, SpecIInv, PTL

(* The stored record never disagrees with the verdict that was reported.   *)
THEOREM RecordAgrees == Spec => []RecordFinal
<1>1. IInv => RecordFinal
  BY DEF IInv, SendInv, RecordFinal
<1> QED
  BY <1>1, SpecIInv, PTL

(* No step of this process or a later one takes a settled record back.     *)
THEOREM RecordStays == Spec => RecordNeverReverts
<1> DEFINE Settled(m) == row[m] \in {"sent", "failed"}
<1>1. ASSUME IInv, [Next]_vars, NEW m \in Sends, Settled(m)
      PROVE  row'[m] \in {row[m], "absent"}
  <2>1. ASSUME NEW n \in Sends, SaveOutgoing(n) \/ UpdateOutgoingState(n) \/ ChatDeleted(n)
        PROVE  row'[m] \in {row[m], "absent"}
    <3>1. CASE SaveOutgoing(n)
      <4>1. pc[n] = "idle" => row[n] \notin {"sent", "failed"}
        BY <1>1 DEF IInv, TypeOK, SendInv, Before
      <4> QED  BY <1>1, <3>1, <4>1 DEF SaveOutgoing, At, IInv, TypeOK
    <3>2. CASE UpdateOutgoingState(n)
      BY <1>1, <3>2 DEF UpdateOutgoingState, IInv, TypeOK, SendInv
    <3>3. CASE ChatDeleted(n)
      BY <1>1, <3>3 DEF ChatDeleted, IInv, TypeOK
    <3> QED  BY <2>1, <3>1, <3>2, <3>3
  <2>2. ASSUME NEW n \in Sends, Deliver(n), ~UpdateOutgoingState(n)
        PROVE  row' = row
    BY <2>2 DEF Deliver, StartDeliver, TokenGranted, Answer, Accepted, Invalid, TransientError,
       FloodWait, CallCancelled, SleepOver, WaitCancelled, PublishVerdict
  <2>3. CASE StorageModeChanges \/ Quit \/ Exit \/ Reopen \/ UNCHANGED vars
    BY <2>3 DEF StorageModeChanges, Quit, Exit, Reopen, vars
  <2> QED
    BY <1>1, <2>1, <2>2, <2>3 DEF Next
<1>2. IInv /\ [Next]_vars =>
        [\A m \in Sends : Settled(m) => row'[m] \in {row[m], "absent"}]_vars
  BY <1>1
<1> QED
  BY SpecIInv, <1>2, PTL DEF Spec, RecordNeverReverts
-----------------------------------------------------------------------------
(* Every step of a send is a step of its life cycle, or is not visible in  *)
(* it.                                                                     *)
LEMMA SendStepOfLifecycle ==
  ASSUME IInv, NEW m \in Sends, SaveOutgoing(m) \/ Deliver(m) \/ ChatDeleted(m)
  PROVE  Lifecycle!Submit(m) \/ Lifecycle!Settle(m) \/ told' = told
<1> USE DEF IInv, TypeOK, Point, told, At, GoTo, Ends
<1>1. CASE StartDeliver(m)
  BY <1>1 DEF StartDeliver, Lifecycle!Submit
<1>2. CASE PublishVerdict(m)
  <2>1. verdict[m] \in {"sent", "failed"}
    BY <1>2 DEF PublishVerdict, SendInv, Ended
  <2>2. told[m] = "pending" /\ told' = [told EXCEPT ![m] = verdict[m]]
    BY <1>2 DEF PublishVerdict
  <2> QED
    BY <2>1, <2>2 DEF Lifecycle!Settle
<1>3. CASE SaveOutgoing(m)
  BY <1>3 DEF SaveOutgoing
<1>4. CASE ChatDeleted(m)
  BY <1>4 DEF ChatDeleted
<1>5. CASE TokenGranted(m) \/ FloodWait(m) \/ SleepOver(m) \/ UpdateOutgoingState(m)
  BY <1>5 DEF TokenGranted, FloodWait, SleepOver, UpdateOutgoingState
<1>6. CASE Answer(m)
  BY <1>6 DEF Answer, Accepted, Invalid, TransientError
<1>7. CASE CallCancelled(m) \/ WaitCancelled(m)
  BY <1>7 DEF CallCancelled, WaitCancelled
<1> QED
  BY <1>1, <1>2, <1>3, <1>4, <1>5, <1>6, <1>7 DEF Deliver

LEMMA StepOfLifecycle == IInv /\ [Next]_vars => [Lifecycle!Next]_told
<1> SUFFICES ASSUME IInv, [Next]_vars PROVE [Lifecycle!Next]_told
  OBVIOUS
<1>1. CASE \E m \in Sends : SaveOutgoing(m) \/ Deliver(m) \/ ChatDeleted(m)
  BY <1>1, SendStepOfLifecycle DEF Lifecycle!Next
<1>2. CASE StorageModeChanges \/ Quit \/ Reopen \/ UNCHANGED vars
  BY <1>2 DEF StorageModeChanges, Quit, Reopen, vars, told
<1>3. CASE Exit
  <2> DEFINE ended == {m \in Sends : pc[m] # "idle"}
  <2>1. told' = [m \in Sends |-> IF m \in ended THEN "lost" ELSE told[m]]
    BY <1>3 DEF Exit, told
  <2> QED
    BY <2>1 DEF Lifecycle!Next, Lifecycle!ProcessEnds
<1> QED
  BY <1>1, <1>2, <1>3 DEF Next

(* The service implements the life cycle the interface relies on: pending  *)
(* first, then one verdict, once.                                          *)
THEOREM LifecycleImplemented == Spec => ImplementsLifecycle
<1>1. Init => Lifecycle!Init
  BY DEF Init, Lifecycle!Init, told
<1> QED
  BY <1>1, SpecIInv, StepOfLifecycle, PTL DEF Spec, ImplementsLifecycle, Lifecycle!Spec
=============================================================================
