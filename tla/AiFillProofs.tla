---------------------------- MODULE AiFillProofs ----------------------------
(***************************************************************************)
(* Theorems about AiFill for every set of requests and every lease.        *)
(*                                                                         *)
(* The inductive invariant ties the row lock to its transaction and says   *)
(* what the second look at the store buys: a request that still owns the   *)
(* reservation after that look knows that nothing is stored, because only  *)
(* an owner stores, and storing ends its ownership.                        *)
(***************************************************************************)
EXTENDS AiFill, TLAPS

Looked == {"call", "find3", "lookup3", "fence"} \union Persist

LockHeld == /\ lock # NoRequest => lock \in Request /\ pc[lock] \in Persist
            /\ \A r \in Request : pc[r] \in Persist => lock = r /\ owner = r

OwnerSawNothing ==
  \A r \in Request : owner = r /\ pc[r] \in Looked => stored = NoRequest

Unanswered ==
  \A r \in Request : pc[r] \in Before \union Inside => answer[r] = NoAnswer

IInv == TypeOK /\ LockHeld /\ OwnerSawNothing /\ Unanswered /\ OneText

\* Initially nothing is reserved, stored or answered.
LEMMA InitIInv == Init => IInv
  BY RequestAssumption, TimeAssumption
  DEF Init, IInv, TypeOK, LockHeld, OwnerSawNothing, Unanswered, OneText,
      Place, Before, Inside, Persist, Ended, Looked, Answer, NoAnswer, Plain

\* A jump, a reply and a way on keep the program counters, answers and deadlines
\* in their types.
LEMMA GotoType ==
  ASSUME TypeOK, NEW r \in Request, NEW place \in Place, Goto(r, place)
  PROVE  pc' \in [Request -> Place]
  BY DEF TypeOK, Goto

LEMMA ReplyType ==
  ASSUME TypeOK, NEW r \in Request, NEW a \in Answer, Reply(r, a)
  PROVE  /\ pc' \in [Request -> Place]
         /\ answer' \in [Request -> Answer]
         /\ wait' \in [Request -> 0..Lease]
<1>1. wait' \in [Request -> 0..Lease]
  BY TimeAssumption DEF TypeOK, Reply
<1>2. "done" \in Place /\ "finally" \in Place
  BY DEF Place, Ended
<1> QED
  BY <1>1, <1>2 DEF TypeOK, Reply, Goto

LEMMA AnswerTypes ==
  /\ \A kind \in {"existing", "failed"} : Plain(kind) \in Answer
  /\ Failed \in Answer
  /\ TypeOK => StoredAnswer \in Answer
  /\ \A r \in Request : [kind |-> "openai", text |-> r] \in Answer
  BY DEF Plain, Failed, Answer, StoredAnswer, TypeOK

LEMMA PlaceTypes ==
  Before \union Inside \union {"finally", "release", "done", "crashed"} \subseteq Place
  BY DEF Place, Ended

\* Every step of a request, of its heartbeat, of the clock or of an editor
\* keeps every variable in its type.
LEMMA TypeStep == TypeOK /\ [Next]_vars => TypeOK'
<1> SUFFICES ASSUME TypeOK, [Next]_vars PROVE TypeOK'
  OBVIOUS
<1> USE RequestAssumption, TimeAssumption, AnswerTypes, PlaceTypes
<1> USE DEF row, beats
<1>1. CASE UNCHANGED vars
  BY <1>1 DEF vars, TypeOK
<1>2. ASSUME NEW r \in Request, Advance(r) PROVE TypeOK'
  <2>1. CASE FindExisting(r)
    <3>1. CASE Reply(r, Plain("existing"))
      BY <2>1, <3>1, ReplyType DEF FindExisting, TypeOK
    <3>2. CASE Continue(r, AfterFind[pc[r]])
      <4>1. AfterFind[pc[r]] \in Place
        BY <2>1 DEF FindExisting, AfterFind, Before, Inside
      <4> QED
        BY <2>1, <3>2, <4>1, GotoType DEF FindExisting, Continue, TypeOK
    <3> QED
      BY <2>1, <3>1, <3>2 DEF FindExisting
  <2>2. CASE FindStored(r)
    <3>1. CASE Reply(r, StoredAnswer)
      BY <2>2, <3>1, ReplyType DEF FindStored, TypeOK
    <3>2. CASE ~Reply(r, StoredAnswer)
      <4>1. AfterLookup[pc[r]] \in Place
        BY <2>2 DEF FindStored, AfterLookup, Before, Inside
      <4>2. wait' \in [Request -> 0..Lease]
        BY <2>2, <3>2 DEF FindStored, TypeOK
      <4> QED
        BY <2>2, <3>2, <4>1, <4>2, GotoType DEF FindStored, TypeOK
    <3> QED
      BY <3>1, <3>2
  <2>3. ASSUME Hold(r) PROVE /\ owner' \in Request \union {NoRequest}
                             /\ left' \in 0..Lease
                             /\ owned' \in [Request -> BOOLEAN]
                             /\ pc' \in [Request -> Place]
    BY <2>3, GotoType DEF Hold, TypeOK, Inside
  <2>4. CASE Reserve(r)
    BY <2>3, <2>4, GotoType DEF Reserve, TypeOK, Before
  <2>5. CASE TakeOver(r)
    BY <2>3, <2>5, GotoType DEF TakeOver, TypeOK, Before
  <2>6. CASE AcquireTimesOut(r)
    BY <2>6, ReplyType DEF AcquireTimesOut, TypeOK
  <2>7. CASE Poll(r)
    <3>1. CASE Reply(r, StoredAnswer) \/ Reply(r, Failed)
      BY <2>7, <3>1, ReplyType DEF Poll, TypeOK
    <3>2. CASE Continue(r, IF pc[r] = "poll" THEN "reserve" ELSE "await")
      BY <2>7, <3>2, GotoType DEF Poll, Continue, TypeOK, Before, Inside
    <3> QED
      BY <2>7, <3>1, <3>2 DEF Poll
  <2>8. CASE StartHeartbeat(r)
    BY <2>8, GotoType DEF StartHeartbeat, TypeOK, Inside
  <2>9. CASE CallProvider(r)
    BY <2>9, GotoType, ReplyType DEF CallProvider, Continue, TypeOK, Inside
  <2>10. ASSUME LoseOwnership(r) PROVE /\ lock' \in Request \union {NoRequest}
                                       /\ owned' \in [Request -> BOOLEAN]
                                       /\ pc' \in [Request -> Place]
    BY <2>10, GotoType DEF LoseOwnership, TypeOK, Inside
  <2>11. CASE Fence(r)
    BY <2>10, <2>11, GotoType DEF Fence, TypeOK, Inside, Persist
  <2>12. CASE InsertGeneration(r)
    <3>1. CASE Continue(r, "unreserve") /\ UNCHANGED lock
      BY <2>12, <3>1, GotoType DEF InsertGeneration, Continue, TypeOK, Inside, Persist
    <3>2. CASE Reply(r, StoredAnswer) /\ lock' = NoRequest
      BY <2>12, <3>2, ReplyType DEF InsertGeneration, TypeOK
    <3> QED
      BY <2>12, <3>1, <3>2 DEF InsertGeneration
  <2>13. CASE DeleteReservation(r)
    BY <2>10, <2>13, GotoType DEF DeleteReservation, TypeOK, Inside, Persist
  <2>14. CASE Commit(r)
    <3>1. owned' \in [Request -> BOOLEAN]
      BY <2>14 DEF Commit, TypeOK
    <3> QED
      BY <2>14, <3>1, ReplyType DEF Commit, TypeOK
  <2>15. CASE Finally(r)
    <3>1. pc' \in [Request -> Place]
      BY <2>15, GotoType DEF Finally, Ended
    <3> QED
      BY <2>15, <3>1 DEF Finally, TypeOK
  <2>16. CASE Release(r)
    <3>1. pc' \in [Request -> Place]
      BY <2>16, GotoType DEF Release
    <3>2. owned' \in [Request -> BOOLEAN]
      BY <2>16 DEF Release, TypeOK
    <3>3. owner' \in Request \union {NoRequest} /\ left' \in 0..Lease
      BY <2>16 DEF Release, TypeOK
    <3> QED
      BY <2>16, <3>1, <3>2, <3>3 DEF Release, TypeOK
  <2> QED
    BY <1>2, <2>1, <2>2, <2>4, <2>5, <2>6, <2>7, <2>8, <2>9, <2>11, <2>12, <2>13,
       <2>14, <2>15, <2>16 DEF Advance
<1>3. ASSUME NEW r \in Request, Heartbeat(r) PROVE TypeOK'
  BY <1>3 DEF Heartbeat, HeartbeatWakes, Renew, Beating, TypeOK
<1>4. ASSUME NEW r \in Request, Fault(r) PROVE TypeOK'
  <2>1. CASE DatabaseFails(r)
    BY <2>1, ReplyType DEF DatabaseFails, TypeOK
  <2>2. CASE ReleaseFails(r)
    BY <2>2, GotoType DEF ReleaseFails, TypeOK
  <2>3. CASE RenewFails(r)
    BY <2>3 DEF RenewFails, Beating, TypeOK
  <2>4. CASE Crash(r)
    BY <2>4, GotoType DEF Crash, Beating, TypeOK
  <2> QED
    BY <1>4, <2>1, <2>2, <2>3, <2>4 DEF Fault
<1>5. CASE Tick
  BY <1>5 DEF Tick, Down, TypeOK
<1>6. CASE EditVocabulary
  BY <1>6 DEF EditVocabulary, TypeOK
<1> QED
  BY <1>1, <1>2, <1>3, <1>4, <1>5, <1>6 DEF Next

\* Only the fence of the owner takes the row's lock, and no takeover, renewal or
\* release gets past it.
LEMMA LockStep ==
  ASSUME TypeOK, LockHeld, [Next]_vars
  PROVE  LockHeld'
<1> USE RequestAssumption DEF TypeOK, LockHeld, Persist, Goto, Reply, Continue, row, beats, Before, Inside, Ended
<1>1. CASE UNCHANGED vars
  BY <1>1 DEF vars
<1>2. ASSUME NEW r \in Request, Advance(r) PROVE LockHeld'
  <2>1. CASE FindExisting(r)
    BY <2>1 DEF FindExisting, AfterFind
  <2>2. CASE FindStored(r)
    BY <2>2 DEF FindStored, AfterLookup
  <2>3. CASE Reserve(r)
    BY <2>3 DEF Reserve, Hold
  <2>4. CASE TakeOver(r)
    BY <2>4 DEF TakeOver, Hold
  <2>5. CASE AcquireTimesOut(r)
    BY <2>5 DEF AcquireTimesOut
  <2>6. CASE Poll(r)
    BY <2>6 DEF Poll
  <2>7. CASE StartHeartbeat(r)
    BY <2>7 DEF StartHeartbeat
  <2>8. CASE CallProvider(r)
    BY <2>8 DEF CallProvider
  <2>9. CASE Fence(r)
    BY <2>9 DEF Fence, LoseOwnership
  <2>10. CASE InsertGeneration(r)
    BY <2>10 DEF InsertGeneration
  <2>11. CASE DeleteReservation(r)
    BY <2>11 DEF DeleteReservation, LoseOwnership
  <2>12. CASE Commit(r)
    BY <2>12 DEF Commit
  <2>13. CASE Finally(r)
    BY <2>13 DEF Finally
  <2>14. CASE Release(r)
    BY <2>14 DEF Release
  <2> QED
    BY <1>2, <2>1, <2>2, <2>3, <2>4, <2>5, <2>6, <2>7,
       <2>8, <2>9, <2>10, <2>11, <2>12, <2>13, <2>14 DEF Advance
<1>3. ASSUME NEW r \in Request, Heartbeat(r) PROVE LockHeld'
  BY <1>3 DEF Heartbeat, HeartbeatWakes, Renew, Beating
<1>4. ASSUME NEW r \in Request, Fault(r) PROVE LockHeld'
  <2>1. CASE DatabaseFails(r)
    BY <2>1 DEF DatabaseFails, Beating
  <2>2. CASE ReleaseFails(r)
    BY <2>2 DEF ReleaseFails, Beating
  <2>3. CASE RenewFails(r)
    BY <2>3 DEF RenewFails, Beating
  <2>4. CASE Crash(r)
    BY <2>4 DEF Crash, Beating
  <2> QED
    BY <1>4, <2>1, <2>2, <2>3, <2>4 DEF Fault
<1>5. CASE Tick \/ EditVocabulary
  BY <1>5 DEF Tick, EditVocabulary
<1> QED
  BY <1>1, <1>2, <1>3, <1>4, <1>5 DEF Next

\* Whoever stores stops being the owner, and whoever acquires looks again.
LEMMA OwnerStep ==
  ASSUME TypeOK, LockHeld, OwnerSawNothing, [Next]_vars
  PROVE  OwnerSawNothing'
<1> USE RequestAssumption DEF TypeOK, LockHeld, OwnerSawNothing, Looked, Persist, Goto, Reply, Continue, row,
    beats, Before, Inside, Ended
<1>1. CASE UNCHANGED vars
  BY <1>1 DEF vars
<1>2. ASSUME NEW r \in Request, Advance(r) PROVE OwnerSawNothing'
  <2>1. CASE FindExisting(r)
    BY <2>1 DEF FindExisting, AfterFind
  <2>2. CASE FindStored(r)
    BY <2>2 DEF FindStored, AfterLookup
  <2>3. CASE Reserve(r)
    BY <2>3 DEF Reserve, Hold
  <2>4. CASE TakeOver(r)
    BY <2>4 DEF TakeOver, Hold
  <2>5. CASE AcquireTimesOut(r)
    BY <2>5 DEF AcquireTimesOut
  <2>6. CASE Poll(r)
    BY <2>6 DEF Poll
  <2>7. CASE StartHeartbeat(r)
    BY <2>7 DEF StartHeartbeat
  <2>8. CASE CallProvider(r)
    BY <2>8 DEF CallProvider
  <2>9. CASE Fence(r)
    BY <2>9 DEF Fence, LoseOwnership
  <2>10. CASE InsertGeneration(r)
    BY <2>10 DEF InsertGeneration
  <2>11. CASE DeleteReservation(r)
    BY <2>11 DEF DeleteReservation, LoseOwnership
  <2>12. CASE Commit(r)
    BY <2>12 DEF Commit
  <2>13. CASE Finally(r)
    BY <2>13 DEF Finally
  <2>14. CASE Release(r)
    BY <2>14 DEF Release
  <2> QED
    BY <1>2, <2>1, <2>2, <2>3, <2>4, <2>5, <2>6, <2>7,
       <2>8, <2>9, <2>10, <2>11, <2>12, <2>13, <2>14 DEF Advance
<1>3. ASSUME NEW r \in Request, Heartbeat(r) PROVE OwnerSawNothing'
  BY <1>3 DEF Heartbeat, HeartbeatWakes, Renew, Beating
<1>4. ASSUME NEW r \in Request, Fault(r) PROVE OwnerSawNothing'
  <2>1. CASE DatabaseFails(r)
    BY <2>1 DEF DatabaseFails, Beating
  <2>2. CASE ReleaseFails(r)
    BY <2>2 DEF ReleaseFails, Beating
  <2>3. CASE RenewFails(r)
    BY <2>3 DEF RenewFails, Beating
  <2>4. CASE Crash(r)
    BY <2>4 DEF Crash, Beating
  <2> QED
    BY <1>4, <2>1, <2>2, <2>3, <2>4 DEF Fault
<1>5. CASE Tick \/ EditVocabulary
  BY <1>5 DEF Tick, EditVocabulary
<1> QED
  BY <1>1, <1>2, <1>3, <1>4, <1>5 DEF Next

\* A request that has an answer is past its last statement.
LEMMA UnansweredStep ==
  ASSUME TypeOK, Unanswered, [Next]_vars
  PROVE  Unanswered'
<1> USE RequestAssumption DEF TypeOK, Unanswered, Persist, Goto, Reply, Continue, row, beats, Before, Inside, Ended
<1>1. CASE UNCHANGED vars
  BY <1>1 DEF vars
<1>2. ASSUME NEW r \in Request, Advance(r) PROVE Unanswered'
  <2>1. CASE FindExisting(r)
    BY <2>1 DEF FindExisting, AfterFind
  <2>2. CASE FindStored(r)
    BY <2>2 DEF FindStored, AfterLookup
  <2>3. CASE Reserve(r)
    BY <2>3 DEF Reserve, Hold
  <2>4. CASE TakeOver(r)
    BY <2>4 DEF TakeOver, Hold
  <2>5. CASE AcquireTimesOut(r)
    BY <2>5 DEF AcquireTimesOut
  <2>6. CASE Poll(r)
    BY <2>6 DEF Poll
  <2>7. CASE StartHeartbeat(r)
    BY <2>7 DEF StartHeartbeat
  <2>8. CASE CallProvider(r)
    BY <2>8 DEF CallProvider
  <2>9. CASE Fence(r)
    BY <2>9 DEF Fence, LoseOwnership
  <2>10. CASE InsertGeneration(r)
    BY <2>10 DEF InsertGeneration
  <2>11. CASE DeleteReservation(r)
    BY <2>11 DEF DeleteReservation, LoseOwnership
  <2>12. CASE Commit(r)
    BY <2>12 DEF Commit
  <2>13. CASE Finally(r)
    BY <2>13 DEF Finally
  <2>14. CASE Release(r)
    BY <2>14 DEF Release
  <2> QED
    BY <1>2, <2>1, <2>2, <2>3, <2>4, <2>5, <2>6, <2>7,
       <2>8, <2>9, <2>10, <2>11, <2>12, <2>13, <2>14 DEF Advance
<1>3. ASSUME NEW r \in Request, Heartbeat(r) PROVE Unanswered'
  BY <1>3 DEF Heartbeat, HeartbeatWakes, Renew, Beating
<1>4. ASSUME NEW r \in Request, Fault(r) PROVE Unanswered'
  <2>1. CASE DatabaseFails(r)
    BY <2>1 DEF DatabaseFails, Beating
  <2>2. CASE ReleaseFails(r)
    BY <2>2 DEF ReleaseFails, Beating
  <2>3. CASE RenewFails(r)
    BY <2>3 DEF RenewFails, Beating
  <2>4. CASE Crash(r)
    BY <2>4 DEF Crash, Beating
  <2> QED
    BY <1>4, <2>1, <2>2, <2>3, <2>4 DEF Fault
<1>5. CASE Tick \/ EditVocabulary
  BY <1>5 DEF Tick, EditVocabulary
<1> QED
  BY <1>1, <1>2, <1>3, <1>4, <1>5 DEF Next

\* A text is answered from the store or by the commit that fills it, and a
\* stored text is never replaced.
LEMMA OneTextStep ==
  ASSUME TypeOK, LockHeld, OwnerSawNothing, OneText, [Next]_vars
  PROVE  OneText'
<1> USE RequestAssumption DEF TypeOK, LockHeld, OwnerSawNothing, OneText, Looked, Persist, Goto, Reply, Continue,
    StoredAnswer, Failed, Plain, Answer, row, beats, Before, Inside, Ended
<1>1. CASE UNCHANGED vars
  BY <1>1 DEF vars
<1>2. ASSUME NEW r \in Request, Advance(r) PROVE OneText'
  <2>1. CASE FindExisting(r)
    BY <2>1 DEF FindExisting, AfterFind
  <2>2. CASE FindStored(r)
    BY <2>2 DEF FindStored, AfterLookup
  <2>3. CASE Reserve(r)
    BY <2>3 DEF Reserve, Hold
  <2>4. CASE TakeOver(r)
    BY <2>4 DEF TakeOver, Hold
  <2>5. CASE AcquireTimesOut(r)
    BY <2>5 DEF AcquireTimesOut
  <2>6. CASE Poll(r)
    BY <2>6 DEF Poll
  <2>7. CASE StartHeartbeat(r)
    BY <2>7 DEF StartHeartbeat
  <2>8. CASE CallProvider(r)
    BY <2>8 DEF CallProvider
  <2>9. CASE Fence(r)
    BY <2>9 DEF Fence, LoseOwnership
  <2>10. CASE InsertGeneration(r)
    BY <2>10 DEF InsertGeneration
  <2>11. CASE DeleteReservation(r)
    BY <2>11 DEF DeleteReservation, LoseOwnership
  <2>12. CASE Commit(r)
    BY <2>12 DEF Commit
  <2>13. CASE Finally(r)
    BY <2>13 DEF Finally
  <2>14. CASE Release(r)
    BY <2>14 DEF Release
  <2> QED
    BY <1>2, <2>1, <2>2, <2>3, <2>4, <2>5, <2>6, <2>7,
       <2>8, <2>9, <2>10, <2>11, <2>12, <2>13, <2>14 DEF Advance
<1>3. ASSUME NEW r \in Request, Heartbeat(r) PROVE OneText'
  BY <1>3 DEF Heartbeat, HeartbeatWakes, Renew, Beating
<1>4. ASSUME NEW r \in Request, Fault(r) PROVE OneText'
  <2>1. CASE DatabaseFails(r)
    BY <2>1 DEF DatabaseFails, Beating
  <2>2. CASE ReleaseFails(r)
    BY <2>2 DEF ReleaseFails, Beating
  <2>3. CASE RenewFails(r)
    BY <2>3 DEF RenewFails, Beating
  <2>4. CASE Crash(r)
    BY <2>4 DEF Crash, Beating
  <2> QED
    BY <1>4, <2>1, <2>2, <2>3, <2>4 DEF Fault
<1>5. CASE Tick \/ EditVocabulary
  BY <1>5 DEF Tick, EditVocabulary
<1> QED
  BY <1>1, <1>2, <1>3, <1>4, <1>5 DEF Next

\* The invariant holds in every reachable state.
LEMMA Inductive == Spec => []IInv
<1>1. IInv /\ [Next]_vars => IInv'
  BY TypeStep, LockStep, OwnerStep, UnansweredStep, OneTextStep DEF IInv
<1> QED
  BY InitIInv, <1>1, PTL DEF Spec

\* Type correctness of the whole protocol.
THEOREM TypeCorrect == Spec => []TypeOK
<1>1. IInv => TypeOK
  BY DEF IInv
<1> QED
  BY Inductive, <1>1, PTL

\* Inside the persist transaction a request is alone, owns the reservation and
\* finds no generation, whatever expired or crashed before.
THEOREM FencedAlone == Spec => []FencedOwnerIsAlone
<1>1. IInv => FencedOwnerIsAlone
  BY DEF IInv, LockHeld, OwnerSawNothing, FencedOwnerIsAlone, Looked
<1> QED
  BY Inductive, <1>1, PTL

\* All callers that get a generated text get the same one.
THEOREM SameText == Spec => []OneText
<1>1. IInv => OneText
  BY DEF IInv
<1> QED
  BY Inductive, <1>1, PTL

\* One step of the protocol is one step of the write-once store, or none: a
\* reply from the store, a reply without it, or the commit.
LEMMA StoreStep ==
  ASSUME IInv, [Next]_vars
  PROVE  [Store!Next]_(Store!vars)
<1> USE RequestAssumption DEF Store!vars
<1>1. CASE UNCHANGED vars
  BY <1>1 DEF vars
<1>2. ASSUME NEW r \in Request, answer[r] = NoAnswer, Reply(r, Plain("existing")) \/ Reply(r, Failed),
             UNCHANGED stored
      PROVE  Store!Next
  BY <1>2 DEF Store!Next, Store!Decline, Store!Reply, Store!Plain, Store!NoAnswer,
     Reply, Failed, Plain, NoAnswer
<1>3. ASSUME NEW r \in Request, answer[r] = NoAnswer, Reply(r, StoredAnswer),
             stored # NoRequest, UNCHANGED stored
      PROVE  Store!Next
  BY <1>3 DEF Store!Next, Store!Reuse, Store!Reply, Store!Plain, Store!NoAnswer,
     Reply, StoredAnswer, Plain, NoAnswer
<1>4. ASSUME NEW r \in Request, pc[r] \in Before \union Inside PROVE answer[r] = NoAnswer
  BY <1>4 DEF IInv, Unanswered
<1>5. ASSUME NEW r \in Request, Advance(r) PROVE Store!Next \/ UNCHANGED Store!vars
  <2> USE <1>4 DEF Before, Inside, Persist
  <2>1. CASE FindExisting(r)
    BY <2>1, <1>2 DEF FindExisting, AfterFind, Continue
  <2>2. CASE FindStored(r)
    BY <2>2, <1>3 DEF FindStored, AfterLookup
  <2>3. CASE Reserve(r) \/ TakeOver(r) \/ StartHeartbeat(r) \/ Finally(r) \/ Release(r)
    BY <2>3 DEF Reserve, TakeOver, StartHeartbeat, Finally, Release
  <2>4. CASE AcquireTimesOut(r)
    BY <2>4, <1>2 DEF AcquireTimesOut
  <2>5. CASE Poll(r)
    BY <2>5, <1>2, <1>3 DEF Poll, Continue
  <2>6. CASE CallProvider(r)
    BY <2>6, <1>2 DEF CallProvider, Continue
  <2>7. CASE Fence(r) \/ DeleteReservation(r)
    BY <2>7 DEF Fence, DeleteReservation
  <2>8. CASE InsertGeneration(r)
    BY <2>8, <1>3 DEF InsertGeneration, Continue
  <2>9. CASE Commit(r)
    <3>1. stored = NoRequest /\ answer[r] = NoAnswer
      BY <2>9 DEF IInv, LockHeld, OwnerSawNothing, Looked, Commit
    <3> QED
      BY <2>9, <3>1 DEF Commit, Reply, Store!Next, Store!Generate, Store!Reply,
         Store!NoAnswer, Store!Plain, NoAnswer, Plain
  <2> QED
    BY <1>5, <2>1, <2>2, <2>3, <2>4, <2>5, <2>6, <2>7, <2>8, <2>9 DEF Advance
<1>6. ASSUME NEW r \in Request, Fault(r) PROVE Store!Next \/ UNCHANGED Store!vars
  <2>1. CASE DatabaseFails(r)
    BY <2>1, <1>2, <1>4 DEF DatabaseFails
  <2> QED
    BY <1>6, <2>1 DEF Fault, ReleaseFails, RenewFails, Crash
<1>7. CASE Tick \/ EditVocabulary \/ \E r \in Request : Heartbeat(r)
  BY <1>7 DEF Tick, EditVocabulary, Heartbeat, HeartbeatWakes, Renew
<1> QED
  BY <1>1, <1>5, <1>6, <1>7 DEF Next

\* The protocol implements the write-once store.
THEOREM Refinement == Spec => ImplementsStore
<1>1. Init => Store!Init
  BY DEF Init, Store!Init, NoAnswer, Plain, Store!NoAnswer, Store!Plain
<1> QED
  BY <1>1, Inductive, StoreStep, PTL DEF Spec, ImplementsStore, Store!Spec

-----------------------------------------------------------------------------
(* Prompt threads.                                                         *)

Working == Inside \ {"acquired", "await"}

\* A lease outlasts the renewals that may fail, and the one that must not.
LeaseOutlasts == Lease > 2 * (MaxMissed + 1) * Beat

\* What a request has of its lease, it has lost to its own heartbeat's timers.
Spent(r) == 2 * missed[r] * Beat + (IF heart[r] = "renewing" THEN Beat ELSE 0) + Beat - timer[r]

Kept == \A r \in Request : pc[r] \in Inside => pc[r] # "await" /\ owner = r

Beaten == \A r \in Request :
            /\ pc[r] \in Before \union {"acquired"} => heart[r] = "off" /\ missed[r] = 0
            /\ pc[r] \in Working => heart[r] # "off"

Paid == \A r \in Request : /\ pc[r] = "acquired" => left = Lease
                           /\ pc[r] \in Working => left + Spent(r) >= Lease

PInv == Kept /\ Beaten /\ Paid

\* While the renewals that may fail are too few for it, a lease never runs out
\* under a request that is at work.
LEMMA LeaseLeft ==
  ASSUME TypeOK, Paid, LeaseOutlasts, NEW r \in Request, pc[r] \in Working
  PROVE  left > 0
<1>1. /\ missed[r] \in Nat /\ missed[r] <= MaxMissed /\ timer[r] \in Nat
      /\ left \in Nat /\ left + Spent(r) >= Lease
  BY TimeAssumption DEF TypeOK, Paid
<1>2. \A a, b, c \in Nat : a <= b => a * c <= b * c
  OBVIOUS
<1>3. missed[r] * Beat <= MaxMissed * Beat
  BY <1>1, <1>2, TimeAssumption
<1>4. 2 * missed[r] * Beat = 2 * (missed[r] * Beat)
      /\ 2 * (MaxMissed + 1) * Beat = 2 * (MaxMissed * Beat) + 2 * Beat
      /\ missed[r] * Beat \in Nat /\ MaxMissed * Beat \in Nat
  BY <1>1, TimeAssumption
<1> DEFINE m == missed[r] * Beat
           all == MaxMissed * Beat
<1>5. Spent(r) <= 2 * m + 2 * Beat /\ Spent(r) \in Int
  BY <1>1, <1>4, TimeAssumption DEF Spent
<1>6. Lease > 2 * all + 2 * Beat /\ m <= all /\ m \in Nat /\ all \in Nat
  BY <1>3, <1>4 DEF LeaseOutlasts
<1> HIDE DEF m, all
<1> QED
  BY <1>1, <1>5, <1>6, TimeAssumption

LEMMA InitPInv == Init => PInv
  BY DEF Init, PInv, Kept, Beaten, Paid, Before, Inside, Persist, Working

\* Renewals, and renewals that fail, leave what a request is owed of its lease.
LEMMA RenewPays ==
  ASSUME TypeOK, PInv, NEW r \in Request, Heartbeat(r) \/ RenewFails(r)
  PROVE  PInv'
<1> DEFINE At == /\ pc' = pc /\ owner' = owner /\ DOMAIN heart = Request
                 /\ DOMAIN timer = Request /\ DOMAIN missed = Request
<1>1. At /\ left \in 0..Lease /\ timer[r] \in 0..Beat /\ missed[r] \in Nat
  BY TimeAssumption DEF TypeOK, Heartbeat, HeartbeatWakes, Renew, RenewFails, row
<1>2. \A s \in Request \ {r} : /\ heart'[s] = heart[s] /\ timer'[s] = timer[s]
                               /\ missed'[s] = missed[s] /\ Spent(s)' = Spent(s)
  BY <1>1 DEF Heartbeat, HeartbeatWakes, Renew, RenewFails, Beating, Spent
<1>3. Kept'
  BY <1>1 DEF PInv, Kept
<1>4. heart[r] # "off" /\ pc[r] \notin Before \union {"acquired"}
  BY DEF Heartbeat, HeartbeatWakes, Renew, RenewFails, PInv, Beaten
<1>5. Beaten'
  <2>1. pc[r] \in Working => heart'[r] # "off"
    <3> SUFFICES ASSUME pc[r] \in Working PROVE heart'[r] # "off"
      OBVIOUS
    <3>1. ~Stopping(r) /\ owner = r
      BY DEF Stopping, Working, Inside, Persist, PInv, Kept
    <3> QED
      BY <1>1, <3>1 DEF Heartbeat, HeartbeatWakes, Renew, RenewFails, Beating
  <2> QED
    BY <1>1, <1>2, <1>4, <2>1 DEF PInv, Beaten
<1>6. Paid'
  <2>1. left' = left \/ (left' = Lease /\ owner = r)
    BY DEF Heartbeat, HeartbeatWakes, Renew, RenewFails, row
  <2>2. ASSUME NEW s \in Request \ {r}, pc[s] \in Inside PROVE left' = left
    <3>1. owner = s
      BY <2>2 DEF PInv, Kept
    <3> QED
      BY <2>1, <3>1
  <2>3. pc[r] \in Working => left' + Spent(r)' >= Lease
    <3> SUFFICES ASSUME pc[r] \in Working PROVE left' + Spent(r)' >= Lease
      OBVIOUS
    <3>1. left + Spent(r) >= Lease /\ ~Stopping(r) /\ owner = r
      BY DEF PInv, Paid, Kept, Working, Inside, Persist, Stopping
    <3> DEFINE m == missed[r] * Beat
    <3>2. m \in Nat /\ 2 * missed[r] * Beat = 2 * m
          /\ 2 * (missed[r] + 1) * Beat = 2 * m + 2 * Beat /\ 2 * 0 * Beat = 0
      BY <1>1, TimeAssumption
    <3>3. Spent(r) = 2 * m + (IF heart[r] = "renewing" THEN Beat ELSE 0) + Beat - timer[r]
      BY <3>2 DEF Spent
    <3> HIDE DEF m
    <3>4. CASE HeartbeatWakes(r)
      <4>1. /\ heart[r] = "waiting" /\ timer[r] = 0 /\ heart'[r] = "renewing"
            /\ timer'[r] = Beat /\ missed'[r] = missed[r] /\ left' = left
        BY <1>1, <3>1, <3>4 DEF HeartbeatWakes, Beating, row
      <4>2. Spent(r)' = 2 * m + Beat + Beat - Beat
        BY <3>2, <4>1 DEF Spent
      <4> QED
        BY <1>1, <3>1, <3>2, <3>3, <4>1, <4>2, TimeAssumption
    <3>5. CASE Renew(r)
      <4>1. left' = Lease /\ heart'[r] = "waiting" /\ timer'[r] = Beat /\ missed'[r] = 0
        BY <1>1, <3>1, <3>5 DEF Renew, Beating
      <4>2. Spent(r)' = 0
        BY <3>2, <4>1, TimeAssumption DEF Spent
      <4> QED
        BY <4>1, <4>2, TimeAssumption
    <3>6. CASE RenewFails(r)
      <4>1. /\ heart[r] = "renewing" /\ heart'[r] = "waiting" /\ timer'[r] = Beat
            /\ missed'[r] = missed[r] + 1 /\ left' = left
        BY <1>1, <3>6 DEF RenewFails, Beating, row
      <4>2. Spent(r)' = 2 * m + 2 * Beat + 0 + Beat - Beat
        BY <3>2, <4>1 DEF Spent
      <4> QED
        BY <1>1, <3>1, <3>2, <3>3, <4>1, <4>2, TimeAssumption
    <3> QED
      BY <3>4, <3>5, <3>6 DEF Heartbeat
  <2> QED
    BY <1>1, <1>2, <1>4, <2>2, <2>3 DEF PInv, Paid, Working, Inside
<1> QED
  BY <1>3, <1>5, <1>6 DEF PInv

\* Prompt threads: a tick takes as much from a timer as from the lease.
LEMMA TickPays ==
  ASSUME TypeOK, PInv, LeaseOutlasts, Prompt, Tick
  PROVE  PInv'
<1>1. UNCHANGED <<pc, owner, heart, missed>> /\ left' = Down(left) /\ left \in Nat
  BY TimeAssumption DEF Tick, TypeOK
<1>2. Kept' /\ Beaten'
  BY <1>1 DEF PInv, Kept, Beaten
<1>3. \A r \in Request : pc[r] # "acquired"
  BY DEF Prompt
<1>4. ASSUME NEW r \in Request, pc[r] \in Working PROVE left' + Spent(r)' >= Lease
  <2>1. timer[r] > 0 /\ timer[r] \in Nat /\ missed[r] \in Nat /\ left + Spent(r) >= Lease
    BY <1>4, TimeAssumption DEF TypeOK, Prompt, PInv, Beaten, Paid
  <2>2. timer'[r] = timer[r] - 1
    BY <2>1 DEF Tick, Down
  <2>3. left' = left - 1
    BY <1>1, <1>4, LeaseLeft DEF Down, PInv
  <2> DEFINE m == 2 * missed[r] * Beat
  <2>4. m \in Int
    BY <2>1, TimeAssumption
  <2>5. /\ Spent(r) = m + (IF heart[r] = "renewing" THEN Beat ELSE 0) + Beat - timer[r]
        /\ Spent(r)' = m + (IF heart[r] = "renewing" THEN Beat ELSE 0) + Beat - (timer[r] - 1)
    BY <1>1, <2>2 DEF Spent
  <2> HIDE DEF m
  <2> QED
    BY <1>1, <2>1, <2>3, <2>4, <2>5, TimeAssumption
<1> QED
  BY <1>1, <1>2, <1>3, <1>4 DEF PInv, Paid

\* A request that moves leaves the others' leases alone.
LEMMA Elsewhere ==
  ASSUME TypeOK, PInv, NEW r \in Request,
         UNCHANGED <<row, beats>>, \A s \in Request \ {r} : pc'[s] = pc[s],
         pc'[r] \in Inside => pc'[r] \notin {"acquired", "await"} /\ pc[r] \in Working,
         pc'[r] \in Before => pc[r] \in Before
  PROVE  PInv'
<1>1. Working \subseteq Inside
  BY DEF Working
<1>2. \A s \in Request : Spent(s)' = Spent(s)
  BY DEF Spent, beats
<1>3. "acquired" \in Inside
  BY DEF Inside
<1> QED
  BY <1>1, <1>2, <1>3 DEF PInv, Kept, Beaten, Paid, row, beats, Working

LEMMA AdvancePays ==
  ASSUME IInv, PInv, LeaseOutlasts, NEW r \in Request, Advance(r)
  PROVE  PInv'
<1> USE DEF Goto, Reply, Continue, row, beats
<1>1. TypeOK
  BY DEF IInv
<1>2. /\ DOMAIN pc = Request /\ DOMAIN owned = Request /\ DOMAIN heart = Request
      /\ DOMAIN timer = Request
  BY <1>1 DEF TypeOK
<1>3. pc[r] \in Inside => owner = r /\ pc[r] # "await"
  BY DEF PInv, Kept
<1>4. \A p : p \in Working <=> p \in Inside /\ p # "acquired" /\ p # "await"
  BY DEF Working
<1>5. Persist \subseteq Inside /\ {"done", "finally", "release"} \cap Inside = {}
      /\ {"done", "finally", "release"} \cap Before = {} /\ Before \cap Inside = {}
  BY DEF Persist, Inside, Before
<1>6. CASE FindExisting(r)
  <2>1. /\ pc[r] \in {"find1", "find2", "find3"} /\ UNCHANGED <<row, beats>>
        /\ pc' = [pc EXCEPT ![r] = AfterFind[pc[r]]]
           \/ pc' = [pc EXCEPT ![r] = IF pc[r] \in Before THEN "done" ELSE "finally"]
    BY <1>6 DEF FindExisting, AfterFind
  <2>2. pc'[r] \in {"done", "finally", AfterFind[pc[r]]}
        /\ \A s \in Request \ {r} : pc'[s] = pc[s]
    BY <1>2, <2>1
  <2> QED
    BY <1>1, <1>5, <2>1, <2>2, Elsewhere DEF AfterFind, Before, Inside, Working
<1>7. CASE FindStored(r)
  <2>1. /\ pc[r] \in {"lookup1", "lookup2", "lookup3"} /\ UNCHANGED <<row, beats>>
        /\ pc' = [pc EXCEPT ![r] = AfterLookup[pc[r]]]
           \/ pc' = [pc EXCEPT ![r] = IF pc[r] \in Before THEN "done" ELSE "finally"]
    BY <1>7 DEF FindStored, AfterLookup
  <2>2. pc'[r] \in {"done", "finally", AfterLookup[pc[r]]}
        /\ \A s \in Request \ {r} : pc'[s] = pc[s]
    BY <1>2, <2>1
  <2> QED
    BY <1>1, <1>5, <2>1, <2>2, Elsewhere DEF AfterLookup, Before, Inside, Working
<1>8. ASSUME Hold(r), UNCHANGED beats, pc[r] \in Before, owner = NoRequest \/ left = 0
      PROVE  PInv'
  <2>1. /\ owner' = r /\ left' = Lease /\ pc'[r] = "acquired"
        /\ \A s \in Request \ {r} : pc'[s] = pc[s]
    BY <1>2, <1>8 DEF Hold
  <2>2. ASSUME NEW s \in Request \ {r}, pc[s] \in Inside PROVE FALSE
    <3>1. owner = s /\ pc[s] # "await"
      BY <2>2 DEF PInv, Kept
    <3>2. owner # NoRequest /\ left = 0
      BY <1>8, <3>1, RequestAssumption
    <3>3. pc[s] # "acquired"
      BY <3>2, TimeAssumption DEF PInv, Paid
    <3>4. left > 0
      BY <1>1, <1>4, <2>2, <3>1, <3>3, LeaseLeft DEF PInv
    <3> QED
      BY <3>2, <3>4
  <2>3. heart'[r] = "off" /\ missed'[r] = 0
    BY <1>8 DEF PInv, Beaten
  <2>4. "acquired" \in Inside /\ "acquired" \notin Working
    BY DEF Inside, Working
  <2> QED
    BY <1>2, <1>4, <1>8, <2>1, <2>2, <2>3, <2>4 DEF PInv, Kept, Beaten, Paid
<1>9. CASE Reserve(r)
  <2>1. CASE Hold(r) /\ owner = NoRequest
    BY <1>8, <1>9, <2>1 DEF Reserve, Before
  <2>2. CASE ~(Hold(r) /\ owner = NoRequest)
    BY <1>1, <1>2, <1>9, <2>2, Elsewhere DEF Reserve, Before, Inside, Persist
  <2> QED
    BY <2>1, <2>2
<1>10. CASE TakeOver(r)
  <2>1. CASE Hold(r) /\ left = 0
    BY <1>8, <1>10, <2>1 DEF TakeOver, Before
  <2>2. CASE ~(Hold(r) /\ left = 0)
    BY <1>1, <1>2, <1>10, <2>2, Elsewhere DEF TakeOver, Before, Inside, Persist
  <2> QED
    BY <2>1, <2>2
<1>11. CASE AcquireTimesOut(r)
  BY <1>1, <1>2, <1>11, Elsewhere DEF AcquireTimesOut, Before, Inside, Persist
<1>12. CASE Poll(r)
  <2>1. pc[r] = "poll"
    BY <1>3, <1>12 DEF Poll, Inside
  <2> QED
    BY <1>1, <1>2, <1>12, <2>1, Elsewhere DEF Poll, Before, Inside, Persist
<1>13. CASE StartHeartbeat(r)
  <2>1. /\ pc[r] = "acquired" /\ pc'[r] = "find2" /\ heart'[r] = "waiting"
        /\ timer'[r] = Beat /\ UNCHANGED <<row, missed>>
        /\ \A s \in Request \ {r} : /\ pc'[s] = pc[s] /\ heart'[s] = heart[s]
                                    /\ timer'[s] = timer[s]
    BY <1>2, <1>13 DEF StartHeartbeat
  <2>2. missed[r] = 0 /\ left = Lease
    BY <2>1 DEF PInv, Beaten, Paid
  <2>3. Spent(r)' = 0 /\ \A s \in Request \ {r} : Spent(s)' = Spent(s)
    BY <2>1, <2>2, TimeAssumption DEF Spent
  <2>4. "acquired" \in Inside /\ "find2" \in Working /\ "find2" \notin Before
    BY DEF Inside, Working, Before
  <2>5. left' = left /\ owner' = owner /\ left + 0 >= Lease
    BY <2>1, <2>2, TimeAssumption
  <2> QED
    BY <1>4, <2>1, <2>2, <2>3, <2>4, <2>5 DEF PInv, Kept, Beaten, Paid
<1>14. CASE CallProvider(r)
  BY <1>1, <1>2, <1>14, Elsewhere DEF CallProvider, Before, Inside, Persist, Working
<1>15. CASE Fence(r)
  <2>1. owner = r
    BY <1>3, <1>15 DEF Fence, Inside
  <2> QED
    BY <1>1, <1>2, <1>15, <2>1, Elsewhere DEF Fence, Before, Inside, Persist, Working
<1>16. CASE InsertGeneration(r)
  <2>1. /\ pc[r] = "insert" /\ UNCHANGED <<row, beats>>
        /\ pc' = [pc EXCEPT ![r] = "unreserve"] \/ pc' = [pc EXCEPT ![r] = "finally"]
    BY <1>5, <1>16 DEF InsertGeneration, Persist
  <2>2. pc'[r] \in {"unreserve", "finally"} /\ \A s \in Request \ {r} : pc'[s] = pc[s]
    BY <1>2, <2>1
  <2> QED
    BY <1>1, <1>5, <2>1, <2>2, Elsewhere DEF Before, Inside, Persist, Working
<1>17. CASE DeleteReservation(r)
  <2>1. owner = r
    BY <1>3, <1>17 DEF DeleteReservation, Inside, Persist
  <2> QED
    BY <1>1, <1>2, <1>17, <2>1, Elsewhere DEF DeleteReservation, Before, Inside, Persist, Working
<1>18. CASE Commit(r) \/ Release(r)
  <2>1. /\ pc'[r] \in {"finally", "done"} /\ UNCHANGED beats
        /\ \A s \in Request \ {r} : pc'[s] = pc[s]
    BY <1>2, <1>18 DEF Commit, Release, Before
  <2>2. ASSUME NEW s \in Request \ {r}, pc[s] \in Inside PROVE UNCHANGED row
    <3>1. owner = s
      BY <2>2 DEF PInv, Kept
    <3>2. ~Commit(r)
      BY <1>3, <3>1 DEF Commit, Inside, Persist
    <3> QED
      BY <1>18, <3>1, <3>2 DEF Release
  <2>3. \A s \in Request : Spent(s)' = Spent(s)
    BY <2>1 DEF Spent
  <2>4. "acquired" \in Inside /\ "acquired" # "finally" /\ "acquired" # "done"
    BY DEF Inside
  <2> QED
    BY <1>4, <1>5, <2>1, <2>2, <2>3, <2>4 DEF PInv, Kept, Beaten, Paid
<1>19. CASE Finally(r)
  BY <1>1, <1>2, <1>19, Elsewhere DEF Finally, Before, Inside, Persist
<1> QED
  BY <1>6, <1>7, <1>9, <1>10, <1>11, <1>12, <1>13, <1>14, <1>15, <1>16, <1>17, <1>18, <1>19
     DEF Advance

LEMMA FaultPays ==
  ASSUME TypeOK, PInv, NEW r \in Request, Fault(r)
  PROVE  PInv'
<1> USE DEF Goto, Reply, row, beats
<1>1. DOMAIN pc = Request /\ DOMAIN heart = Request /\ DOMAIN timer = Request
      /\ DOMAIN missed = Request
  BY DEF TypeOK
<1>2. CASE DatabaseFails(r)
  <2>1. pc'[r] \in {"done", "finally"} /\ \A s \in Request \ {r} : pc'[s] = pc[s]
    BY <1>1, <1>2 DEF DatabaseFails
  <2> QED
    BY <1>2, <2>1, Elsewhere DEF DatabaseFails, Before, Inside, Persist
<1>3. CASE ReleaseFails(r)
  BY <1>1, <1>3, Elsewhere DEF ReleaseFails, Before, Inside, Persist
<1>4. CASE RenewFails(r)
  BY <1>4, RenewPays
<1>5. CASE Crash(r)
  <2>1. /\ pc'[r] = "crashed" /\ UNCHANGED row
        /\ \A s \in Request \ {r} : /\ pc'[s] = pc[s] /\ heart'[s] = heart[s]
                                    /\ timer'[s] = timer[s] /\ missed'[s] = missed[s]
    BY <1>1, <1>5 DEF Crash, Beating
  <2>2. \A s \in Request \ {r} : Spent(s)' = Spent(s)
    BY <2>1 DEF Spent
  <2>3. "crashed" \notin Before /\ "crashed" \notin Inside /\ "crashed" # "acquired"
        /\ Working \subseteq Inside
    BY DEF Before, Inside, Persist, Working
  <2> QED
    BY <2>1, <2>2, <2>3 DEF PInv, Kept, Beaten, Paid
<1> QED
  BY <1>2, <1>3, <1>4, <1>5 DEF Fault

\* The invariant of a protocol whose threads are prompt.
LEMMA PromptInductive ==
  ASSUME LeaseOutlasts
  PROVE  PromptSpec => [](IInv /\ PInv)
<1>1. Init => IInv /\ PInv
  BY InitIInv, InitPInv
<1>2. ASSUME IInv, [PromptNext]_vars PROVE IInv'
  <2>1. [Next]_vars
    BY <1>2 DEF PromptNext, Next
  <2> QED
    BY <1>2, <2>1, TypeStep, LockStep, OwnerStep, UnansweredStep, OneTextStep DEF IInv
<1>3. ASSUME IInv, PInv, [PromptNext]_vars PROVE PInv'
  <2>1. TypeOK
    BY <1>3 DEF IInv
  <2>2. CASE UNCHANGED vars \/ EditVocabulary
    <3>1. UNCHANGED <<pc, owner, left, heart, timer, missed>>
      BY <2>2 DEF vars, EditVocabulary, row, beats
    <3>2. \A r \in Request : Spent(r)' = Spent(r)
      BY <3>1 DEF Spent
    <3> QED
      BY <1>3, <3>1, <3>2 DEF PInv, Kept, Beaten, Paid
  <2> QED
    BY <1>3, <2>1, <2>2, AdvancePays, RenewPays, FaultPays, TickPays DEF PromptNext
<1> QED
  BY <1>1, <1>2, <1>3, PTL DEF PromptSpec

\* With prompt threads two provider calls never overlap, for any number of
\* requests: a lease that is at work does not run out.
THEOREM OneCall ==
  ASSUME LeaseOutlasts
  PROVE  PromptSpec => []SingleProviderCall
<1>1. PInv => SingleProviderCall
  BY DEF PInv, Kept, SingleProviderCall, Inside
<1> QED
  BY PromptInductive, <1>1, PTL

\* With prompt threads no call is made once a generation is stored.
THEOREM NoCallIsWasted ==
  ASSUME LeaseOutlasts
  PROVE  PromptSpec => []NoWastedCall
<1>1. IInv /\ PInv => NoWastedCall
  BY DEF IInv, OwnerSawNothing, Looked, PInv, Kept, NoWastedCall, Inside
<1> QED
  BY PromptInductive, <1>1, PTL

\* With prompt threads no request loses at the fence what its call has produced.
THEOREM NoWorkIsLost ==
  ASSUME LeaseOutlasts
  PROVE  PromptSpec => []NoLostWork
<1>1. PInv => NoLostWork
  BY DEF PInv, Kept, NoLostWork, Inside
<1> QED
  BY PromptInductive, <1>1, PTL
=============================================================================
