------------------------------- MODULE AiFill -------------------------------
(***************************************************************************)
(* Concurrent AI vocabulary fills of one normalized word                   *)
(* (backend/app/services/ai_vocabulary_service.py).  A request reads the   *)
(* vocabulary and the generation store, reserves the word by inserting (or *)
(* taking over) the row keyed by the word, keeps the reservation alive     *)
(* with a heartbeat thread while the provider is called outside any        *)
(* transaction, and persists the result in one transaction that first      *)
(* updates its own reservation row (the fence), then inserts, deletes the  *)
(* reservation and commits.                                                *)
(*                                                                         *)
(* Words never share a row, so one word is modelled.  A request's uuid     *)
(* owner token and the payload its provider call returns are both named by *)
(* the request.  Timers count down: `left` is expires_at minus the         *)
(* database clock, `wait` is reservation_wait_deadline minus monotonic().  *)
(***************************************************************************)
EXTENDS Integers, FiniteSets

CONSTANTS Request,    \* calls of fill_vocabulary for the word
          NoRequest,  \* SQL NULL, or no row
          Editing,    \* requests whose current_word_id is the matching word
          Lease,      \* _reservation_lease_seconds, in ticks
          Beat,       \* _reservation_heartbeat_interval_seconds, in ticks
          MaxMissed   \* consecutive renewals that may fail

ASSUME RequestAssumption == NoRequest \notin Request /\ Editing \subseteq Request
ASSUME TimeAssumption == /\ Lease \in Nat \ {0}
                         /\ Beat \in Nat \ {0}
                         /\ MaxMissed \in Nat

VARIABLES
  wordExists, \* a vocabulary item has the word as its Cyrillic or Latin form
  stored,     \* ai_vocabulary_generations: whose payload, or no row
  owner,      \* owner_token of the reservation row, or no row
  left,       \* ticks until the reservation expires
  lock,       \* the request whose persist transaction holds the row's lock
  pc,         \* where each request is in fill_vocabulary
  wait,       \* ticks until its reservation_wait_deadline
  owned,      \* its local reservation_owned
  heart,      \* its heartbeat thread
  timer,      \* ticks until that thread's wait, or its renewal, times out
  missed,     \* renewals failed since the last success
  answer      \* the response it has decided on

row == <<owner, left>>
beats == <<heart, timer, missed>>
vars == <<wordExists, stored, owner, left, lock, pc, wait, owned, heart, timer,
          missed, answer>>

Before == {"find1", "lookup1", "reserve", "takeover", "poll"}
Persist == {"insert", "unreserve", "commit"}
Inside == {"acquired", "find2", "lookup2", "call", "find3", "lookup3", "fence",
           "await"} \union Persist
Ended == {"done", "crashed"}
Place == Before \union Inside \union {"finally", "release"} \union Ended

Plain(kind) == [kind |-> kind, text |-> NoRequest]
NoAnswer == Plain("none")
Failed == Plain("failed")  \* an AiFillServiceError, or a database error
Answer == [kind : {"none", "existing", "store", "openai", "failed"},
           text : Request \union {NoRequest}]

TypeOK == /\ wordExists \in BOOLEAN
          /\ stored \in Request \union {NoRequest}
          /\ owner \in Request \union {NoRequest}
          /\ left \in 0..Lease
          /\ lock \in Request \union {NoRequest}
          /\ pc \in [Request -> Place]
          /\ wait \in [Request -> 0..Lease]
          /\ owned \in [Request -> BOOLEAN]
          /\ heart \in [Request -> {"off", "waiting", "renewing"}]
          /\ timer \in [Request -> 0..Beat]
          /\ missed \in [Request -> 0..MaxMissed]
          /\ answer \in [Request -> Answer]

Init == /\ wordExists \in BOOLEAN
        /\ stored = NoRequest
        /\ owner = NoRequest
        /\ left = 0
        /\ lock = NoRequest
        /\ pc = [r \in Request |-> "find1"]
        /\ wait = [r \in Request |-> 0]
        /\ owned = [r \in Request |-> FALSE]
        /\ heart = [r \in Request |-> "off"]
        /\ timer = [r \in Request |-> 0]
        /\ missed = [r \in Request |-> 0]
        /\ answer = [r \in Request |-> NoAnswer]

Goto(r, place) == pc' = [pc EXCEPT ![r] = place]

\* Return or raise: outside the try statement the request is over, inside it
\* the finally clause still runs.  The deadline is not read again.
Reply(r, a) == /\ answer' = [answer EXCEPT ![r] = a]
               /\ Goto(r, IF pc[r] \in Before THEN "done" ELSE "finally")
               /\ wait' = [wait EXCEPT ![r] = 0]

Continue(r, place) == Goto(r, place) /\ UNCHANGED <<answer, wait>>

-----------------------------------------------------------------------------
(* The reads: once on entry, again under the reservation, and a last time  *)
(* after the provider's answer has been validated.                         *)

AfterFind == [find1 |-> "lookup1", find2 |-> "lookup2", find3 |-> "lookup3"]
AfterLookup == [lookup1 |-> "reserve", lookup2 |-> "call", lookup3 |-> "fence"]

Matches(r) == wordExists /\ r \notin Editing

FindExisting(r) ==
  /\ pc[r] \in DOMAIN AfterFind
  /\ \/ /\ Matches(r)
        /\ Reply(r, Plain("existing"))
     \/ /\ ~Matches(r)
        /\ Continue(r, AfterFind[pc[r]])
  /\ UNCHANGED <<wordExists, stored, row, lock, owned, beats>>

StoredAnswer == [kind |-> "store", text |-> stored]

\* Mistaken: the store is read on entry only.
FindStoredOnce(r) ==
  /\ pc[r] \in DOMAIN AfterLookup
  /\ \/ /\ pc[r] = "lookup1" /\ stored # NoRequest
        /\ Reply(r, StoredAnswer)
     \/ /\ pc[r] # "lookup1" \/ stored = NoRequest
        /\ Goto(r, AfterLookup[pc[r]])
        /\ wait' = IF pc[r] = "lookup1" THEN [wait EXCEPT ![r] = Lease] ELSE wait
        /\ UNCHANGED answer
  /\ UNCHANGED <<wordExists, stored, row, lock, owned, beats>>

FindStored(r) ==
  /\ pc[r] \in DOMAIN AfterLookup
  /\ \/ /\ stored # NoRequest
        /\ Reply(r, StoredAnswer)
     \/ /\ stored = NoRequest
        /\ Goto(r, AfterLookup[pc[r]])
        /\ wait' = IF pc[r] = "lookup1" THEN [wait EXCEPT ![r] = Lease] ELSE wait
        /\ UNCHANGED answer
  /\ UNCHANGED <<wordExists, stored, row, lock, owned, beats>>

-----------------------------------------------------------------------------
(* Acquiring the reservation: an INSERT committed at once, and when the    *)
(* row is there already an UPDATE of it that only an expired lease allows. *)

\* The reservation's deletion is not committed yet: inserts of the key wait.
DeletePending == lock # NoRequest /\ pc[lock] = "commit"

Hold(r) == /\ owner' = r
           /\ left' = Lease
           /\ owned' = [owned EXCEPT ![r] = TRUE]
           /\ Goto(r, "acquired")

Reserve(r) ==
  /\ pc[r] = "reserve"
  /\ wait[r] > 0
  /\ ~DeletePending
  /\ \/ owner = NoRequest /\ Hold(r)
     \/ owner # NoRequest /\ Goto(r, "takeover") /\ UNCHANGED <<row, owned>>
  /\ UNCHANGED <<wordExists, stored, lock, wait, beats, answer>>

\* Mistaken: the takeover does not wait for the row's lock.
TakeOverThroughLock(r) ==
  /\ pc[r] = "takeover"
  /\ wait[r] > 0
  /\ \/ owner # NoRequest /\ left = 0 /\ Hold(r)
     \/ (owner = NoRequest \/ left > 0) /\ Goto(r, "poll") /\ UNCHANGED <<row, owned>>
  /\ UNCHANGED <<wordExists, stored, lock, wait, beats, answer>>

TakeOver(r) ==
  /\ pc[r] = "takeover"
  /\ wait[r] > 0
  /\ \/ owner # NoRequest /\ left = 0 /\ lock = NoRequest /\ Hold(r)
     \/ (owner = NoRequest \/ left > 0) /\ Goto(r, "poll") /\ UNCHANGED <<row, owned>>
  /\ UNCHANGED <<wordExists, stored, lock, wait, beats, answer>>

\* The deadline passes before a statement is sent or while it waits for a lock.
AcquireTimesOut(r) ==
  /\ pc[r] \in {"reserve", "takeover"}
  /\ wait[r] = 0
  /\ Reply(r, Failed)
  /\ UNCHANGED <<wordExists, stored, row, lock, owned, beats>>

\* Mistaken: no deadline.
PollForever(r) ==
  /\ pc[r] \in {"poll", "await"}
  /\ \/ stored # NoRequest /\ Reply(r, StoredAnswer)
     \/ /\ stored = NoRequest
        /\ Continue(r, IF pc[r] = "poll" THEN "reserve" ELSE "await")
  /\ UNCHANGED <<wordExists, stored, row, lock, owned, beats>>

\* Not acquired, or the fence was lost: read the store, give up at the
\* deadline, or sleep and try again.
Poll(r) ==
  /\ pc[r] \in {"poll", "await"}
  /\ \/ stored # NoRequest /\ Reply(r, StoredAnswer)
     \/ stored = NoRequest /\ wait[r] = 0 /\ Reply(r, Failed)
     \/ /\ stored = NoRequest /\ wait[r] > 0
        /\ Continue(r, IF pc[r] = "poll" THEN "reserve" ELSE "await")
  /\ UNCHANGED <<wordExists, stored, row, lock, owned, beats>>

-----------------------------------------------------------------------------
(* Under the reservation.                                                  *)

\* Mistaken: the thread is never started.
StartNoHeartbeat(r) ==
  /\ pc[r] = "acquired"
  /\ Goto(r, "find2")
  /\ UNCHANGED <<wordExists, stored, row, lock, wait, owned, beats, answer>>

StartHeartbeat(r) ==
  /\ pc[r] = "acquired"
  /\ heart' = [heart EXCEPT ![r] = "waiting"]
  /\ timer' = [timer EXCEPT ![r] = Beat]
  /\ Goto(r, "find2")
  /\ UNCHANGED <<wordExists, stored, row, lock, wait, owned, missed, answer>>

\* The provider answers, after any time, with a payload _validated_patch
\* accepts, or the call or the validation raises.
CallProvider(r) ==
  /\ pc[r] = "call"
  /\ \/ Continue(r, "find3")
     \/ Reply(r, Failed)
  /\ UNCHANGED <<wordExists, stored, row, lock, owned, beats>>

LoseOwnership(r) == /\ lock' = IF lock = r THEN NoRequest ELSE lock
                    /\ owned' = [owned EXCEPT ![r] = FALSE]
                    /\ Goto(r, "await")

\* Mistaken: a request that lost its reservation answers with its own text.
FenceKeepsOwnText(r) ==
  /\ pc[r] = "fence"
  /\ \/ owner = r /\ lock' = r /\ Continue(r, "insert") /\ UNCHANGED owned
     \/ /\ owner # r /\ Reply(r, [kind |-> "openai", text |-> r])
        /\ UNCHANGED <<lock, owned>>
  /\ UNCHANGED <<wordExists, stored, row, beats>>

\* The fence's new expiry is visible to nobody: the transaction deletes the
\* row before it commits.  What remains of it is the lock on the row.
Fence(r) ==
  /\ pc[r] = "fence"
  /\ \/ owner = r /\ lock' = r /\ Goto(r, "insert") /\ UNCHANGED owned
     \/ owner # r /\ LoseOwnership(r)
  /\ UNCHANGED <<wordExists, stored, row, wait, beats, answer>>

\* flush: the unique index on the normalized word decides.
InsertGeneration(r) ==
  /\ pc[r] = "insert"
  /\ IF stored = NoRequest
       THEN Continue(r, "unreserve") /\ UNCHANGED lock
       ELSE Reply(r, StoredAnswer) /\ lock' = NoRequest
  /\ UNCHANGED <<wordExists, stored, row, owned, beats>>

DeleteReservation(r) ==
  /\ pc[r] = "unreserve"
  /\ IF owner = r THEN Goto(r, "commit") /\ UNCHANGED <<lock, owned>>
                  ELSE LoseOwnership(r)
  /\ UNCHANGED <<wordExists, stored, row, wait, beats, answer>>

Commit(r) ==
  /\ pc[r] = "commit"
  /\ stored' = r
  /\ owner' = NoRequest
  /\ left' = 0
  /\ lock' = NoRequest
  /\ owned' = [owned EXCEPT ![r] = FALSE]
  /\ Reply(r, [kind |-> "openai", text |-> r])
  /\ UNCHANGED <<wordExists, beats>>

\* Any other database error rolls the open transaction back and is raised.
DatabaseFails(r) ==
  /\ pc[r] \in (Before \union Inside) \ {"call"}
  /\ lock' = IF lock = r THEN NoRequest ELSE lock
  /\ Reply(r, Failed)
  /\ UNCHANGED <<wordExists, stored, row, owned, beats>>

-----------------------------------------------------------------------------
(* The finally clause.                                                     *)

Finally(r) ==
  /\ pc[r] = "finally"
  /\ Goto(r, IF owned[r] THEN "release" ELSE "done")
  /\ UNCHANGED <<wordExists, stored, row, lock, wait, owned, beats, answer>>

\* request_stop has set the heartbeat's stop event.
Stopping(r) == pc[r] \in {"release", "done"}

Release(r) ==
  /\ pc[r] = "release"
  /\ owner' = IF owner = r THEN NoRequest ELSE owner
  /\ left' = IF owner = r THEN 0 ELSE left
  /\ owned' = [owned EXCEPT ![r] = FALSE]
  /\ Goto(r, "done")
  /\ UNCHANGED <<wordExists, stored, lock, wait, beats, answer>>

\* A failed release is logged: the row stays until its lease runs out.
ReleaseFails(r) ==
  /\ pc[r] = "release"
  /\ owned' = [owned EXCEPT ![r] = FALSE]
  /\ Goto(r, "done")
  /\ UNCHANGED <<wordExists, stored, row, lock, wait, beats, answer>>

-----------------------------------------------------------------------------
(* The heartbeat thread, which the request does not wait for beyond its    *)
(* cleanup deadline: a renewal in flight may outlive the request.          *)

Beating(r, state, ticks) == /\ heart' = [heart EXCEPT ![r] = state]
                            /\ timer' = [timer EXCEPT ![r] = ticks]

\* Mistaken: the stop event is not looked at.
HeartbeatNeverStops(r) ==
  /\ heart[r] = "waiting"
  /\ timer[r] = 0
  /\ Beating(r, "renewing", Beat)
  /\ UNCHANGED <<wordExists, stored, row, lock, pc, wait, owned, missed, answer>>

HeartbeatWakes(r) ==
  /\ heart[r] = "waiting"
  /\ \/ Stopping(r) /\ Beating(r, "off", 0)
     \/ ~Stopping(r) /\ timer[r] = 0 /\ Beating(r, "renewing", Beat)
  /\ UNCHANGED <<wordExists, stored, row, lock, pc, wait, owned, missed, answer>>

\* Mistaken: the new expiry is counted from the end of the wait that follows.
RenewAhead(r) ==
  /\ heart[r] = "renewing" /\ owner = r /\ lock = NoRequest
  /\ left' = Beat + Lease
  /\ Beating(r, "waiting", Beat)
  /\ missed' = [missed EXCEPT ![r] = 0]
  /\ UNCHANGED <<wordExists, stored, owner, lock, pc, wait, owned, answer>>

\* UPDATE ... WHERE owner_token = own token; it waits for the row's lock.
Renew(r) ==
  /\ heart[r] = "renewing"
  /\ \/ /\ owner = r /\ lock = NoRequest
        /\ left' = Lease
        /\ Beating(r, "waiting", Beat)
     \/ /\ owner # r
        /\ Beating(r, "off", 0)
        /\ UNCHANGED left
  /\ missed' = [missed EXCEPT ![r] = 0]
  /\ UNCHANGED <<wordExists, stored, owner, lock, pc, wait, owned, answer>>

\* Mistaken: the exception ends the thread.
RenewFailsForGood(r) ==
  /\ heart[r] = "renewing"
  /\ Beating(r, "off", 0)
  /\ UNCHANGED <<wordExists, stored, row, lock, pc, wait, owned, missed, answer>>

\* The renewal raises; the loop logs it and waits for the next interval.
RenewFails(r) ==
  /\ heart[r] = "renewing"
  /\ missed[r] < MaxMissed
  /\ missed' = [missed EXCEPT ![r] = @ + 1]
  /\ Beating(r, "waiting", Beat)
  /\ UNCHANGED <<wordExists, stored, row, lock, pc, wait, owned, answer>>

-----------------------------------------------------------------------------
(* The environment: worker crashes, time, and editors of the vocabulary.   *)

Crash(r) ==
  /\ pc[r] \notin Ended
  /\ Goto(r, "crashed")
  /\ lock' = IF lock = r THEN NoRequest ELSE lock
  /\ wait' = [wait EXCEPT ![r] = 0]
  /\ owned' = [owned EXCEPT ![r] = FALSE]
  /\ missed' = [missed EXCEPT ![r] = 0]
  /\ Beating(r, "off", 0)
  /\ UNCHANGED <<wordExists, stored, row, answer>>

Down(n) == IF n > 0 THEN n - 1 ELSE 0

Tick ==
  /\ left' = Down(left)
  /\ wait' = [r \in Request |-> Down(wait[r])]
  /\ timer' = [r \in Request |-> Down(timer[r])]
  /\ UNCHANGED <<wordExists, stored, owner, lock, pc, owned, heart, missed, answer>>

\* create_word or update_word gives an item this form, or takes it away.
EditVocabulary ==
  /\ wordExists' = ~wordExists
  /\ UNCHANGED <<stored, row, lock, pc, wait, owned, beats, answer>>

Advance(r) == \/ FindExisting(r) \/ FindStored(r)
              \/ Reserve(r) \/ TakeOver(r) \/ AcquireTimesOut(r) \/ Poll(r)
              \/ StartHeartbeat(r) \/ CallProvider(r)
              \/ Fence(r) \/ InsertGeneration(r) \/ DeleteReservation(r) \/ Commit(r)
              \/ Finally(r) \/ Release(r)

Heartbeat(r) == HeartbeatWakes(r) \/ Renew(r)

Fault(r) == DatabaseFails(r) \/ ReleaseFails(r) \/ RenewFails(r) \/ Crash(r)

Next == \/ \E r \in Request : Advance(r) \/ Heartbeat(r) \/ Fault(r)
        \/ Tick
        \/ EditVocabulary

Spec == Init /\ [][Next]_vars

\* Threads are scheduled, statements return, the provider call has a timeout,
\* and clocks run.  No fault is ever required to happen.
Fairness == /\ \A r \in Request : WF_vars(Advance(r)) /\ WF_vars(Heartbeat(r))
            /\ WF_vars(Tick)

FairSpec == Spec /\ Fairness

\* Prompt threads: time does not pass over a heartbeat whose wait or whose
\* statement timeout is due, nor between the acquiring commit and start().
Prompt == \A r \in Request : /\ heart[r] # "off" => timer[r] > 0
                             /\ pc[r] # "acquired"

PromptNext == \/ \E r \in Request : Advance(r) \/ Heartbeat(r) \/ Fault(r)
              \/ Prompt /\ Tick
              \/ EditVocabulary

PromptSpec == Init /\ [][PromptNext]_vars

-----------------------------------------------------------------------------
(* Properties.                                                             *)

\* A request that has passed the fence is the reservation's owner and the only
\* one inside the persist transaction, and nothing has been stored since it
\* acquired: the code's branches for a unique conflict on the generation and
\* for a reservation row that is gone at the DELETE are never taken.
FencedOwnerIsAlone ==
  \A r \in Request : pc[r] \in Persist =>
    owner = r /\ lock = r /\ stored = NoRequest

\* Whatever is raced, crashed or retried, every generated text a caller is given
\* is the one text the store keeps for the word.
OneText == \A r \in Request : answer[r].text # NoRequest => answer[r].text = stored

\* The reservation protocol implements a write-once store of one generation.
Store == INSTANCE GenerationStore WITH Request <- Request, NoRequest <- NoRequest,
                                    stored <- stored, answer <- answer
ImplementsStore == Store!Spec

\* README: concurrent requests for a word share one provider call.  With prompt
\* threads a live owner's lease never runs out, so calls do not overlap.
SingleProviderCall ==
  \A r, s \in Request : pc[r] = "call" /\ pc[s] = "call" => r = s

\* With prompt threads no call is paid for once a generation is stored, however
\* long the provider takes and whoever crashed before.
NoWastedCall == \A r \in Request : pc[r] = "call" => stored = NoRequest

\* With prompt threads nobody loses at the fence what its call has produced.
NoLostWork == \A r \in Request : pc[r] # "await"

\* Every request is answered or its worker crashes: nobody waits for ever on a
\* reservation, a row lock or a store that stays empty.
RequestsEnd == \A r \in Request : <>(pc[r] \in Ended)

\* A reservation whose request crashed, or ended without deleting it, expires or
\* is taken over: no renewal in flight keeps it alive for ever.
AbandonedLeaseEnds ==
  \A r \in Request : (owner = r /\ pc[r] \in Ended) ~> (owner # r \/ left = 0)
=============================================================================
