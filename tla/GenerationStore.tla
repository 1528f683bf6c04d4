-------------------------- MODULE GenerationStore --------------------------
(***************************************************************************)
(* What AI vocabulary fill promises its callers, with no reservation, no   *)
(* heartbeat and no clock: one write-once generation for a normalized      *)
(* word, and answers that can only come from it.                           *)
(*                                                                         *)
(* A generated text is named after the request whose provider call wrote   *)
(* it, so the payloads of two calls are never equal.                       *)
(***************************************************************************)
CONSTANTS Request, NoRequest

VARIABLES stored,  \* the request whose generation the store keeps
          answer   \* the answer each request has decided on

vars == <<stored, answer>>

Answer == [kind : {"none", "existing", "store", "openai", "failed"},
           text : Request \union {NoRequest}]

Plain(kind) == [kind |-> kind, text |-> NoRequest]
NoAnswer == Plain("none")

Init == /\ stored = NoRequest
        /\ answer = [r \in Request |-> NoAnswer]

Reply(r, a) == /\ answer[r] = NoAnswer
               /\ answer' = [answer EXCEPT ![r] = a]

\* The one generation is written and answered from by its own request.
Generate(r) == /\ stored = NoRequest
               /\ stored' = r
               /\ Reply(r, [kind |-> "openai", text |-> r])

\* Every other request is answered from the generation already stored.
Reuse(r) == /\ stored # NoRequest
            /\ Reply(r, [kind |-> "store", text |-> stored])
            /\ UNCHANGED stored

\* Or it is answered without one: the word is in the vocabulary already, the
\* wait is over, the provider or the database failed.
Decline(r) == /\ Reply(r, Plain("existing")) \/ Reply(r, Plain("failed"))
              /\ UNCHANGED stored

Next == \E r \in Request : Generate(r) \/ Reuse(r) \/ Decline(r)

Spec == Init /\ [][Next]_vars
=============================================================================
