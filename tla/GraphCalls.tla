----------------------------- MODULE GraphCalls -----------------------------
(***************************************************************************)
(* Calls of Microsoft Graph: the client's retry loop                       *)
(* (app/services/graph/client.py), what the callers make of its results    *)
(* (meetings.py, transcripts.py), and the callRecords subscriptions that   *)
(* calls create, renew and delete (webhook.py, app/api/routes/webhook.py). *)
(*                                                                         *)
(* Graph handles a request in one step and its answer is received in a     *)
(* later one: an answer can be lost after the effect.  The service keeps   *)
(* nothing about subscriptions; callers know the ids that they were told.  *)
(***************************************************************************)
EXTENDS Naturals, FiniteSets

CONSTANTS
    Call,          \* calls running at a time
    MAX_RETRIES,   \* attempts of a call (3 in the code)
    Reads,         \* the reads: "user" and "read"
    Life,          \* life of a subscription (23 hours), in ticks
    MaxMade        \* subscriptions that Graph makes; a bound

ASSUME GraphConstants ==
    /\ IsFiniteSet(Call)
    /\ MAX_RETRIES \in Nat \ {0}
    /\ Reads \subseteq {"user", "read"}
    /\ Life \in Nat \ {0}
    /\ MaxMade \in Nat

VARIABLES
    subs,     \* subs[i]: ticks that subscription i has left, 0 if it is gone
    made,     \* number of subscriptions ever made: their ids are 1..made
    known,    \* the ids that callers have been told
    pc,       \* pc[c]: "idle", or where call c waits
    op,       \* op[c]: what c is for
    attempt,  \* attempt[c]: number of c's attempts so far
    reply,    \* reply[c]: Graph's answer to c's last attempt
    result,   \* result[c]: how c ended, "none" before
    touched,  \* touched[c]: the subscriptions on which c had an effect
    unsure    \* unsure[c]: an attempt of c was not answered, or with a 5xx

graph == <<subs, made>>
vars == <<graph, known, pc, op, attempt, reply, result, touched, unsure>>

Id == 1..MaxMade
\* register_webhook, renew_webhook, delete_webhook, get_user_by_id ("user"), and
\* the other reads: of a profile, a meeting, transcripts and a transcript's text.
Op == [kind : {"register"} \union Reads, id : {0}]
        \union [kind : {"renew", "delete"}, id : Id]

Retryable == {"lost", "429", "5xx"}
\* "refused": 401, which raises TokenExpiredError, 400, 403 or another status.
Reply == Retryable \union {"none", "refused", "404", "2xx", "unreadable"}
\* "exhausted": no attempt was left; "malformed": the error could not be read.
Result == {"none", "refused", "404", "exhausted", "malformed", "unreadable", "done"}

TypeOK ==
    /\ subs \in [Id -> 0..Life]
    /\ made \in 0..MaxMade
    /\ known \in SUBSET (1..made)
    /\ pc \in [Call -> {"idle", "sent", "answered"}]
    /\ op \in [Call -> Op]
    /\ attempt \in [Call -> 0..MAX_RETRIES]
    /\ reply \in [Call -> Reply]
    /\ result \in [Call -> Result]
    /\ touched \in [Call -> SUBSET (1..made)]
    /\ unsure \in [Call -> BOOLEAN]

Exists(i) == i # 0 /\ subs[i] > 0

-----------------------------------------------------------------------------

Init ==
    /\ subs = [i \in Id |-> 0]
    /\ made = 0
    /\ known = {}
    /\ pc = [c \in Call |-> "idle"]
    /\ op = [c \in Call |-> [kind |-> "register", id |-> 0]]
    /\ attempt = [c \in Call |-> 0]
    /\ reply = [c \in Call |-> "none"]
    /\ result = [c \in Call |-> "none"]
    /\ touched = [c \in Call |-> {}]
    /\ unsure = [c \in Call |-> FALSE]

Goto(c, step) == pc' = [pc EXCEPT ![c] = step]

End(c, how) ==
    /\ Goto(c, "idle")
    /\ result' = [result EXCEPT ![c] = how]
    /\ attempt' = [attempt EXCEPT ![c] = 0]
    /\ reply' = [reply EXCEPT ![c] = "none"]

\* A caller acts on a subscription that it knows of.  get_access_token_app
\* gets a token for the call, or raises an error.  It runs MSAL in a thread
\* without a timeout; that it comes back is an assumption of this action.
Begin(c) ==
    /\ pc[c] = "idle"
    /\ \E o \in Op :
         /\ o.id \in known \union {0}
         /\ op' = [op EXCEPT ![c] = o]
    /\ \/ Goto(c, "sent") /\ result' = [result EXCEPT ![c] = "none"]
                          /\ attempt' = [attempt EXCEPT ![c] = 1]
                          /\ UNCHANGED reply
       \/ End(c, "refused")
    /\ touched' = [touched EXCEPT ![c] = {}]
    /\ unsure' = [unsure EXCEPT ![c] = FALSE]
    /\ UNCHANGED <<graph, known>>

Answer(c, with) ==
    /\ reply' = [reply EXCEPT ![c] = with]
    /\ Goto(c, "answered")
    /\ UNCHANGED <<known, op, attempt, result, unsure>>

\* Graph carries a request out, and its answer arrives, is lost, is an error
\* of Graph's, or is no JSON.
Serve(c) ==
    LET i == IF op[c].kind = "register" THEN made + 1 ELSE op[c].id IN
    /\ pc[c] = "sent"
    /\ \/ /\ op[c].kind = "register"
          /\ made < MaxMade
          /\ made' = made + 1
          /\ subs' = [subs EXCEPT ![i] = Life]
          /\ touched' = [touched EXCEPT ![c] = @ \union {i}]
       \/ /\ op[c].kind = "renew"
          /\ Exists(i)
          /\ subs' = [subs EXCEPT ![i] = Life]
          /\ touched' = [touched EXCEPT ![c] = @ \union {i}]
          /\ UNCHANGED made
       \/ /\ op[c].kind = "delete"
          /\ Exists(i)
          /\ subs' = [subs EXCEPT ![i] = 0]
          /\ touched' = [touched EXCEPT ![c] = @ \union {i}]
          /\ UNCHANGED made
       \/ /\ op[c].kind \in Reads
          /\ UNCHANGED <<graph, touched>>
    /\ \/ \E with \in {"2xx", "lost", "5xx"} : Answer(c, with)
       \/ op[c].kind # "delete" /\ Answer(c, "unreadable")

\* Graph does nothing: the request is lost, refused, deferred, or names what
\* does not exist.
Decline(c) ==
    /\ pc[c] = "sent"
    /\ \/ \E with \in Retryable \union {"refused"} : Answer(c, with)
       \/ /\ op[c].kind # "register"
          /\ ~Exists(op[c].id)
          /\ Answer(c, "404")
    /\ UNCHANGED <<graph, touched>>

\* What a failed last attempt, and an answer that is not retried, ends with.
\* get_user_by_id returns None for a user that is not found.
Meaning(c) ==
    CASE reply[c] \in Retryable -> "exhausted"
      [] reply[c] = "2xx" -> "done"
      [] reply[c] = "404" /\ op[c].kind = "user" -> "done"
      [] OTHER -> reply[c]

\* What the caller is told by a result: the id of what it registered, which is
\* that of the last attempt.
Told(c) ==
    IF op[c].kind = "register" /\ reply[c] = "2xx"
    THEN {i \in touched[c] : \A j \in touched[c] : j <= i} ELSE {}

\* After the back-off, or the time of Retry-After, another attempt is sent.
Resend(c) ==
    /\ Goto(c, "sent")
    /\ attempt' = [attempt EXCEPT ![c] = @ + 1]
    /\ reply' = [reply EXCEPT ![c] = "none"]
    /\ UNCHANGED <<result, known>>

\* A status of 400 or more whose body is JSON, but not the object with an
\* object "error" that is looked into: the AttributeError ends the call, even
\* where the status would be retried.
Stumble(c) ==
    /\ reply[c] \in {"5xx", "404", "refused"}
    /\ End(c, "malformed")
    /\ UNCHANGED known

\* Mutant: a rate limit does not use up an attempt.
ReceivePatiently(c) ==
    /\ pc[c] = "answered"
    /\ unsure' = [unsure EXCEPT ![c] = @ \/ reply[c] \in {"lost", "5xx"}]
    /\ \/ /\ reply[c] = "429" \/ (reply[c] \in Retryable /\ attempt[c] < MAX_RETRIES)
          /\ Goto(c, "sent")
          /\ attempt' = [attempt EXCEPT ![c] = IF reply[c] = "429" THEN @ ELSE @ + 1]
          /\ reply' = [reply EXCEPT ![c] = "none"]
          /\ UNCHANGED <<result, known>>
       \/ /\ reply[c] # "429" /\ (reply[c] \notin Retryable \/ attempt[c] >= MAX_RETRIES)
          /\ End(c, Meaning(c))
          /\ known' = known \union Told(c)
       \/ Stumble(c)
    /\ UNCHANGED <<graph, op, touched>>

\* Mutant: the loop has one turn too many.
ReceiveOnceMore(c) ==
    /\ pc[c] = "answered"
    /\ unsure' = [unsure EXCEPT ![c] = @ \/ reply[c] \in {"lost", "5xx"}]
    /\ \/ /\ reply[c] \in Retryable /\ attempt[c] <= MAX_RETRIES
          /\ Resend(c)
       \/ /\ reply[c] \notin Retryable \/ attempt[c] > MAX_RETRIES
          /\ End(c, Meaning(c))
          /\ known' = known \union Told(c)
       \/ Stumble(c)
    /\ UNCHANGED <<graph, op, touched>>

\* Mutant: an answer that is no JSON is retried too.
ReceiveRetryingUnreadable(c) ==
    /\ pc[c] = "answered"
    /\ unsure' = [unsure EXCEPT ![c] = @ \/ reply[c] \in {"lost", "5xx"}]
    /\ \/ /\ reply[c] \in Retryable \union {"unreadable"} /\ attempt[c] < MAX_RETRIES
          /\ Resend(c)
       \/ /\ reply[c] \notin Retryable \union {"unreadable"} \/ attempt[c] >= MAX_RETRIES
          /\ End(c, Meaning(c))
          /\ known' = known \union Told(c)
       \/ Stumble(c)
    /\ UNCHANGED <<graph, op, touched>>

\* Mutant: a server error at the last attempt passes for success.
ReceiveHopefully(c) ==
    /\ pc[c] = "answered"
    /\ unsure' = [unsure EXCEPT ![c] = @ \/ reply[c] \in {"lost", "5xx"}]
    /\ \/ /\ reply[c] \in Retryable /\ attempt[c] < MAX_RETRIES
          /\ Resend(c)
       \/ /\ reply[c] \notin Retryable \/ attempt[c] >= MAX_RETRIES
          /\ End(c, IF reply[c] = "5xx" THEN "done" ELSE Meaning(c))
          /\ known' = known \union Told(c)
       \/ Stumble(c)
    /\ UNCHANGED <<graph, op, touched>>

\* _request goes on with the answer, or the lack of one.
Receive(c) ==
    /\ pc[c] = "answered"
    /\ unsure' = [unsure EXCEPT ![c] = @ \/ reply[c] \in {"lost", "5xx"}]
    /\ \/ /\ reply[c] \in Retryable /\ attempt[c] < MAX_RETRIES
          /\ Resend(c)
       \/ /\ reply[c] \notin Retryable \/ attempt[c] >= MAX_RETRIES
          /\ End(c, Meaning(c))
          /\ known' = known \union Told(c)
       \/ Stumble(c)
    /\ UNCHANGED <<graph, op, touched>>

\* Subscriptions grow older and expire.
Tick ==
    /\ \E i \in Id : subs[i] > 0
    /\ subs' = [i \in Id |-> IF subs[i] > 0 THEN subs[i] - 1 ELSE 0]
    /\ UNCHANGED <<made, known, pc, op, attempt, reply, result, touched, unsure>>

\* The process dies with its calls.
Crash ==
    /\ \E c \in Call : pc[c] # "idle"
    /\ pc' = [c \in Call |-> "idle"]
    /\ result' = [c \in Call |-> "none"]
    /\ attempt' = [c \in Call |-> 0]
    /\ reply' = [c \in Call |-> "none"]
    /\ UNCHANGED <<graph, known, op, touched, unsure>>

Step(c) == Serve(c) \/ Decline(c) \/ Receive(c)

Next == (\E c \in Call : Begin(c) \/ Step(c)) \/ Tick \/ Crash

Spec == Init /\ [][Next]_vars

\* The event loop runs what can go on; an attempt has a timeout, and a sleep
\* ends.
FairSpec == Spec /\ \A c \in Call : WF_vars(Step(c))

-----------------------------------------------------------------------------
(* Properties.                                                              *)

(* A success took place: the call made, renewed or deleted a subscription,  *)
(* and of one that it reports deleted, or not found, nothing is left,       *)
(* whatever other calls, lost answers and retries came between.             *)
AnswersAreTrue ==
    \A c \in Call : op[c].kind \in {"register", "renew", "delete"} =>
        /\ result[c] = "done" => touched[c] # {}
        /\ result[c] = "404" \/ (result[c] = "done" /\ op[c].kind = "delete")
             => ~Exists(op[c].id)

(* A call that failed had no effect, unless Graph left an attempt without   *)
(* an answer or answered with a 5xx, or its answer of 2xx was unreadable;   *)
(* with these exceptions too, one that succeeded told its caller of all     *)
(* that it made.  Of a call that a crash ended, which has no result,        *)
(* nothing is said: it may leave a subscription that nobody knows as well.  *)
FailuresHaveNoEffect ==
    /\ \A c \in Call :
         result[c] \notin {"none", "done", "unreadable"} /\ ~unsure[c] => touched[c] = {}
    /\ \A c \in Call :
         result[c] = "done" /\ ~unsure[c] /\ op[c].kind = "register" => touched[c] \subseteq known

(* However Graph answers, and whatever it loses, a call whose loop has      *)
(* begun ends.                                                              *)
CallsEnd == \A c \in Call : pc[c] # "idle" ~> pc[c] = "idle"

=============================================================================
