-------------------------- MODULE GraphCallsProofs --------------------------
(***************************************************************************)
(* Theorems about GraphCalls, for every number of calls, attempts and      *)
(* subscriptions.                                                          *)
(*                                                                         *)
(* What a call ends with is decided by the answer to its last attempt; the *)
(* invariant says what an answer on its way means, which the other calls   *)
(* and the passing of time leave true (OthersAreFine): what does not exist *)
(* is never made again under the same id, and ids are made in order.       *)
(***************************************************************************)
EXTENDS GraphCalls, TLAPS

Changing == {"register", "renew", "delete"}

\* What is so of a call that waits, of an answer, and of a result.
Fine(c) ==
    /\ op[c].id \in 0..made
    /\ pc[c] # "idle" => result[c] = "none"
    /\ pc[c] = "sent" /\ ~unsure[c] => touched[c] = {}
    /\ pc[c] = "answered" =>
         /\ reply[c] = "404" => ~Exists(op[c].id)
         /\ reply[c] = "2xx" /\ op[c].kind \in Changing => touched[c] # {}
         /\ reply[c] = "2xx" /\ op[c].kind = "delete" => ~Exists(op[c].id)
         /\ ~unsure[c] /\ reply[c] \notin {"lost", "5xx", "2xx", "unreadable"} => touched[c] = {}
         /\ ~unsure[c] => \A i, j \in touched[c] : i = j
    /\ op[c].kind \in Changing =>
         /\ result[c] = "done" => touched[c] # {}
         /\ result[c] = "404" \/ (result[c] = "done" /\ op[c].kind = "delete")
              => ~Exists(op[c].id)
    /\ result[c] \notin {"none", "done", "unreadable"} /\ ~unsure[c] => touched[c] = {}
    /\ result[c] = "done" /\ ~unsure[c] /\ op[c].kind = "register" => touched[c] \subseteq known

IInv == TypeOK /\ \A c \in Call : Fine(c)

-----------------------------------------------------------------------------

(* Only calls that name a subscription do not register or read.             *)
LEMMA OpTypes ==
    ASSUME NEW o \in Op
    PROVE  /\ o.kind \in {"register", "renew", "delete", "user", "read"}
           /\ o.id \in Id \union {0}
           /\ o.kind \in {"renew", "delete"} => o.id \in Id
<1>1. \/ o \in [kind : {"register"} \union Reads, id : {0}]
      \/ o \in [kind : {"renew", "delete"}, id : Id]
  BY DEF Op
<1>2. Reads \subseteq {"user", "read"}
  BY GraphConstants
<1>3. CASE o \in [kind : {"register"} \union Reads, id : {0}]
  <2>1. o.kind \in {"register"} \union Reads /\ o.id = 0
    BY <1>3
  <2>2. QED
    BY <1>2, <2>1
<1>4. CASE o \in [kind : {"renew", "delete"}, id : Id]
  BY <1>4
<1>5. QED
  BY <1>1, <1>3, <1>4

\* Only c moves.
Alone(c) ==
    \A q \in Call \ {c} :
        /\ pc'[q] = pc[q] /\ op'[q] = op[q] /\ attempt'[q] = attempt[q] /\ reply'[q] = reply[q]
        /\ result'[q] = result[q] /\ touched'[q] = touched[q] /\ unsure'[q] = unsure[q]

\* What does not exist stays gone, and nothing that was made or told is undone.
Onward ==
    /\ \A i \in 0..made : ~Exists(i) => ~Exists(i)'
    /\ 0..made \subseteq 0..made'
    /\ known \subseteq known'

(* What the others count on stays true.                                     *)
LEMMA OthersAreFine ==
    ASSUME IInv, NEW c \in Call, Alone(c), Onward, TypeOK', Fine(c)'
    PROVE  IInv'
<1> SUFFICES ASSUME NEW q \in Call, q # c
             PROVE  Fine(q)'
  BY DEF IInv
<1>1. /\ pc'[q] = pc[q] /\ op'[q] = op[q] /\ attempt'[q] = attempt[q] /\ reply'[q] = reply[q]
      /\ result'[q] = result[q] /\ touched'[q] = touched[q] /\ unsure'[q] = unsure[q]
  BY DEF Alone
<1>2. Fine(q)
  BY DEF IInv
<1>3. op'[q].id \in 0..made' /\ (~Exists(op[q].id) => ~Exists(op[q].id)')
  BY <1>1, <1>2 DEF Fine, Onward
<1>4. QED
  BY <1>1, <1>2, <1>3 DEF Fine, Onward, Exists

LEMMA IInvInit == Init => IInv
<1> SUFFICES ASSUME Init PROVE IInv
  OBVIOUS
<1>1. MAX_RETRIES \in Nat /\ Life \in Nat /\ MaxMade \in Nat
  BY GraphConstants
<1>2. [kind |-> "register", id |-> 0] \in Op
  BY DEF Op
<1>3. TypeOK
  BY <1>1, <1>2 DEF Init, TypeOK, Reply, Retryable, Result
<1>4. \A c \in Call : Fine(c)
  BY DEF Init, Fine
<1>5. QED
  BY <1>3, <1>4 DEF IInv

(* A call begins: it is sent, or refused for want of a token.               *)
LEMMA BeginKeepsIInv ==
    ASSUME IInv, NEW c \in Call, Begin(c)
    PROVE  IInv'
<1>1. PICK o \in Op : o.id \in known \union {0} /\ op' = [op EXCEPT ![c] = o]
  BY DEF Begin
<1>2. /\ touched' = [touched EXCEPT ![c] = {}] /\ unsure' = [unsure EXCEPT ![c] = FALSE]
      /\ subs' = subs /\ made' = made /\ known' = known
  BY DEF Begin, graph
<1>3. PICK step \in {"sent", "idle"}, how \in {"none", "refused"}, n \in {0, 1},
           answer \in {reply[c], "none"} :
        /\ pc' = [pc EXCEPT ![c] = step] /\ result' = [result EXCEPT ![c] = how]
        /\ attempt' = [attempt EXCEPT ![c] = n] /\ reply' = [reply EXCEPT ![c] = answer]
        /\ step = "sent" => how = "none"
  <2>1. reply = [reply EXCEPT ![c] = reply[c]]
    BY DEF IInv, TypeOK
  <2>2. QED
    BY <2>1 DEF Begin, End, Goto
<1>4. TypeOK
  BY DEF IInv
<1>5. 1 \in 0..MAX_RETRIES /\ 0 \in 0..MAX_RETRIES
  BY GraphConstants
<1>6. /\ op' \in [Call -> Op] /\ op'[c] = o
      /\ touched' \in [Call -> SUBSET (1..made)] /\ touched'[c] = {}
      /\ unsure' \in [Call -> BOOLEAN] /\ unsure'[c] = FALSE
  BY <1>1, <1>2, <1>4 DEF TypeOK
<1>7. /\ pc' \in [Call -> {"idle", "sent", "answered"}] /\ pc'[c] = step
      /\ result' \in [Call -> Result] /\ result'[c] = how
      /\ attempt' \in [Call -> 0..MAX_RETRIES]
      /\ reply' \in [Call -> Reply]
  BY <1>3, <1>4, <1>5 DEF TypeOK, Result, Reply
<1>8. TypeOK'
  BY <1>2, <1>4, <1>6, <1>7 DEF TypeOK
<1>9. Alone(c)
  BY <1>1, <1>2, <1>3, <1>4 DEF TypeOK, Alone
<1>10. Onward
  BY <1>2 DEF Onward, Exists
<1>11. o.id \in 0..made
  <2>1. known \subseteq 1..made
    BY <1>4 DEF TypeOK
  <2>2. made \in Nat
    BY <1>4, GraphConstants DEF TypeOK
  <2>3. o.id \in 1..made \/ o.id = 0
    BY <1>1, <2>1
  <2>4. QED
    BY <2>2, <2>3
<1>12. Fine(c)'
  BY <1>2, <1>3, <1>6, <1>7, <1>11 DEF Fine, Changing
<1>13. QED
  BY <1>8, <1>9, <1>10, <1>12, OthersAreFine

\* An answer arrives at c, and nothing else about the calls changes but what
\* c has touched.
LEMMA AnswerMoves ==
    ASSUME IInv, NEW c \in Call, NEW with \in Reply, Answer(c, with), NEW effect,
           touched' = [touched EXCEPT ![c] = @ \union effect]
    PROVE  /\ pc' \in [Call -> {"idle", "sent", "answered"}] /\ pc'[c] = "answered"
           /\ reply' \in [Call -> Reply] /\ reply'[c] = with
           /\ UNCHANGED <<known, op, attempt, result, unsure>>
           /\ touched'[c] = touched[c] \union effect
           /\ Alone(c)
<1>1. /\ reply' = [reply EXCEPT ![c] = with] /\ pc' = [pc EXCEPT ![c] = "answered"]
      /\ UNCHANGED <<known, op, attempt, result, unsure>>
  BY DEF Answer, Goto
<1>2. TypeOK
  BY DEF IInv
<1>3. QED
  BY <1>1, <1>2 DEF TypeOK, Alone

(* Graph did nothing.                                                       *)
LEMMA DeclineKeepsIInv ==
    ASSUME IInv, NEW c \in Call, Decline(c)
    PROVE  IInv'
<1>1. pc[c] = "sent" /\ UNCHANGED <<subs, made, touched>>
  BY DEF Decline, graph
<1>2. PICK with \in Retryable \union {"refused", "404"} :
        Answer(c, with) /\ (with = "404" => ~Exists(op[c].id))
  <2>1. CASE \E with \in Retryable \union {"refused"} : Answer(c, with)
    <3>1. PICK with \in Retryable \union {"refused"} : Answer(c, with)
      BY <2>1
    <3>2. with \in Retryable \union {"refused", "404"} /\ with # "404"
      BY DEF Retryable
    <3>3. QED
      BY <3>1, <3>2
  <2>2. CASE ~Exists(op[c].id) /\ Answer(c, "404")
    BY <2>2
  <2>3. QED
    BY <2>1, <2>2 DEF Decline
<1>3. with \in Reply /\ with \notin {"2xx", "unreadable"}
  BY DEF Reply, Retryable
<1>4. TypeOK /\ Fine(c)
  BY DEF IInv
<1>5. touched' = [touched EXCEPT ![c] = @ \union {}]
  BY <1>1, <1>4 DEF TypeOK
<1>6. /\ pc' \in [Call -> {"idle", "sent", "answered"}] /\ pc'[c] = "answered"
      /\ reply' \in [Call -> Reply] /\ reply'[c] = with
      /\ UNCHANGED <<known, op, attempt, result, unsure>>
      /\ Alone(c)
  BY <1>2, <1>3, <1>5, AnswerMoves
<1>7. TypeOK'
  BY <1>1, <1>4, <1>6 DEF TypeOK
<1>8. Onward
  BY <1>1, <1>6 DEF Onward, Exists
<1>9. Fine(c)'
  BY <1>1, <1>2, <1>3, <1>4, <1>6 DEF Fine, Exists
<1>10. QED
  BY <1>6, <1>7, <1>8, <1>9, OthersAreFine

(* Graph carried the request out: what it touched exists, or is gone for    *)
(* good if it was to be deleted.                                            *)
LEMMA ServeKeepsIInv ==
    ASSUME IInv, NEW c \in Call, Serve(c)
    PROVE  IInv'
<1> DEFINE kind == op[c].kind
           i == IF kind = "register" THEN made + 1 ELSE op[c].id
           effect == IF kind \in Changing THEN {i} ELSE {}
<1>1. PICK with \in {"2xx", "lost", "5xx", "unreadable"} : Answer(c, with)
  BY DEF Serve
<1>2. TypeOK /\ Fine(c) /\ pc[c] = "sent" /\ op[c] \in Op
  BY DEF IInv, Serve, TypeOK
<1>3. /\ Life \in Nat \ {0} /\ MaxMade \in Nat /\ made \in 0..MaxMade
      /\ Reads \subseteq {"user", "read"}
  BY <1>2, GraphConstants DEF TypeOK
<1>4. op[c].id \in 0..made
  BY <1>2 DEF Fine
<1>5. /\ kind \in {"register", "renew", "delete", "user", "read"}
      /\ kind \in {"renew", "delete"} => op[c].id \in Id
  BY <1>2, OpTypes
<1>6. /\ touched' = [touched EXCEPT ![c] = @ \union effect]
      /\ made' = IF kind = "register" THEN made + 1 ELSE made
      /\ subs' = IF kind \in Changing
                 THEN [subs EXCEPT ![i] = IF kind = "delete" THEN 0 ELSE Life] ELSE subs
      /\ kind = "register" => made < MaxMade
      /\ kind = "renew" => Exists(i)
  <2>1. CASE kind = "register"
    BY <1>3, <2>1 DEF Serve, Changing
  <2>2. CASE kind = "renew"
    BY <1>3, <2>2 DEF Serve, Changing
  <2>3. CASE kind = "delete"
    BY <1>3, <2>3 DEF Serve, Changing
  <2>4. CASE kind \in {"user", "read"}
    <3>1. UNCHANGED <<subs, made, touched>>
      BY <2>4 DEF Serve, graph
    <3>2. touched = [touched EXCEPT ![c] = @ \union {}]
      BY <1>2 DEF TypeOK
    <3>3. QED
      BY <2>4, <3>1, <3>2 DEF Changing
  <2>5. QED
    BY <1>5, <2>1, <2>2, <2>3, <2>4
<1>7. kind \in Changing => i \in Id /\ i \in 1..made'
  BY <1>3, <1>4, <1>5, <1>6 DEF Id, Changing
<1>8. made' \in 0..MaxMade /\ made <= made' /\ made' \in Nat
  BY <1>3, <1>6
<1>9. with \in Reply
  BY DEF Reply, Retryable
<1> HIDE DEF effect
<1>10. /\ pc' \in [Call -> {"idle", "sent", "answered"}] /\ pc'[c] = "answered"
       /\ reply' \in [Call -> Reply] /\ reply'[c] = with
       /\ UNCHANGED <<known, op, attempt, result, unsure>>
       /\ touched'[c] = touched[c] \union effect
       /\ Alone(c)
  BY <1>1, <1>6, <1>9, AnswerMoves
<1> USE DEF effect
<1>11. subs' \in [Id -> 0..Life]
  <2>1. 0 \in 0..Life /\ Life \in 0..Life /\ subs \in [Id -> 0..Life]
    BY <1>2, <1>3 DEF TypeOK
  <2> HIDE DEF i, kind
  <2>2. QED
    BY <1>6, <2>1
<1>12. 1..made \subseteq 1..made' /\ 0..made \subseteq 0..made'
  BY <1>3, <1>8
<1>13. touched' \in [Call -> SUBSET (1..made')]
  <2>1. touched \in [Call -> SUBSET (1..made')]
    BY <1>2, <1>12 DEF TypeOK
  <2>2. effect \subseteq 1..made'
    BY <1>7
  <2> HIDE DEF effect
  <2>3. QED
    BY <1>6, <2>1, <2>2
<1>14. known' \in SUBSET (1..made')
  BY <1>2, <1>10, <1>12 DEF TypeOK
<1>15. TypeOK'
  BY <1>2, <1>8, <1>10, <1>11, <1>13, <1>14 DEF TypeOK
<1>16. \A j \in 0..made : ~Exists(j) => ~Exists(j)'
  <2> SUFFICES ASSUME NEW j \in 0..made, ~Exists(j)
               PROVE  ~Exists(j)'
    OBVIOUS
  <2>1. CASE j = 0
    BY <2>1 DEF Exists
  <2>2. CASE j # 0
    <3>1. j \in Id /\ subs[j] = 0
      BY <1>2, <1>3, <2>2 DEF Id, TypeOK, Exists
    <3>2. kind = "register" => i # j
      BY <1>3
    <3>3. kind = "renew" => i # j
      BY <1>6
    <3>4. subs'[j] = 0
      BY <1>2, <1>5, <1>6, <3>1, <3>2, <3>3 DEF TypeOK, Changing
    <3>5. QED
      BY <3>4 DEF Exists
  <2>3. QED
    BY <2>1, <2>2
<1>17. Onward
  BY <1>10, <1>12, <1>16 DEF Onward
<1>18. kind = "delete" => ~Exists(op[c].id)'
  <2> SUFFICES ASSUME kind = "delete"
               PROVE  subs'[op[c].id] = 0
    BY <1>10 DEF Exists
  <2>1. QED
    BY <1>2, <1>5, <1>6 DEF TypeOK, Changing
<1>19. kind \in Changing => touched'[c] # {}
  BY <1>10
<1>20. ~unsure[c] => \A j, k \in touched'[c] : j = k
  BY <1>2, <1>10 DEF Fine
<1> HIDE DEF effect, i
<1>21. Fine(c)'
  BY <1>1, <1>2, <1>4, <1>10, <1>12, <1>18, <1>19, <1>20 DEF Fine, Exists
<1>22. QED
  BY <1>10, <1>15, <1>17, <1>21, OthersAreFine

(* An answer is received: the call goes on, or ends with what it means.     *)
LEMMA ReceiveKeepsIInv ==
    ASSUME IInv, NEW c \in Call, Receive(c)
    PROVE  IInv'
<1>1. /\ TypeOK /\ Fine(c) /\ pc[c] = "answered" /\ op[c] \in Op
      /\ reply[c] \in Reply /\ result[c] = "none"
  BY DEF IInv, Receive, TypeOK, Fine
<1>2. /\ unsure' = [unsure EXCEPT ![c] = @ \/ reply[c] \in {"lost", "5xx"}]
      /\ UNCHANGED <<subs, made, op, touched>>
  BY DEF Receive, graph
<1>3. /\ unsure' \in [Call -> BOOLEAN]
      /\ unsure'[c] <=> (unsure[c] \/ reply[c] \in {"lost", "5xx"})
      /\ \A q \in Call \ {c} : unsure'[q] = unsure[q]
  BY <1>1, <1>2 DEF TypeOK
<1>4. CASE reply[c] \in Retryable /\ attempt[c] < MAX_RETRIES /\ Resend(c)
  <2>1. /\ pc' = [pc EXCEPT ![c] = "sent"]
        /\ attempt' = [attempt EXCEPT ![c] = @ + 1]
        /\ reply' = [reply EXCEPT ![c] = "none"]
        /\ UNCHANGED <<result, known>>
    BY <1>4 DEF Resend, Goto
  <2>2. attempt[c] + 1 \in 0..MAX_RETRIES
    BY <1>1, <1>4, GraphConstants DEF TypeOK
  <2>3. /\ pc' \in [Call -> {"idle", "sent", "answered"}] /\ pc'[c] = "sent"
        /\ attempt' \in [Call -> 0..MAX_RETRIES]
        /\ reply' \in [Call -> Reply]
    BY <1>1, <2>1, <2>2 DEF TypeOK, Reply
  <2>4. TypeOK'
    BY <1>1, <1>2, <1>3, <2>1, <2>3 DEF TypeOK
  <2>5. Alone(c)
    BY <1>1, <1>2, <1>3, <2>1 DEF TypeOK, Alone
  <2>6. Onward
    BY <1>2, <2>1 DEF Onward, Exists
  <2>7. Fine(c)'
    BY <1>1, <1>2, <1>3, <1>4, <2>1, <2>3 DEF Fine, Retryable
  <2>8. QED
    BY <2>4, <2>5, <2>6, <2>7, OthersAreFine
<1>5. CASE /\ reply[c] \notin Retryable \/ attempt[c] >= MAX_RETRIES
           /\ End(c, Meaning(c))
           /\ known' = known \union Told(c)
  <2>1. /\ pc' = [pc EXCEPT ![c] = "idle"]
        /\ result' = [result EXCEPT ![c] = Meaning(c)]
        /\ attempt' = [attempt EXCEPT ![c] = 0]
        /\ reply' = [reply EXCEPT ![c] = "none"]
    BY <1>5 DEF End, Goto
  <2>2. /\ Meaning(c) \in Result
        /\ Meaning(c) = "done" => reply[c] = "2xx" \/ op[c].kind = "user"
        /\ Meaning(c) = "404" => reply[c] = "404"
        /\ Meaning(c) \notin {"none", "done", "unreadable"} =>
             reply[c] \notin {"2xx", "unreadable"}
    <3>1. CASE reply[c] \in Retryable
      BY <3>1 DEF Meaning, Retryable, Result
    <3>2. CASE reply[c] = "2xx"
      BY <3>2 DEF Meaning, Retryable, Result
    <3>3. CASE reply[c] = "404"
      BY <3>3 DEF Meaning, Retryable, Result
    <3>4. CASE reply[c] \in {"none", "refused", "unreadable"}
      BY <3>4 DEF Meaning, Retryable, Result
    <3>5. QED
      BY <1>1, <3>1, <3>2, <3>3, <3>4 DEF Reply
  <2>3. 0 \in 0..MAX_RETRIES
    BY GraphConstants
  <2>4. /\ pc' \in [Call -> {"idle", "sent", "answered"}] /\ pc'[c] = "idle"
        /\ result' \in [Call -> Result] /\ result'[c] = Meaning(c)
        /\ attempt' \in [Call -> 0..MAX_RETRIES]
        /\ reply' \in [Call -> Reply]
    BY <1>1, <2>1, <2>2, <2>3 DEF TypeOK, Reply
  <2>5. touched[c] \subseteq 1..made
    BY <1>1 DEF TypeOK
  <2>6. known' \in SUBSET (1..made) /\ known \subseteq known'
    BY <1>1, <1>5, <2>5 DEF TypeOK, Told
  <2>7. TypeOK'
    BY <1>1, <1>2, <1>3, <2>4, <2>6 DEF TypeOK
  <2>8. Alone(c)
    BY <1>1, <1>2, <1>3, <2>1 DEF TypeOK, Alone
  <2>9. Onward
    BY <1>2, <2>6 DEF Onward, Exists
  <2>10. reply[c] = "2xx" /\ op[c].kind = "register" /\ ~unsure[c] => touched[c] \subseteq known'
    <3> SUFFICES ASSUME reply[c] = "2xx", op[c].kind = "register", ~unsure[c]
                 PROVE  touched[c] \subseteq known'
      OBVIOUS
    <3>1. \A i, j \in touched[c] : i = j
      BY <1>1 DEF Fine
    <3>2. \A i, j \in touched[c] : j <= i
      BY <1>1, <2>5, <3>1 DEF TypeOK
    <3>3. Told(c) = touched[c]
      BY <3>2 DEF Told
    <3>4. QED
      BY <1>5, <3>3
  <2>11. op'[c].id \in 0..made' /\ op' = op /\ touched' = touched
         /\ (Exists(op[c].id)' <=> Exists(op[c].id))
    BY <1>1, <1>2 DEF Fine, Exists
  <2> HIDE DEF Meaning
  <2>12. op[c].kind \in Changing =>
           /\ Meaning(c) = "done" => touched[c] # {}
           /\ Meaning(c) = "404" \/ (Meaning(c) = "done" /\ op[c].kind = "delete")
                => ~Exists(op[c].id)
    BY <1>1, <2>2 DEF Fine, Changing
  <2>13. Meaning(c) \notin {"none", "done", "unreadable"} /\ ~unsure'[c] => touched[c] = {}
    BY <1>1, <1>3, <2>2 DEF Fine
  <2>14. Meaning(c) = "done" /\ ~unsure'[c] /\ op[c].kind = "register" =>
           touched[c] \subseteq known'
    BY <1>3, <2>2, <2>10
  <2>15. Fine(c)'
    BY <2>4, <2>11, <2>12, <2>13, <2>14 DEF Fine, Exists
  <2>16. QED
    BY <2>7, <2>8, <2>9, <2>15, OthersAreFine
<1>6. CASE Stumble(c)
  <2>1. /\ pc' = [pc EXCEPT ![c] = "idle"]
        /\ result' = [result EXCEPT ![c] = "malformed"]
        /\ attempt' = [attempt EXCEPT ![c] = 0]
        /\ reply' = [reply EXCEPT ![c] = "none"]
        /\ reply[c] \in {"5xx", "404", "refused"}
        /\ known' = known
    BY <1>6 DEF Stumble, End, Goto
  <2>2. 0 \in 0..MAX_RETRIES
    BY GraphConstants
  <2>3. /\ pc' \in [Call -> {"idle", "sent", "answered"}] /\ pc'[c] = "idle"
        /\ result' \in [Call -> Result] /\ result'[c] = "malformed"
        /\ attempt' \in [Call -> 0..MAX_RETRIES]
        /\ reply' \in [Call -> Reply]
    BY <1>1, <2>1, <2>2 DEF TypeOK, Reply, Result
  <2>4. TypeOK'
    BY <1>1, <1>2, <1>3, <2>1, <2>3 DEF TypeOK
  <2>5. Alone(c)
    BY <1>1, <1>2, <1>3, <2>1 DEF TypeOK, Alone
  <2>6. Onward
    BY <1>2, <2>1 DEF Onward, Exists
  <2>7. op'[c].id \in 0..made' /\ op' = op /\ touched' = touched
    BY <1>1, <1>2 DEF Fine
  <2>8. ~unsure'[c] => touched[c] = {}
    BY <1>1, <1>3, <2>1 DEF Fine
  <2>9. Fine(c)'
    BY <2>3, <2>7, <2>8 DEF Fine
  <2>10. QED
    BY <2>4, <2>5, <2>6, <2>9, OthersAreFine
<1>7. QED
  BY <1>4, <1>5, <1>6 DEF Receive

(* Time passes: a subscription that is gone stays gone.                     *)
LEMMA TickKeepsIInv ==
    ASSUME IInv, Tick
    PROVE  IInv'
<1>1. /\ subs' = [i \in Id |-> IF subs[i] > 0 THEN subs[i] - 1 ELSE 0]
      /\ UNCHANGED <<made, known, pc, op, attempt, reply, result, touched, unsure>>
  BY DEF Tick
<1>2. TypeOK
  BY DEF IInv
<1>3. subs' \in [Id -> 0..Life]
  <2>1. \A i \in Id : subs[i] \in 0..Life
    BY <1>2 DEF TypeOK
  <2>2. Life \in Nat
    BY GraphConstants
  <2>3. \A i \in Id : (IF subs[i] > 0 THEN subs[i] - 1 ELSE 0) \in 0..Life
    BY <2>1, <2>2
  <2>4. QED
    BY <1>1, <2>3
<1>4. TypeOK'
  BY <1>1, <1>2, <1>3 DEF TypeOK
<1>5. made \in 0..MaxMade /\ MaxMade \in Nat
  BY <1>2, GraphConstants DEF TypeOK
<1>6. \A i \in 0..made : ~Exists(i) => ~Exists(i)'
  <2> SUFFICES ASSUME NEW i \in 0..made, ~Exists(i), i # 0
               PROVE  ~(subs'[i] > 0)
    BY DEF Exists
  <2>1. i \in Id /\ ~(subs[i] > 0)
    BY <1>5 DEF Id, Exists
  <2>2. subs'[i] = 0
    BY <1>1, <2>1
  <2>3. QED
    BY <2>2
<1>7. \A c \in Call : Fine(c)'
  <2> SUFFICES ASSUME NEW c \in Call
               PROVE  Fine(c)'
    OBVIOUS
  <2>1. Fine(c) /\ op[c].id \in 0..made
    BY DEF IInv, Fine
  <2>2. ~Exists(op[c].id) => ~Exists(op[c].id)'
    BY <1>1, <1>6, <2>1 DEF Exists
  <2>3. QED
    BY <1>1, <2>1, <2>2 DEF Fine, Exists
<1>8. QED
  BY <1>4, <1>7 DEF IInv

LEMMA CrashKeepsIInv ==
    ASSUME IInv, Crash
    PROVE  IInv'
<1>1. /\ pc' = [c \in Call |-> "idle"]
      /\ result' = [c \in Call |-> "none"]
      /\ attempt' = [c \in Call |-> 0]
      /\ reply' = [c \in Call |-> "none"]
      /\ UNCHANGED <<subs, made, known, op, touched, unsure>>
  BY DEF Crash, graph
<1>2. 0 \in 0..MAX_RETRIES /\ "none" \in Result /\ "none" \in Reply
  BY GraphConstants DEF Result, Reply
<1>3. TypeOK'
  BY <1>1, <1>2 DEF IInv, TypeOK
<1>4. \A c \in Call : Fine(c)'
  BY <1>1 DEF IInv, Fine
<1>5. QED
  BY <1>3, <1>4 DEF IInv

LEMMA IInvStep == IInv /\ [Next]_vars => IInv'
<1> SUFFICES ASSUME IInv, [Next]_vars
             PROVE  IInv'
  OBVIOUS
<1>1. CASE Next
  BY <1>1, BeginKeepsIInv, ServeKeepsIInv, DeclineKeepsIInv, ReceiveKeepsIInv, TickKeepsIInv,
     CrashKeepsIInv DEF Next, Step
<1>2. CASE UNCHANGED vars
  BY <1>2 DEF vars, graph, IInv, TypeOK, Fine, Exists
<1>3. QED
  BY <1>1, <1>2

-----------------------------------------------------------------------------

(* The invariant holds in every reachable state.                            *)
THEOREM CallsInvariant == Spec => []IInv
  BY IInvInit, IInvStep, PTL DEF Spec

(* Subscriptions, calls and answers keep their types; no call makes more    *)
(* than _MAX_RETRIES attempts.                                              *)
THEOREM TypeCorrect == Spec => []TypeOK
<1>1. IInv => TypeOK
  BY DEF IInv
<1>2. QED
  BY <1>1, CallsInvariant, PTL

(* What a call reports of a subscription is so, whatever is lost, retried   *)
(* or interleaved (GraphClient._request, register_webhook, renew_webhook,   *)
(* delete_webhook).                                                         *)
THEOREM ReportsHold == Spec => []AnswersAreTrue
<1>1. IInv => AnswersAreTrue
  BY DEF IInv, Fine, AnswersAreTrue, Changing
<1>2. QED
  BY <1>1, CallsInvariant, PTL

(* A call that failed for sure left nothing behind, and one that succeeded  *)
(* without a doubt made only what it reports.                               *)
THEOREM SureFailuresAreEmpty == Spec => []FailuresHaveNoEffect
<1>1. IInv => FailuresHaveNoEffect
  BY DEF IInv, Fine, FailuresHaveNoEffect
<1>2. QED
  BY <1>1, CallsInvariant, PTL

=============================================================================
