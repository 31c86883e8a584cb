---------------------------- MODULE WebhookProofs ----------------------------
(***************************************************************************)
(* Theorems about WebhookDispatch, for every set of events and handlers,   *)
(* every dedup window, every size of a batch and number of restarts.       *)
(*                                                                         *)
(* AnsweredIsAccounted is not inductive: what is answered was in a batch   *)
(* that was worked off (BatchAccounted), and what was dropped as a         *)
(* duplicate was in the dedup map (SeenAccounted).  OncePerWindow needs    *)
(* that an event with a recent task has an entry as recent (RecentIsSeen). *)
(***************************************************************************)
EXTENDS WebhookDispatch, TLAPS

Accounted(e) == burst[e] # 0 \/ why[e] # {}

Waiting(h) == {todo[h][i] : i \in DOMAIN todo[h]}

BatchAccounted == \A h \in Handler : \A e \in posted[h] : e \in Waiting(h) \/ Accounted(e)

SeenAccounted == \A e \in seen : Accounted(e)

RecentIsSeen == \A e \in Event : since[e] <= Window => e \in seen /\ age[e] <= since[e]

Accounting == TypeOK /\ BatchAccounted /\ SeenAccounted /\ AnsweredIsAccounted

Dedup == TypeOK /\ RecentIsSeen /\ OncePerWindow

-----------------------------------------------------------------------------

(* What a batch is: a sequence of events. *)
LEMMA BatchType == \A items \in Batch : items \in Seq(Event)
  BY WebhookConstants DEF Batch

(* Handling an item takes its first event, and no other, out of the batch. *)
LEMMA TailWaiting ==
    ASSUME TypeOK, NEW h \in Handler, todo[h] # <<>>, DoneWithItem(h)
    PROVE  /\ Head(todo[h]) \in Event
           /\ todo' \in [Handler -> Seq(Event)]
           /\ \A g \in Handler : \A e \in Waiting(g) :
                e \in Waiting(g)' \/ (g = h /\ e = Head(todo[h]))
<1>1. todo[h] \in Seq(Event) /\ Head(todo[h]) \in Event /\ Tail(todo[h]) \in Seq(Event)
  BY DEF TypeOK
<1>2. todo' \in [Handler -> Seq(Event)]
  BY <1>1 DEF TypeOK, DoneWithItem
<1>3. ASSUME NEW g \in Handler, NEW i \in DOMAIN todo[g]
      PROVE  todo[g][i] \in Waiting(g)' \/ (g = h /\ todo[g][i] = Head(todo[h]))
  <2>1. CASE g # h
    <3>1. todo'[g] = todo[g]
      BY <2>1 DEF DoneWithItem, TypeOK
    <3>2. QED
      BY <3>1 DEF Waiting
  <2>2. CASE g = h /\ i = 1
    BY <2>2, <1>1
  <2>3. CASE g = h /\ i # 1
    <3>1. todo'[h] = Tail(todo[h])
      BY DEF DoneWithItem, TypeOK
    <3>2. i - 1 \in DOMAIN Tail(todo[h]) /\ Tail(todo[h])[i - 1] = todo[h][i]
      BY <1>1, <2>3
    <3>3. QED
      BY <2>3, <3>1, <3>2 DEF Waiting
  <2>4. QED
    BY <2>1, <2>2, <2>3
<1>4. QED
  BY <1>1, <1>2, <1>3 DEF Waiting

(* A skip adds a reason to its event and takes none away. *)
LEMMA SkipEffect ==
    ASSUME TypeOK, NEW h \in Handler, NEW e \in Event, NEW reason \in Reasons,
           Skip(h, e, reason)
    PROVE  /\ why' \in [Event -> SUBSET Reasons]
           /\ why'[e] # {}
           /\ \A f \in Event : why[f] \subseteq why'[f]
<1>1. why' = [why EXCEPT ![e] = why[e] \union {reason}]
  BY DEF Skip
<1>2. QED
  BY <1>1 DEF TypeOK

(* Rejecting an item skips it, and may break the session. *)
LEMMA RejectEffect ==
    ASSUME NEW h \in Handler, RejectItem(h)
    PROVE  /\ \E reason \in Reasons : Skip(h, Head(todo[h]), reason)
           /\ UNCHANGED broken \/ \E b \in BOOLEAN : broken' = [broken EXCEPT ![h] = b]
           /\ UNCHANGED <<note, posted, seen, age, since, burst, crashes>>
  BY DEF RejectItem, Reasons

(* Dispatching an item finds its key, or records it and then sends or skips. *)
LEMMA DispatchEffect ==
    ASSUME NEW h \in Handler, DispatchItem(h)
    PROVE  /\ UNCHANGED why \/ \E reason \in Reasons : Skip(h, Head(todo[h]), reason)
           /\ \/ UNCHANGED <<age, since, burst>>
              \/ /\ age' = [age EXCEPT ![Head(todo[h])] = 0]
                 /\ \/ UNCHANGED <<since, burst>>
                    \/ /\ since' = [since EXCEPT ![Head(todo[h])] = 0]
                       /\ \/ burst' = [burst EXCEPT ![Head(todo[h])] = 1]
                          \/ burst' = [burst EXCEPT ![Head(todo[h])] = burst[Head(todo[h])] + 1]
           /\ UNCHANGED <<note, posted, broken, crashes>>
  BY DEF DispatchItem, Reasons

(* Dispatching counts, and counts from 1 up. *)
LEMMA DispatchBurst ==
    ASSUME TypeOK, NEW h \in Handler, Head(todo[h]) \in Event, DispatchItem(h)
    PROVE  /\ burst' \in [Event -> Nat]
           /\ \A e \in Event : burst[e] # 0 => burst'[e] # 0
<1>1. PICK d \in Event : d = Head(todo[h])
  OBVIOUS
<1>2. burst[d] \in Nat /\ burst[d] + 1 \in Nat \ {0}
  BY DEF TypeOK
<1>3. \/ UNCHANGED burst
      \/ burst' = [burst EXCEPT ![d] = 1]
      \/ burst' = [burst EXCEPT ![d] = burst[d] + 1]
  BY <1>1, DispatchEffect
<1>4. QED
  <2>1. CASE UNCHANGED burst
    BY <2>1 DEF TypeOK
  <2>2. ASSUME NEW n \in Nat \ {0}, burst' = [burst EXCEPT ![d] = n]
        PROVE  /\ burst' \in [Event -> Nat]
               /\ \A e \in Event : burst[e] # 0 => burst'[e] # 0
    BY <2>2 DEF TypeOK
  <2>3. QED
    BY <1>2, <1>3, <2>1, <2>2

(* Only a handler that was posted to has items, and it alone changes. *)
LEMMA HandlesPosted ==
    ASSUME TypeOK, NEW h \in Handler, RejectItem(h) \/ DispatchItem(h)
    PROVE  \A g \in Handler : posted'[g] = {} => todo'[g] = <<>> /\ ~broken'[g]
<1>1. posted[h] # {} /\ UNCHANGED posted
  BY DEF TypeOK, RejectItem, DispatchItem
<1>2. \A g \in Handler \ {h} : todo'[g] = todo[g] /\ broken'[g] = broken[g]
  <2>1. DoneWithItem(h)
    BY DEF RejectItem, DispatchItem, Skip
  <2>2. UNCHANGED broken \/ \E b \in BOOLEAN : broken' = [broken EXCEPT ![h] = b]
    BY RejectEffect, DispatchEffect
  <2>3. QED
    BY <2>1, <2>2 DEF TypeOK, DoneWithItem
<1>3. QED
  BY <1>1, <1>2 DEF TypeOK

(* Ages stay in their range. *)
LEMMA OlderType == \A a \in Ages : Older(a) \in Ages /\ Older(a) >= a
  BY WebhookConstants DEF Older, Ages

-----------------------------------------------------------------------------
(* Types.                                                                   *)

LEMMA TypeStep == TypeOK /\ [Next]_vars => TypeOK'
<1> SUFFICES ASSUME TypeOK, [Next]_vars
             PROVE  TypeOK'
  OBVIOUS
<1>1. ASSUME NEW e \in Event, EventHappens(e)
      PROVE  TypeOK'
  BY <1>1 DEF TypeOK, EventHappens
<1>2. ASSUME NEW h \in Handler, NEW items \in Batch, Post(h, items)
      PROVE  TypeOK'
  <2>1. items \in Seq(Event) /\ {items[i] : i \in DOMAIN items} \subseteq Event
    BY BatchType
  <2>2. QED
    <3>1. posted'[h] # {}
      BY <1>2 DEF TypeOK, Post
    <3>2. posted' \in [Handler -> SUBSET Event] /\ todo' \in [Handler -> Seq(Event)]
      BY <1>2, <2>1 DEF TypeOK, Post
    <3>3. \A g \in Handler : posted'[g] = {} => todo'[g] = <<>> /\ ~broken'[g]
      BY <1>2, <3>1 DEF TypeOK, Post
    <3>4. QED
      BY <1>2, <3>2, <3>3 DEF TypeOK, Post
<1>3. ASSUME NEW h \in Handler, RejectItem(h)
      PROVE  TypeOK'
  <2>1. DoneWithItem(h) /\ todo[h] # <<>>
    BY <1>3 DEF RejectItem, Skip
  <2>2. Head(todo[h]) \in Event /\ todo' \in [Handler -> Seq(Event)]
    BY <2>1, TailWaiting
  <2>3. broken' \in [Handler -> BOOLEAN]
    BY <1>3, RejectEffect DEF TypeOK
  <2>4. why' \in [Event -> SUBSET Reasons]
    BY <1>3, <2>2, RejectEffect, SkipEffect
  <2>5. QED
    BY <1>3, <2>1, <2>2, <2>3, <2>4, HandlesPosted, RejectEffect DEF TypeOK
<1>4. ASSUME NEW h \in Handler, DispatchItem(h)
      PROVE  TypeOK'
  <2>1. DoneWithItem(h) /\ todo[h] # <<>>
    BY <1>4 DEF DispatchItem, Skip
  <2>2. Head(todo[h]) \in Event /\ todo' \in [Handler -> Seq(Event)]
    BY <2>1, TailWaiting
  <2>3. seen' \subseteq Event
    BY <1>4, <2>2 DEF TypeOK, DispatchItem
  <2>4. age' \in [Event -> Ages] /\ since' \in [Event -> Ages]
    <3>1. 0 \in Ages
      BY WebhookConstants DEF Ages
    <3>2. QED
      BY <1>4, <2>2, <3>1, DispatchEffect DEF TypeOK
  <2>5. burst' \in [Event -> Nat]
    BY <1>4, <2>2, DispatchBurst DEF TypeOK
  <2>6. why' \in [Event -> SUBSET Reasons]
    BY <1>4, <2>2, DispatchEffect, SkipEffect DEF TypeOK
  <2>7. QED
    BY <1>4, <2>1, <2>2, <2>3, <2>4, <2>5, <2>6, HandlesPosted, DispatchEffect DEF TypeOK
<1>5. ASSUME NEW h \in Handler, Answer(h)
      PROVE  TypeOK'
  BY <1>5 DEF TypeOK, Answer
<1>6. CASE Tick
  BY <1>6, OlderType DEF TypeOK, Tick
<1>7. CASE Restart
  BY <1>7, WebhookConstants DEF TypeOK, Restart, Ages
<1>8. CASE UNCHANGED vars
  BY <1>8 DEF TypeOK, vars
<1>9. QED
  BY <1>1, <1>2, <1>3, <1>4, <1>5, <1>6, <1>7, <1>8 DEF Next, Handle

(* The variables keep their types. *)
THEOREM TypeCorrect == Spec => []TypeOK
<1>1. Init => TypeOK
  BY WebhookConstants DEF Init, TypeOK, Ages
<1>2. QED
  BY <1>1, TypeStep, PTL DEF Spec

-----------------------------------------------------------------------------
(* Nothing is lost.                                                         *)

(* An item that was worked off is accounted for, and accounts are kept. *)
LEMMA ItemStep ==
    ASSUME Accounting, NEW h \in Handler, RejectItem(h) \/ DispatchItem(h)
    PROVE  /\ todo[h] # <<>>
           /\ DoneWithItem(h)
           /\ \A e \in Event : Accounted(e) \/ e = Head(todo[h]) => Accounted(e)'
           /\ seen' \subseteq seen \union {Head(todo[h])}
           /\ Head(todo[h]) \in Event
           /\ UNCHANGED <<note, posted>>
<1>1. todo[h] # <<>> /\ DoneWithItem(h) /\ UNCHANGED <<note, posted>>
  BY DEF RejectItem, DispatchItem, Skip
<1>2. PICK d \in Event : d = Head(todo[h])
  BY <1>1, TailWaiting DEF Accounting
<1>3. CASE RejectItem(h)
  <2>1. /\ why'[d] # {}
        /\ \A e \in Event : why[e] \subseteq why'[e]
    BY <1>2, <1>3, RejectEffect, SkipEffect DEF Accounting
  <2>2. \A e \in Event : Accounted(e) \/ e = d => Accounted(e)'
    BY <1>3, <2>1, RejectEffect DEF Accounted
  <2>3. QED
    BY <1>1, <1>2, <1>3, <2>2, RejectEffect
<1>4. CASE DispatchItem(h)
  <2>1. \A e \in Event : why[e] \subseteq why'[e]
    BY <1>2, <1>4, DispatchEffect, SkipEffect DEF Accounting
  <2>2. \A e \in Event : burst[e] # 0 => burst'[e] # 0
    BY <1>2, <1>4, DispatchBurst DEF Accounting
  <2>3. Accounted(d)'
    <3>1. CASE d \in {f \in seen : Fresh(f)}
      <4>1. Accounted(d)
        BY <3>1 DEF Accounting, SeenAccounted
      <4>2. QED
        BY <2>1, <2>2, <4>1 DEF Accounted
    <3>2. CASE d \notin {f \in seen : Fresh(f)}
      <4>1. \/ \E reason \in Reasons : Skip(h, d, reason)
            \/ \E n \in {1, burst[d] + 1} : burst' = [burst EXCEPT ![d] = n]
        BY <1>2, <1>4, <3>2 DEF DispatchItem, Reasons
      <4>2. burst[d] + 1 # 0
        BY DEF Accounting, TypeOK
      <4>3. QED
        BY <4>1, <4>2, SkipEffect DEF Accounting, TypeOK, Accounted
    <3>3. QED
      BY <3>1, <3>2
  <2>4. seen' \subseteq seen \union {d}
    BY <1>2, <1>4 DEF DispatchItem
  <2>5. \A e \in Event : Accounted(e) \/ e = d => Accounted(e)'
    BY <2>1, <2>2, <2>3 DEF Accounted
  <2>6. QED
    BY <1>1, <1>2, <2>4, <2>5
<1>5. QED
  BY <1>3, <1>4

LEMMA AccountingStep == Accounting /\ [Next]_vars => Accounting'
<1> SUFFICES ASSUME Accounting, [Next]_vars
             PROVE  Accounting'
  OBVIOUS
<1>0. TypeOK'
  BY TypeStep DEF Accounting
<1>1. ASSUME NEW e \in Event, EventHappens(e)
      PROVE  Accounting'
  <2>1. BatchAccounted' /\ SeenAccounted'
    BY <1>1 DEF Accounting, EventHappens, BatchAccounted, SeenAccounted, Accounted, Waiting
  <2>2. \A f \in Event : note'[f] = "answered" => note[f] = "answered"
    BY <1>1 DEF Accounting, TypeOK, EventHappens
  <2>3. AnsweredIsAccounted'
    BY <1>1, <2>2 DEF Accounting, EventHappens, AnsweredIsAccounted
  <2>4. QED
    BY <1>0, <2>1, <2>3 DEF Accounting
<1>2. ASSUME NEW h \in Handler, NEW items \in Batch, Post(h, items)
      PROVE  Accounting'
  <2>1. posted'[h] = Waiting(h)'
    BY <1>2 DEF Post, Accounting, TypeOK, Waiting
  <2>2. \A g \in Handler \ {h} : posted'[g] = posted[g] /\ Waiting(g)' = Waiting(g)
    BY <1>2 DEF Post, Accounting, TypeOK, Waiting
  <2>3. BatchAccounted'
    BY <1>2, <2>1, <2>2 DEF Accounting, BatchAccounted, Accounted, Post
  <2>4. QED
    BY <1>0, <1>2, <2>3 DEF Accounting, Post, SeenAccounted, AnsweredIsAccounted, Accounted
<1>3. ASSUME NEW h \in Handler, RejectItem(h) \/ DispatchItem(h)
      PROVE  Accounting'
  <2>1. BatchAccounted'
    <3> SUFFICES ASSUME NEW g \in Handler, NEW e \in posted'[g]
                 PROVE  e \in Waiting(g)' \/ Accounted(e)'
      BY DEF BatchAccounted
    <3>1. e \in posted[g] /\ e \in Event
      BY <1>3, ItemStep DEF Accounting, TypeOK
    <3>2. CASE e \in Waiting(g)
      <4>1. e \in Waiting(g)' \/ e = Head(todo[h])
        BY <1>3, <3>2, ItemStep, TailWaiting DEF Accounting
      <4>2. QED
        BY <1>3, <4>1, ItemStep
    <3>3. CASE Accounted(e)
      BY <1>3, <3>1, <3>3, ItemStep
    <3>4. QED
      BY <3>1, <3>2, <3>3 DEF Accounting, BatchAccounted
  <2>2. SeenAccounted'
    <3>1. \A e \in seen : Accounted(e)'
      BY <1>3, ItemStep DEF Accounting, SeenAccounted, TypeOK
    <3>2. QED
      BY <1>3, <3>1, ItemStep DEF SeenAccounted
  <2>3. AnsweredIsAccounted'
    BY <1>3, ItemStep DEF Accounting, AnsweredIsAccounted, Accounted
  <2>4. QED
    BY <1>0, <2>1, <2>2, <2>3 DEF Accounting
<1>4. ASSUME NEW h \in Handler, Answer(h)
      PROVE  Accounting'
  <2>1. \A e \in posted[h] : Accounted(e)
    BY <1>4 DEF Accounting, BatchAccounted, Waiting, Answer
  <2>2. BatchAccounted'
    BY <1>4 DEF Accounting, BatchAccounted, Waiting, Answer, TypeOK, Accounted
  <2>3. AnsweredIsAccounted'
    BY <1>4, <2>1 DEF Accounting, AnsweredIsAccounted, Answer, Accounted
  <2>4. QED
    BY <1>0, <1>4, <2>2, <2>3 DEF Accounting, SeenAccounted, Answer, Accounted
<1>5. CASE Tick
  BY <1>0, <1>5 DEF Accounting, Tick, BatchAccounted, SeenAccounted,
       AnsweredIsAccounted, Accounted, Waiting
<1>6. CASE Restart
  BY <1>0, <1>6 DEF Accounting, Restart, BatchAccounted, SeenAccounted,
       AnsweredIsAccounted, Accounted
<1>7. CASE UNCHANGED vars
  BY <1>0, <1>7 DEF Accounting, vars, BatchAccounted, SeenAccounted,
       AnsweredIsAccounted, Accounted, Waiting
<1>8. QED
  BY <1>1, <1>2, <1>3, <1>4, <1>5, <1>6, <1>7 DEF Next, Handle

(* Graph never hears 200 for an event that was neither dispatched nor       *)
(* skipped for a reason of its batch.                                       *)
THEOREM NothingIsLost == Spec => []AnsweredIsAccounted
<1>1. Init => Accounting
  <2>1. Init => TypeOK
    BY WebhookConstants DEF Init, TypeOK, Ages
  <2>2. QED
    BY <2>1 DEF Init, Accounting, BatchAccounted, SeenAccounted, AnsweredIsAccounted
<1>2. Accounting => AnsweredIsAccounted
  BY DEF Accounting
<1>3. QED
  BY <1>1, <1>2, AccountingStep, PTL DEF Spec

-----------------------------------------------------------------------------
(* Nothing is sent twice within a window.                                   *)

LEMMA DedupStep == Dedup /\ [Next]_vars => Dedup'
<1> SUFFICES ASSUME Dedup, [Next]_vars
             PROVE  Dedup'
  OBVIOUS
<1>0. TypeOK'
  BY TypeStep DEF Dedup
<1>1. CASE UNCHANGED <<seen, age, since, burst>>
  BY <1>0, <1>1 DEF Dedup, RecentIsSeen, OncePerWindow
<1>2. ASSUME NEW h \in Handler, DispatchItem(h)
      PROVE  Dedup'
  <2> DEFINE e == Head(todo[h])
             kept == {f \in seen : Fresh(f)}
  <2>1. e \in Event
    BY <1>2, TailWaiting DEF DispatchItem, Skip, Dedup
  <2>2. \A f \in Event : since[f] <= Window => f \in kept
    BY WebhookConstants DEF Dedup, RecentIsSeen, Fresh, TypeOK, Ages
  <2>3. CASE e \in kept
    <3>1. seen' = kept /\ UNCHANGED <<age, since, burst>>
      BY <1>2, <2>3 DEF DispatchItem
    <3>2. QED
      BY <1>0, <2>2, <3>1 DEF Dedup, RecentIsSeen, OncePerWindow
  <2>4. CASE e \notin kept
    <3>1. /\ seen' = kept \union {e}
          /\ age' = [age EXCEPT ![e] = 0]
          /\ \/ since' = [since EXCEPT ![e] = 0] /\ burst' = [burst EXCEPT ![e] = 1]
             \/ UNCHANGED <<since, burst>>
      BY <1>2, <2>1, <2>2, <2>4 DEF DispatchItem, Dedup, TypeOK
    <3>2. RecentIsSeen'
      BY <2>1, <2>2, <2>4, <3>1, WebhookConstants DEF Dedup, RecentIsSeen, TypeOK, Ages
    <3>3. OncePerWindow'
      <4>1. CASE UNCHANGED burst
        BY <4>1 DEF Dedup, OncePerWindow
      <4>2. CASE burst' = [burst EXCEPT ![e] = 1]
        BY <2>1, <4>2 DEF Dedup, OncePerWindow, TypeOK
      <4>3. QED
        BY <3>1, <4>1, <4>2
    <3>4. QED
      BY <1>0, <3>2, <3>3 DEF Dedup
  <2>5. QED
    BY <2>3, <2>4
<1>3. CASE Tick
  <2>1. \A f \in Event : /\ age'[f] = Older(age[f])
                         /\ since'[f] = Older(since[f])
    BY <1>3 DEF Tick
  <2>2. RecentIsSeen'
    BY <1>3, <2>1, WebhookConstants DEF Tick, Older, Dedup, RecentIsSeen, TypeOK, Ages
  <2>3. QED
    BY <1>0, <1>3, <2>2 DEF Tick, Dedup, OncePerWindow
<1>4. CASE Restart
  BY <1>0, <1>4, WebhookConstants DEF Restart, Dedup, RecentIsSeen, OncePerWindow, TypeOK, Ages
<1>5. QED
  BY <1>1, <1>2, <1>3, <1>4
     DEF Next, vars, EventHappens, Post, Handle, RejectItem, Answer

(* While a process lives, it sends an event's task once per dedup window.   *)
THEOREM SentOncePerWindow == Spec => []OncePerWindow
<1>1. Init => Dedup
  <2>1. Init => TypeOK
    BY WebhookConstants DEF Init, TypeOK, Ages
  <2>2. QED
    BY <2>1, WebhookConstants DEF Init, Dedup, RecentIsSeen, OncePerWindow
<1>2. Dedup => OncePerWindow
  BY DEF Dedup
<1>3. QED
  BY <1>1, <1>2, DedupStep, PTL DEF Spec

=============================================================================
