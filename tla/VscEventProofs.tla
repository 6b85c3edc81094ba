---------------------------- MODULE VscEventProofs ----------------------------
(***************************************************************************)
(* Who owns an event, for any pool, any number of error handlers and any     *)
(* number of threads of the target, as long as nobody aborts events.  And,   *)
(* until a wait times out, how an event is read, answered and reported to    *)
(* its handler in one round.                                               *)
(***************************************************************************)
EXTENDS VscEvent, VscListTheorems

WaiterTypes ==
    /\ wpc \in [Waiters -> {"idle", "alloced", "added", "asleep", "woken", "waited",
                            "judged", "done", "unlinked"}]
    /\ own \in [Waiters -> Events \union {NoEvent}]
    /\ issued \in [Waiters -> Nat] /\ sn \in [Events -> Nat]
    /\ refcnt \in [Events -> Int] /\ event_sn \in Nat
    /\ event_pool_bits \subseteq Events

\* The references of an event: its handler's, and that of the wait.
Refs(w) == IF wpc[w] \in {"asleep", "woken"} THEN 2 ELSE 1

\* What a handler is working on.
Owner(w) ==
    /\ own[w] # NoEvent <=> wpc[w] # "idle"
    /\ own[w] # NoEvent => /\ own[w] \in event_pool_bits
                           /\ sn[own[w]] = issued[w]
                           /\ refcnt[own[w]] = Refs(w)

Disjoint == \A w, x \in Waiters : own[w] # NoEvent /\ own[x] = own[w] => x = w
Claimed  == \A e \in event_pool_bits : \E w \in Waiters : own[w] = e

IInv == WaiterTypes /\ (\A w \in Waiters : Owner(w)) /\ Disjoint /\ Claimed

LEMMA InitInv == Init => IInv
BY EventAssumption DEF Init, IInv, WaiterTypes, Owner, Disjoint, Claimed, Events

-----------------------------------------------------------------------------

\* The target's threads, and one that attaches, leave all this alone.
ownVars == <<wpc, own, issued, sn, refcnt, event_sn, event_pool_bits>>

LEMMA TargetKeeps ==
    (\E r \in Readers : Get(r)) \/ (\E v \in Writers : Answer(v)) \/ Attach
        => UNCHANGED ownVars
<1>1. \A r \in Readers : Get(r) => UNCHANGED ownVars
  BY DEF Get, GetTake, GetCopy, GetStamp, GetFault, ownVars, eventVars, waiterVars,
     histVars
<1>2. \A v \in Writers : Answer(v) => UNCHANGED ownVars
  BY DEF Answer, RespondFind, RespondCallback, RespondGarbled, RespondShoot, ownVars,
     eventVars, waiterVars, histVars
<1>3. Attach => UNCHANGED ownVars
  BY DEF Attach, ownVars, eventVars, waiterVars, histVars
<1> QED
  BY <1>1, <1>2, <1>3

LEMMA Unchanged == IInv /\ UNCHANGED ownVars => IInv'
BY DEF ownVars, IInv, WaiterTypes, Owner, Disjoint, Claimed, Refs

-----------------------------------------------------------------------------

\* alloc hands out a free event (vsc_event_alloc).
LEMMA AllocKeeps ==
    ASSUME IInv, NEW w \in Waiters, EventAlloc(w)
    PROVE  IInv'
<1>1. PICK e \in Events \ event_pool_bits :
        /\ event_pool_bits' = event_pool_bits \union {e}
        /\ sn' = [sn EXCEPT ![e] = event_sn + 1]
        /\ refcnt' = [refcnt EXCEPT ![e] = 1]
        /\ own' = [own EXCEPT ![w] = e]
  BY DEF EventAlloc, FirstFree
<1>2. /\ wpc[w] = "idle" /\ wpc' = [wpc EXCEPT ![w] = "alloced"]
      /\ issued' = [issued EXCEPT ![w] = event_sn + 1]
      /\ event_sn' = event_sn + 1
  BY DEF EventAlloc
<1>3. WaiterTypes
  BY DEF IInv
<1>4. WaiterTypes'
  BY <1>1, <1>2, <1>3 DEF WaiterTypes
<1>5. \A x \in Waiters : own[x] # e
  BY <1>1, <1>3, EventAssumption DEF IInv, Owner, WaiterTypes
<1>6. Owner(w)'
  BY <1>1, <1>2, <1>3, EventAssumption DEF Owner, WaiterTypes, Refs
<1>7. ASSUME NEW x \in Waiters, x # w
      PROVE  Owner(x)'
  <2>1. /\ wpc'[x] = wpc[x] /\ own'[x] = own[x] /\ issued'[x] = issued[x]
    BY <1>1, <1>2, <1>3, <1>7 DEF WaiterTypes
  <2>2. own[x] # NoEvent => sn'[own[x]] = sn[own[x]] /\ refcnt'[own[x]] = refcnt[own[x]]
    BY <1>1, <1>3, <1>5 DEF WaiterTypes
  <2>3. Owner(x)
    BY DEF IInv
  <2> QED
    BY <1>1, <2>1, <2>2, <2>3 DEF Owner, Refs
<1>8. Disjoint'
  BY <1>1, <1>3, <1>5 DEF IInv, Disjoint, WaiterTypes
<1>9. Claimed'
  <2>1. own[w] = NoEvent
    BY <1>2 DEF IInv, Owner
  <2>2. own'[w] = e
    BY <1>1, <1>3 DEF WaiterTypes
  <2>3. ASSUME NEW f \in event_pool_bits
        PROVE  \E x \in Waiters : own'[x] = f
    <3>1. PICK x \in Waiters : own[x] = f
      BY DEF IInv, Claimed
    <3>2. x # w
      BY <1>3, <2>1, <3>1, EventAssumption DEF WaiterTypes
    <3> QED
      BY <1>1, <1>3, <3>1, <3>2 DEF WaiterTypes
  <2> QED
    BY <1>1, <2>2, <2>3 DEF Claimed
<1> QED
  BY <1>4, <1>6, <1>7, <1>8, <1>9 DEF IInv

\* A handler goes on with its event: all that counts is its position and the
\* references of the event.
LEMMA HandlerKeeps ==
    ASSUME IInv, NEW w \in Waiters, own[w] # NoEvent,
           UNCHANGED <<own, issued, sn, event_sn, event_pool_bits>>,
           NEW p \in {"alloced", "added", "asleep", "woken", "waited",
                      "judged", "done", "unlinked"},
           wpc' = [wpc EXCEPT ![w] = p],
           refcnt' = [refcnt EXCEPT ![own[w]] =
                         IF p \in {"asleep", "woken"} THEN 2 ELSE 1]
    PROVE  IInv'
<1>1. WaiterTypes /\ own[w] \in Events /\ Disjoint
  BY DEF IInv, WaiterTypes
<1>2. WaiterTypes'
  BY <1>1 DEF WaiterTypes
<1>3. Owner(w)'
  <2>1. Owner(w)
    BY DEF IInv
  <2> QED
    BY <1>1, <2>1 DEF Owner, Refs, WaiterTypes
<1>4. ASSUME NEW x \in Waiters, x # w
      PROVE  Owner(x)'
  <2>1. wpc'[x] = wpc[x] /\ own[x] # own[w]
    BY <1>1, <1>4 DEF WaiterTypes, Disjoint
  <2>2. own[x] # NoEvent => refcnt'[own[x]] = refcnt[own[x]]
    BY <1>1, <2>1 DEF WaiterTypes
  <2>3. Owner(x)
    BY DEF IInv
  <2> QED
    BY <2>1, <2>2, <2>3 DEF Owner, Refs
<1>5. Disjoint' /\ Claimed'
  BY DEF IInv, Disjoint, Claimed
<1> QED
  BY <1>2, <1>3, <1>4, <1>5 DEF IInv

\* The last put of a handler frees its event (vsc_event_del).
LEMMA FreeKeeps ==
    ASSUME IInv, NEW w \in Waiters, DelPut(w)
    PROVE  IInv'
<1>1. WaiterTypes /\ Owner(w)
  BY DEF IInv
<1>2. wpc[w] = "unlinked" /\ own[w] \in Events /\ refcnt[own[w]] = 1
  BY <1>1, EventAssumption DEF DelPut, WaiterTypes, Owner, Refs
<1>3. /\ wpc' = [wpc EXCEPT ![w] = "idle"]
      /\ own' = [own EXCEPT ![w] = NoEvent]
      /\ refcnt' = [refcnt EXCEPT ![own[w]] = 0]
      /\ event_pool_bits' = event_pool_bits \ {own[w]}
      /\ UNCHANGED <<issued, sn, event_sn>>
  BY <1>1, <1>2 DEF DelPut, EventPut, histVars, WaiterTypes
<1>4. WaiterTypes'
  BY <1>1, <1>2, <1>3 DEF WaiterTypes
<1>5. Owner(w)'
  BY <1>1, <1>3 DEF Owner, WaiterTypes
<1>6. ASSUME NEW x \in Waiters, x # w
      PROVE  Owner(x)'
  <2>1. own[x] # own[w]
    BY <1>2, <1>6, EventAssumption DEF IInv, Disjoint
  <2>2. wpc'[x] = wpc[x] /\ own'[x] = own[x]
    BY <1>1, <1>3, <1>6 DEF WaiterTypes
  <2>3. own[x] # NoEvent => refcnt'[own[x]] = refcnt[own[x]]
    BY <1>1, <1>3, <2>1 DEF WaiterTypes
  <2>4. Owner(x)
    BY DEF IInv
  <2> QED
    BY <1>3, <2>1, <2>2, <2>3, <2>4 DEF Owner, Refs
<1>7. Disjoint'
  BY <1>1, <1>3 DEF IInv, Disjoint, WaiterTypes
<1>8. Claimed'
  BY <1>1, <1>3 DEF IInv, Claimed, WaiterTypes
<1> QED
  BY <1>4, <1>5, <1>6, <1>7, <1>8 DEF IInv

LEMMA HandleKeeps ==
    ASSUME IInv, NEW w \in Waiters, Handle(w)
    PROVE  IInv'
<1>1. WaiterTypes /\ Owner(w)
  BY DEF IInv
<1>2. CASE EventAlloc(w)
  BY <1>2, AllocKeeps
<1>3. CASE DelPut(w)
  BY <1>3, FreeKeeps
<1>4. CASE EventAdd(w) \/ WaitShot(w) \/ WaitTimesOut(w) \/ ReadFirst(w)
           \/ ReadSecond(w) \/ DelUnlink(w)
  <2>1. UNCHANGED <<own, issued, sn, event_sn, event_pool_bits, refcnt>>
    BY <1>4 DEF EventAdd, WaitShot, WaitTimesOut, ReadFirst, ReadSecond, DelUnlink,
       eventVars, histVars
  <2>2. PICK p \in {"added", "woken", "judged", "done", "unlinked"} :
          /\ wpc' = [wpc EXCEPT ![w] = p]
          /\ wpc[w] # "idle"
          /\ p = "woken" <=> wpc[w] \in {"asleep", "woken"}
    BY <1>4 DEF EventAdd, WaitShot, WaitTimesOut, ReadFirst, ReadSecond, DelUnlink
  <2>3. own[w] # NoEvent /\ own[w] \in Events
    BY <1>1, <2>2 DEF Owner, WaiterTypes
  <2>4. refcnt[own[w]] = IF p \in {"asleep", "woken"} THEN 2 ELSE 1
    BY <1>1, <2>2, <2>3 DEF Owner, Refs
  <2>5. refcnt' = [refcnt EXCEPT ![own[w]] = IF p \in {"asleep", "woken"} THEN 2 ELSE 1]
    BY <1>1, <2>1, <2>4 DEF WaiterTypes
  <2> QED
    BY <2>1, <2>2, <2>3, <2>5, HandlerKeeps
<1>5. CASE WaitBegin(w)
  <2>1. own[w] # NoEvent /\ own[w] \in Events /\ refcnt[own[w]] = 1
    BY <1>1, <1>5 DEF WaitBegin, Owner, WaiterTypes, Refs
  <2>2. UNCHANGED <<own, issued, sn, event_sn, event_pool_bits>>
    BY <1>5 DEF WaitBegin, histVars
  <2>3. PICK p \in {"asleep", "woken"} : wpc' = [wpc EXCEPT ![w] = p]
    BY <1>5 DEF WaitBegin
  <2>4. refcnt' = [refcnt EXCEPT ![own[w]] = 2]
    BY <1>1, <1>5, <2>1 DEF WaitBegin, WaiterTypes
  <2> QED
    BY <2>1, <2>2, <2>3, <2>4, HandlerKeeps
<1>6. CASE WaitEnd(w)
  <2>1. own[w] # NoEvent /\ own[w] \in Events /\ refcnt[own[w]] = 2
    BY <1>1, <1>6 DEF WaitEnd, Owner, WaiterTypes, Refs
  <2>2. UNCHANGED <<own, issued, sn, event_sn, event_pool_bits>>
    BY <1>6, <2>1 DEF WaitEnd, EventPut
  <2>3. refcnt' = [refcnt EXCEPT ![own[w]] = 1]
    BY <1>1, <1>6, <2>1 DEF WaitEnd, EventPut, WaiterTypes
  <2>4. wpc' = [wpc EXCEPT ![w] = "waited"]
    BY <1>6 DEF WaitEnd
  <2> QED
    BY <2>1, <2>2, <2>3, <2>4, HandlerKeeps
<1> QED
  BY <1>2, <1>3, <1>4, <1>5, <1>6 DEF Handle

LEMMA StepKeeps ==
    ASSUME Aborters = {}, IInv, [Next]_vars
    PROVE  IInv'
<1>1. CASE \E w \in Waiters : Handle(w)
  BY <1>1, HandleKeeps
<1>2. CASE (\E r \in Readers : Get(r)) \/ (\E v \in Writers : Answer(v)) \/ Attach
  BY <1>2, TargetKeeps, Unchanged
<1>3. CASE UNCHANGED vars
  <2>1. UNCHANGED ownVars
    BY <1>3 DEF vars, ownVars, eventVars, waiterVars, histVars
  <2> QED
    BY <2>1, Unchanged
<1> QED
  BY <1>1, <1>2, <1>3 DEF Next

-----------------------------------------------------------------------------

\* As long as nobody aborts events, an event is its handler's from
\* vsc_event_alloc to vsc_event_del, whatever is read, answered and timed out
\* meanwhile.
THEOREM OwnedWithoutAborts == Aborters = {} => (Spec => []EventOwned)
<1> SUFFICES ASSUME Aborters = {} PROVE Spec => []EventOwned
  OBVIOUS
<1>1. IInv /\ [Next]_vars => IInv'
  BY StepKeeps
<1>2. IInv => EventOwned
  BY DEF IInv, EventOwned, Owner, Disjoint
<1> QED
  BY InitInv, <1>1, <1>2, PTL DEF Spec

\* ... and none is lost: when every handler has returned, vsc_event_put has
\* given back every event of the pool.
THEOREM NoneLost == Aborters = {} => (Spec => []PoolWhole)
<1> SUFFICES ASSUME Aborters = {} PROVE Spec => []PoolWhole
  OBVIOUS
<1>1. IInv /\ [Next]_vars => IInv'
  BY StepKeeps
<1>2. IInv => PoolWhole
  BY EventAssumption DEF IInv, PoolWhole, Claimed, WaiterTypes
<1> QED
  BY InitInv, <1>1, <1>2, PTL DEF Spec

-----------------------------------------------------------------------------
(***************************************************************************)
(* The queues, and what the target's threads hold.  As long as no wait      *)
(* times out, an event goes through one round: it is linked, read by one    *)
(* thread, answered by one thread, shot, and only then given up by its      *)
(* handler.                                                                 *)
(***************************************************************************)

Linkable == {"added", "asleep", "woken", "waited", "judged", "done"}
Over     == {"woken", "waited", "judged", "done", "unlinked"}
Results  == {"NONE", "FAILED", "SUCCESS"}

\* A reader at work has an event, and from the copy on its message.
Holding(r) == /\ gpc[r] # "idle" => gtag[r] \in Events
              /\ gpc[r] = "stamp" => gmsg[r].tag \in Events

TargetTypes ==
    /\ event_reqQ \in Seq(Events) /\ event_rspQ \in Seq(Events)
    /\ stat \in [Events -> {"INIT", "READ_COMP", "RESP"}]
    /\ shoot \in [Events -> {"NOSHOOT", "SHOOT", "ABORT"}]
    /\ priv \in [Events -> Results]
    /\ first \in [Waiters -> Results] /\ second \in [Waiters -> Results]
    /\ gpc \in [Readers -> {"idle", "copy", "stamp"}]
    /\ gtag \in [Readers -> Events \union {NoEvent}]
    /\ rpc \in [Writers -> {"idle", "callback", "shoot"}]
    /\ rmsg \in [Writers -> [tag : Events \union {NoEvent}, sn : Nat]]
    /\ gmsg \in [Readers -> [tag : Events \union {NoEvent}, sn : Nat]]
    /\ user \subseteq [tag : Events, sn : Nat]
    /\ \A x \in Readers : Holding(x)
    /\ \A x \in Writers : rpc[x] # "idle" => rmsg[x].tag \in Events
    /\ faults \in Nat

LinkedOnce ==
    /\ NoDup(event_reqQ) /\ NoDup(event_rspQ)
    /\ ToSet(event_reqQ) \intersect ToSet(event_rspQ) = {}

Wanted(e) == \E w \in Waiters : own[w] = e /\ wpc[w] \in Linkable

\* Nothing has happened to an event that waits to be read, or is not linked yet.
Fresh ==
    /\ \A e \in ToSet(event_reqQ) : stat[e] = "INIT" /\ shoot[e] = "NOSHOOT"
    /\ \A w \in Waiters : wpc[w] = "alloced" =>
           stat[own[w]] = "INIT" /\ shoot[own[w]] = "NOSHOOT"

\* An event that has been read stays linked until its answer.
ReadOut == \A e \in Events : stat[e] = "READ_COMP" =>
    e \in ToSet(event_rspQ) /\ shoot[e] = "NOSHOOT"

Reading ==
    /\ \A r \in Readers : gpc[r] # "idle" =>
          /\ gtag[r] \in ToSet(event_rspQ)
          /\ stat[gtag[r]] = "INIT" /\ shoot[gtag[r]] = "NOSHOOT"
    /\ \A r, s \in Readers :
          gpc[r] # "idle" /\ gpc[s] # "idle" /\ gtag[r] = gtag[s] => r = s

Answering ==
    /\ \A v \in Writers : rpc[v] # "idle" =>
          /\ rmsg[v].tag \in ToSet(event_rspQ)
          /\ stat[rmsg[v].tag] = "RESP" /\ shoot[rmsg[v].tag] = "NOSHOOT"
          /\ sn[rmsg[v].tag] = rmsg[v].sn
    /\ \A v, u \in Writers :
          rpc[v] # "idle" /\ rpc[u] # "idle" /\ rmsg[v].tag = rmsg[u].tag => v = u

\* A handler that has woken up has been shot.
Shot == \A w \in Waiters : wpc[w] \in Over => shoot[own[w]] # "NOSHOOT"

\* What a handler is told of its event.
Hears(w) ==
    /\ wpc[w] \notin {"idle", "alloced"} /\ priv[own[w]] = "SUCCESS"
          => issued[w] \in granted \union forsaken
    /\ wpc[w] \in {"judged", "done", "unlinked"} => first[w] = priv[own[w]]
    /\ wpc[w] \in {"done", "unlinked"} => second[w] = priv[own[w]]

Told == \A w \in Waiters : Hears(w)

Round == Fresh /\ ReadOut /\ Reading /\ Answering /\ Shot /\ Told

Links == LinkedOnce /\ \A e \in Linked : Wanted(e)

RInv == /\ IInv /\ TargetTypes
        /\ ~ (lapsed /\ faults > 0) => Links
        /\ ~ lapsed => Round

LEMMA RoundInit == Init => RInv
<1> SUFFICES ASSUME Init PROVE RInv
  OBVIOUS
<1>1. IInv
  BY InitInv
<1>2. event_reqQ = <<>> /\ event_rspQ = <<>>
  BY DEF Init
<1>3. TargetTypes
  <2>1. event_reqQ \in Seq(Events) /\ event_rspQ \in Seq(Events)
    BY <1>2, EmptySeq
  <2> QED
    BY <2>1, EventAssumption DEF Init, TargetTypes, Holding, Results, NoMsg
<1>4. Links
  BY <1>2, EmptyFacts DEF Links, LinkedOnce, Linked
<1>5. Round
  BY <1>2, EmptyFacts DEF Init, Round, Fresh, ReadOut, Reading, Answering, Shot, Told, Hears, Over
<1> QED
  BY <1>1, <1>3, <1>4, <1>5 DEF RInv

\* The variables stay in their types, whoever moves.
LEMMA TypesOfHandle ==
    ASSUME IInv, TargetTypes, NEW w \in Waiters, Handle(w)
    PROVE  TargetTypes'
<1>1. wpc[w] # "idle" => own[w] \in Events
  BY DEF IInv, Owner, WaiterTypes
<1>2. CASE EventAlloc(w)
  BY <1>2 DEF Holding, EventAlloc, TargetTypes, queueVars, targetVars, abortVars, Results
<1>3. CASE EventAdd(w)
  <2>1. event_reqQ' \in Seq(Events)
    BY <1>1, <1>3, AddTailFacts DEF EventAdd, TargetTypes
  <2> QED
    BY <1>3, <2>1 DEF Holding, EventAdd, TargetTypes, targetVars, histVars, Results
<1>4. CASE WaitBegin(w) \/ WaitShot(w)
  BY <1>4 DEF Holding, WaitBegin, WaitShot, TargetTypes, queueVars, targetVars, histVars
<1>8. CASE ReadFirst(w) \/ ReadSecond(w)
  <2>1. priv[own[w]] \in Results
    BY <1>1, <1>8 DEF ReadFirst, ReadSecond, TargetTypes
  <2> QED
    BY <1>8, <2>1 DEF Holding, ReadFirst, ReadSecond, TargetTypes, queueVars, eventVars,
       targetVars, histVars
<1>5. CASE WaitTimesOut(w) \/ WaitEnd(w)
  <2>1. priv' \in [Events -> Results]
    BY <1>1, <1>5 DEF WaitTimesOut, WaitEnd, CallbackNoAnswer, TargetTypes, Results
  <2> QED
    BY <1>5, <2>1 DEF Holding, WaitTimesOut, WaitEnd, TargetTypes, queueVars, targetVars
<1>6. CASE DelUnlink(w)
  <2>1. event_reqQ' \in Seq(Events) /\ event_rspQ' \in Seq(Events)
    BY <1>6, DelFacts DEF DelUnlink, DelWake, RemoveEventQ, TargetTypes
  <2> QED
    BY <1>6, <2>1 DEF Holding, DelUnlink, DelWake, TargetTypes, targetVars, histVars
<1>7. CASE DelPut(w)
  BY <1>7 DEF Holding, DelPut, TargetTypes, queueVars, targetVars, histVars
<1> QED
  BY <1>2, <1>3, <1>4, <1>5, <1>6, <1>7, <1>8 DEF Handle

LEMMA TypesOfGet ==
    ASSUME IInv, TargetTypes, NEW r \in Readers, Get(r)
    PROVE  TargetTypes'
<1>0. /\ gpc[r] # "idle" => gtag[r] \in Events /\ sn[gtag[r]] \in Nat
      /\ gpc[r] = "stamp" => gmsg[r].tag \in Events
      /\ gmsg[r] \in [tag : Events \union {NoEvent}, sn : Nat]
  <2>1. Holding(r)
    BY DEF TargetTypes
  <2>2. gmsg[r] \in [tag : Events \union {NoEvent}, sn : Nat]
    BY DEF TargetTypes
  <2>3. sn \in [Events -> Nat]
    BY DEF IInv, WaiterTypes
  <2> QED
    BY <2>1, <2>2, <2>3 DEF Holding
<1>1. CASE GetTake(r)
  <2>1. Head(event_reqQ) \in Events
    BY <1>1, HeadTailProperties DEF GetTake, TargetTypes
  <2>2. event_reqQ' \in Seq(Events) /\ event_rspQ' \in Seq(Events)
    BY <1>1, <2>1, AddTailFacts, TailFacts DEF GetTake, TargetTypes
  <2> QED
    BY <1>1, <2>1, <2>2 DEF Holding, GetTake, TargetTypes, eventVars, waiterVars, histVars
<1>2. CASE GetCopy(r)
  <2>1. gtag[r] \in Events /\ sn[gtag[r]] \in Nat
    BY <1>0, <1>2 DEF GetCopy
  <2> QED
    BY <1>2, <2>1 DEF Holding, GetCopy, TargetTypes, eventVars, queueVars, waiterVars, histVars
<1>3. CASE GetStamp(r)
  <2>1. gmsg[r] \in [tag : Events, sn : Nat]
    BY <1>0, <1>3 DEF GetStamp
  <2> QED
    BY <1>3, <2>1 DEF Holding, GetStamp, TargetTypes, queueVars, waiterVars, histVars, NoMsg
<1>4. CASE GetFault(r)
  <2>1. gtag[r] \in Events
    BY <1>0, <1>4 DEF GetFault
  <2>2. event_reqQ' \in Seq(Events) /\ event_rspQ' \in Seq(Events)
    BY <1>4, <2>1, AddTailFacts, DelFacts DEF GetFault, TargetTypes
  <2> QED
    BY <1>4, <2>2 DEF Holding, GetFault, TargetTypes, eventVars, waiterVars
<1> QED
  BY <1>1, <1>2, <1>3, <1>4 DEF Get

LEMMA TypesOfAnswer ==
    ASSUME IInv, TargetTypes, NEW v \in Writers, Answer(v)
    PROVE  TargetTypes'
<1>1. CASE \E m \in user : RespondFind(v, m)
  BY <1>1 DEF Holding, RespondFind, TargetTypes, queueVars, waiterVars, histVars
<1>2. CASE RespondCallback(v)
  BY <1>2 DEF Holding, RespondCallback, TargetTypes, queueVars, waiterVars, Results
<1>3. CASE RespondGarbled(v)
  BY <1>3 DEF Holding, RespondGarbled, TargetTypes, eventVars, queueVars, waiterVars, histVars, NoMsg
<1>4. CASE RespondShoot(v)
  BY <1>4 DEF Holding, RespondShoot, TargetTypes, queueVars, waiterVars, histVars, NoMsg
<1> QED
  BY <1>1, <1>2, <1>3, <1>4 DEF Answer

-----------------------------------------------------------------------------

\* add_eventQ of an event that is not on the queue.
LEMMA EventTail ==
    ASSUME NEW q \in Seq(Events), NEW e \in Events, NoDup(q), e \notin ToSet(q)
    PROVE  ToSet(AddTail(q, e)) = ToSet(q) \union {e} /\ NoDup(AddTail(q, e))
BY AddTailFacts

\* remove_eventQ, as the sets of linked events see it.
LEMMA Unlinking ==
    ASSUME TargetTypes, LinkedOnce, NEW e, RemoveEventQ(e)
    PROVE  /\ LinkedOnce'
           /\ ToSet(event_reqQ') = ToSet(event_reqQ) \ {e}
           /\ ToSet(event_rspQ') = ToSet(event_rspQ) \ {e}
<1>1. event_reqQ \in Seq(Events) /\ event_rspQ \in Seq(Events)
  BY DEF TargetTypes
<1>2. /\ NoDup(event_reqQ') /\ ToSet(event_reqQ') = ToSet(event_reqQ) \ {e}
      /\ NoDup(event_rspQ') /\ ToSet(event_rspQ') = ToSet(event_rspQ) \ {e}
  BY <1>1, DelFacts DEF RemoveEventQ, LinkedOnce
<1> QED
  BY <1>2 DEF LinkedOnce

LEMMA LinkedTypes ==
    ASSUME TargetTypes
    PROVE  ToSet(event_reqQ) \subseteq Events /\ ToSet(event_rspQ) \subseteq Events
<1>1. event_reqQ \in Seq(Events) /\ event_rspQ \in Seq(Events)
  BY DEF TargetTypes
<1> QED
  BY <1>1, RangeOfSeq, LenProperties DEF ToSet, Range

\* A handler's event before it is linked: nobody holds it.
LEMMA Apart ==
    ASSUME RInv, ~ lapsed
    PROVE  /\ \A r \in Readers : gpc[r] # "idle" => Wanted(gtag[r])
           /\ \A v \in Writers : rpc[v] # "idle" => Wanted(rmsg[v].tag)
           /\ \A e \in Events : stat[e] = "READ_COMP" => Wanted(e)
<1>1. Links /\ Round
  BY DEF RInv
<1>2. \A e \in ToSet(event_rspQ) : Wanted(e)
  BY <1>1 DEF Links, Linked
<1>3. \A r \in Readers : gpc[r] # "idle" => gtag[r] \in ToSet(event_rspQ)
  BY <1>1 DEF Round, Reading
<1>4. \A v \in Writers : rpc[v] # "idle" => rmsg[v].tag \in ToSet(event_rspQ)
  BY <1>1 DEF Round, Answering
<1>5. \A e \in Events : stat[e] = "READ_COMP" => e \in ToSet(event_rspQ)
  BY <1>1 DEF Round, ReadOut
<1> QED
  BY <1>2, <1>3, <1>4, <1>5

\* vsc_event_alloc takes an event nobody has.
LEMMA RoundOfAlloc ==
    ASSUME RInv, IInv', TargetTypes', NEW w \in Waiters, EventAlloc(w)
    PROVE  RInv'
<1>1. PICK e \in Events \ event_pool_bits :
        /\ stat' = [stat EXCEPT ![e] = "INIT"]
        /\ sn' = [sn EXCEPT ![e] = event_sn + 1]
        /\ priv' = [priv EXCEPT ![e] = "NONE"]
        /\ shoot' = [shoot EXCEPT ![e] = "NOSHOOT"]
        /\ own' = [own EXCEPT ![w] = e]
  BY DEF EventAlloc, FirstFree
<1>2. /\ wpc[w] = "idle" /\ wpc' = [wpc EXCEPT ![w] = "alloced"]
      /\ issued' = [issued EXCEPT ![w] = event_sn + 1]
      /\ UNCHANGED <<event_reqQ, event_rspQ, first, second, gpc, gtag, rpc, rmsg,
                     faults, granted, forsaken, lapsed>>
  BY DEF EventAlloc, queueVars, targetVars
<1>3. WaiterTypes /\ TargetTypes
  BY DEF RInv, IInv
<1>4. ASSUME NEW x \in Waiters
      PROVE  own[x] # e
  <2>1. Owner(x)
    BY DEF RInv, IInv
  <2> QED
    BY <1>1, <2>1, EventAssumption DEF Owner
<1>5. ~ Wanted(e)
  BY <1>4 DEF Wanted
<1>6. ASSUME NEW f, Wanted(f)
      PROVE  Wanted(f)'
  <2>1. PICK x \in Waiters : own[x] = f /\ wpc[x] \in Linkable
    BY <1>6 DEF Wanted
  <2>2. x # w
    BY <1>2, <2>1 DEF Linkable
  <2> QED
    BY <1>1, <1>2, <1>3, <2>1, <2>2 DEF Wanted, WaiterTypes
<1>7. ~ (lapsed' /\ faults' > 0) => Links'
  BY <1>2, <1>6 DEF RInv, Links, LinkedOnce, Linked
<1>8. ASSUME ~ lapsed'
      PROVE  Round'
  <2>1. Round /\ Links
    BY <1>2, <1>8 DEF RInv
  <2>2. /\ \A r \in Readers : gpc[r] # "idle" => gtag[r] # e
        /\ \A v \in Writers : rpc[v] # "idle" => rmsg[v].tag # e
    BY <1>2, <1>5, <1>8, Apart
  <2>3. \A f \in Events : f # e =>
          stat'[f] = stat[f] /\ sn'[f] = sn[f] /\ shoot'[f] = shoot[f]
    BY <1>1, <1>3 DEF WaiterTypes, TargetTypes
  <2>4. e \notin ToSet(event_reqQ) /\ e \notin ToSet(event_rspQ)
    BY <1>5, <2>1 DEF Links, Linked
  <2>5. stat'[e] = "INIT" /\ shoot'[e] = "NOSHOOT" /\ own'[w] = e
    BY <1>1, <1>3 DEF WaiterTypes, TargetTypes
  <2>6. \A x \in Waiters : x # w =>
          /\ own'[x] = own[x] /\ wpc'[x] = wpc[x] /\ issued'[x] = issued[x]
          /\ wpc[x] # "idle" => own[x] \in Events /\ own[x] # e
    <3>1. ASSUME NEW x \in Waiters, x # w
          PROVE  /\ own'[x] = own[x] /\ wpc'[x] = wpc[x] /\ issued'[x] = issued[x]
      BY <1>1, <1>2, <1>3, <3>1 DEF WaiterTypes
    <3>2. \A x \in Waiters : wpc[x] # "idle" => own[x] \in Events
      BY DEF RInv, IInv, Owner, WaiterTypes
    <3> QED
      BY <1>4, <3>1, <3>2
  <2>7. wpc'[w] = "alloced"
    BY <1>2, <1>3 DEF WaiterTypes
  <2>8. ToSet(event_reqQ) \subseteq Events /\ ToSet(event_rspQ) \subseteq Events
    BY <1>3, LinkedTypes
  <2>9. Fresh'
    BY <1>2, <2>1, <2>3, <2>4, <2>5, <2>6, <2>8 DEF Round, Fresh
  <2>10. ReadOut'
    BY <1>2, <2>1, <2>3, <2>5 DEF Round, ReadOut
  <2>11. Reading'
    BY <1>2, <2>1, <2>2, <2>3, <2>8 DEF Round, Reading
  <2>12. Answering'
    BY <1>2, <2>1, <2>2, <2>3, <2>8 DEF Round, Answering
  <2>13. Shot'
    BY <2>1, <2>3, <2>6, <2>7 DEF Round, Shot, Over
  <2>14. Told'
    <3>1. \A f \in Events : f # e => priv'[f] = priv[f]
      BY <1>1, <1>3 DEF TargetTypes
    <3> QED
      BY <1>2, <2>1, <2>6, <2>7, <3>1 DEF Round, Told, Hears
  <2> QED
    BY <2>9, <2>10, <2>11, <2>12, <2>13, <2>14 DEF Round
<1> QED
  BY <1>7, <1>8 DEF RInv

\* A handler at work has an event of its own.
LEMMA AtWork ==
    ASSUME IInv, NEW w \in Waiters, wpc[w] # "idle"
    PROVE  /\ own[w] \in Events /\ sn[own[w]] = issued[w]
           /\ \A x \in Waiters : wpc[x] # "idle" /\ x # w =>
                 own[x] \in Events /\ own[x] # own[w]
<1>1. \A x \in Waiters : wpc[x] # "idle" =>
          own[x] # NoEvent /\ own[x] \in Events /\ sn[own[x]] = issued[x]
  BY DEF IInv, Owner, WaiterTypes
<1>2. Disjoint
  BY DEF IInv
<1> QED
  BY <1>1, <1>2 DEF Disjoint

\* vsc_event_add: the event of the handler is linked nowhere yet.
LEMMA RoundOfAdd ==
    ASSUME RInv, IInv', TargetTypes', NEW w \in Waiters, EventAdd(w)
    PROVE  RInv'
<1>1. PICK e : e = own[w]
  OBVIOUS
<1>2. /\ wpc[w] = "alloced" /\ wpc' = [wpc EXCEPT ![w] = "added"]
      /\ priv' = [priv EXCEPT ![e] = "FAILED"]
      /\ event_reqQ' = AddTail(event_reqQ, e)
      /\ UNCHANGED <<stat, sn, shoot, event_rspQ, own, first, second, gpc, gtag,
                     rpc, rmsg, faults, granted, forsaken, issued, lapsed>>
  BY <1>1 DEF EventAdd, targetVars, histVars
<1>3. WaiterTypes /\ TargetTypes
  BY DEF RInv, IInv
<1>4. /\ e \in Events
      /\ \A x \in Waiters : wpc[x] # "idle" /\ x # w =>
            own[x] \in Events /\ own[x] # e
  BY <1>1, <1>2, AtWork DEF RInv
<1>5. /\ wpc'[w] = "added"
      /\ \A x \in Waiters : x # w => wpc'[x] = wpc[x]
  BY <1>2, <1>3 DEF WaiterTypes
<1>6. ~ Wanted(e)
  BY <1>2, <1>4 DEF Wanted, Linkable
<1>7. \A f : Wanted(f) => Wanted(f)'
  BY <1>2, <1>5 DEF Wanted, Linkable
<1>8. Wanted(e)'
  BY <1>1, <1>2, <1>5 DEF Wanted, Linkable
<1>9. ASSUME Links
      PROVE  Links' /\ ToSet(event_reqQ') = ToSet(event_reqQ) \union {e}
  <2>1. event_reqQ \in Seq(Events)
    BY <1>3 DEF TargetTypes
  <2>2. e \notin ToSet(event_reqQ) /\ e \notin ToSet(event_rspQ)
    BY <1>6, <1>9 DEF Links, Linked
  <2>3. /\ ToSet(event_reqQ') = ToSet(event_reqQ) \union {e}
        /\ NoDup(event_reqQ')
    <3>1. NoDup(event_reqQ)
      BY <1>9 DEF Links, LinkedOnce
    <3> QED
      BY <1>2, <1>4, <2>1, <2>2, <3>1, EventTail
  <2>4. LinkedOnce'
    BY <1>2, <1>9, <2>2, <2>3 DEF Links, LinkedOnce
  <2>5. \A f \in Linked' : Wanted(f)'
    BY <1>2, <1>7, <1>8, <1>9, <2>3 DEF Links, Linked
  <2> QED
    BY <2>3, <2>4, <2>5 DEF Links
<1>10. ~ (lapsed' /\ faults' > 0) => Links'
  BY <1>2, <1>9 DEF RInv
<1>11. ASSUME ~ lapsed'
       PROVE  Round'
  <2>1. Round /\ ToSet(event_reqQ') = ToSet(event_reqQ) \union {e}
    BY <1>2, <1>9, <1>11 DEF RInv
  <2>2. Fresh'
    BY <1>1, <1>2, <1>5, <2>1 DEF Round, Fresh
  <2>3. ReadOut' /\ Reading' /\ Answering'
    BY <1>2, <2>1 DEF Round, ReadOut, Reading, Answering
  <2>4. Shot'
    BY <1>2, <1>5, <2>1 DEF Round, Shot, Over
  <2>5. Told'
    <3>1. priv'[e] = "FAILED" /\ \A f \in Events : f # e => priv'[f] = priv[f]
      BY <1>2, <1>3, <1>4 DEF TargetTypes
    <3> QED
      BY <1>1, <1>2, <1>4, <1>5, <2>1, <3>1 DEF Round, Told, Hears
  <2> QED
    BY <2>1, <2>2, <2>3, <2>4, <2>5 DEF Round
<1> QED
  BY <1>10, <1>11 DEF RInv

\* A handler waits, wakes up and reads its result: the queues stay, and what
\* counts is that it only goes on once it has been shot.
LEMMA RoundOfWork ==
    ASSUME RInv, IInv', TargetTypes', NEW w \in Waiters, wpc[w] \in Linkable,
           NEW p \in Linkable, wpc' = [wpc EXCEPT ![w] = p],
           UNCHANGED <<stat, sn, shoot, event_reqQ, event_rspQ, own, gpc, gtag, rpc,
                       rmsg, faults>>,
           ~ lapsed' => /\ ~ lapsed
                        /\ p \in Over => shoot[own[w]] # "NOSHOOT"
                        /\ Told'
    PROVE  RInv'
<1>1. /\ wpc'[w] = p
      /\ \A x \in Waiters : x # w => wpc'[x] = wpc[x]
  BY DEF RInv, IInv, WaiterTypes
<1>2. \A f : Wanted(f) => Wanted(f)'
  BY <1>1 DEF Wanted
<1>3. lapsed => lapsed'
  OBVIOUS
<1>4. ~ (lapsed' /\ faults' > 0) => Links'
  BY <1>2, <1>3 DEF RInv, Links, LinkedOnce, Linked
<1>5. ASSUME ~ lapsed'
      PROVE  Round'
  <2>1. Round
    BY <1>5 DEF RInv
  <2>2. Fresh'
    BY <1>1, <2>1 DEF Round, Fresh, Linkable
  <2>3. ReadOut' /\ Reading' /\ Answering'
    BY <2>1 DEF Round, ReadOut, Reading, Answering
  <2>4. Shot'
    BY <1>1, <1>5, <2>1 DEF Round, Shot
  <2> QED
    BY <1>5, <2>2, <2>3, <2>4 DEF Round
<1> QED
  BY <1>4, <1>5 DEF RInv

LEMMA RoundOfWait ==
    ASSUME RInv, IInv', TargetTypes', NEW w \in Waiters,
           WaitBegin(w) \/ WaitShot(w) \/ WaitTimesOut(w)
    PROVE  RInv'
<1>1. wpc[w] \in Linkable
  BY DEF WaitBegin, WaitShot, WaitTimesOut, Linkable
<1>2. PICK p \in {"asleep", "woken"} :
          /\ wpc' = [wpc EXCEPT ![w] = p]
          /\ p = "woken" => WaitTimesOut(w) \/ shoot[own[w]] # "NOSHOOT"
  <2>1. CASE WaitBegin(w) /\ shoot[own[w]] = "NOSHOOT"
    BY <2>1 DEF WaitBegin
  <2>2. CASE WaitBegin(w) /\ shoot[own[w]] # "NOSHOOT"
    BY <2>2 DEF WaitBegin
  <2>3. CASE WaitShot(w) \/ WaitTimesOut(w)
    BY <2>3 DEF WaitShot, WaitTimesOut
  <2> QED
    BY <2>1, <2>2, <2>3
<1>3. p \in Linkable
  BY <1>2 DEF Linkable
<1>4. UNCHANGED <<stat, sn, shoot, event_reqQ, event_rspQ, own, gpc, gtag, rpc, rmsg,
                  faults>>
  BY DEF WaitBegin, WaitShot, WaitTimesOut, queueVars, targetVars, histVars
<1>5. /\ wpc'[w] = p
      /\ \A x \in Waiters : x # w => wpc'[x] = wpc[x]
  BY <1>2 DEF RInv, IInv, WaiterTypes
<1>6. ASSUME ~ lapsed'
      PROVE  ~ lapsed /\ (p \in Over => shoot[own[w]] # "NOSHOOT") /\ Told'
  <2>1. WaitBegin(w) \/ WaitShot(w)
    BY <1>6 DEF WaitTimesOut
  <2>2. UNCHANGED <<priv, first, second, issued, granted, forsaken, lapsed>>
    BY <2>1 DEF WaitBegin, WaitShot, histVars
  <2>3. Told
    BY <1>6, <2>2 DEF RInv, Round
  <2>4. Told'
    BY <1>1, <1>2, <1>4, <1>5, <2>2, <2>3 DEF Told, Hears, Linkable
  <2>5. p = "woken" => shoot[own[w]] # "NOSHOOT"
    BY <1>2, <1>6 DEF WaitTimesOut
  <2> QED
    BY <1>2, <1>6, <2>2, <2>4, <2>5 DEF Over
<1> QED
  BY <1>1, <1>2, <1>3, <1>4, <1>6, RoundOfWork

\* The last look at the event in vsc_event_wait_timeout: an aborted handler is
\* told SUCCESS only without a target.
LEMMA RoundOfWaitEnd ==
    ASSUME RInv, IInv', TargetTypes', NEW w \in Waiters, WaitEnd(w)
    PROVE  RInv'
<1>1. wpc[w] \in Linkable /\ "waited" \in Linkable
  BY DEF WaitEnd, Linkable
<1>2. wpc' = [wpc EXCEPT ![w] = "waited"]
  BY DEF WaitEnd
<1>3. UNCHANGED <<stat, sn, shoot, event_reqQ, event_rspQ, own, gpc, gtag, rpc, rmsg,
                  faults, first, second, issued, granted, lapsed>>
  BY DEF WaitEnd, queueVars, targetVars
<1>4. PICK e : e = own[w]
  OBVIOUS
<1>5. /\ e \in Events
      /\ \A x \in Waiters : wpc[x] # "idle" /\ x # w =>
            own[x] \in Events /\ own[x] # e
  BY <1>4, AtWork DEF RInv, WaitEnd
<1>6. /\ wpc'[w] = "waited"
      /\ \A x \in Waiters : x # w => wpc'[x] = wpc[x]
  BY <1>2 DEF RInv, IInv, WaiterTypes
<1>7. /\ \A f \in Events : f # e => priv'[f] = priv[f]
      /\ forsaken \subseteq forsaken'
      /\ priv'[e] = priv[e] \/ issued[w] \in forsaken'
  <2>1. CASE UNCHANGED <<priv, forsaken>>
    BY <2>1
  <2>2. CASE CallbackNoAnswer(w)
    <3>1. CASE attached
      BY <1>4, <1>5, <2>2, <3>1 DEF CallbackNoAnswer, RInv, TargetTypes
    <3>2. CASE ~ attached
      BY <1>4, <1>5, <2>2, <3>2 DEF CallbackNoAnswer, RInv, TargetTypes
    <3> QED
      BY <3>1, <3>2
  <2> QED
    BY <2>1, <2>2 DEF WaitEnd
<1>8. ASSUME ~ lapsed'
      PROVE  ~ lapsed /\ shoot[own[w]] # "NOSHOOT" /\ Told'
  <2>1. Told /\ Shot
    BY <1>3, <1>8 DEF RInv, Round
  <2>2. shoot[own[w]] # "NOSHOOT"
    BY <2>1 DEF Shot, WaitEnd, Over
  <2>3. wpc[w] = "woken"
    BY DEF WaitEnd
  <2>4. ASSUME NEW x \in Waiters
        PROVE  Hears(x)'
    <3>1. CASE x = w
      BY <1>3, <1>4, <1>6, <1>7, <2>1, <2>3, <3>1 DEF Told, Hears
    <3>2. CASE x # w
      BY <1>3, <1>4, <1>5, <1>6, <1>7, <2>1, <3>2 DEF Told, Hears
    <3> QED
      BY <3>1, <3>2
  <2> QED
    BY <1>3, <1>8, <2>2, <2>4 DEF Told
<1> QED
  BY <1>1, <1>2, <1>3, <1>8, RoundOfWork

\* The two reads of the result see the same.
LEMMA RoundOfReads ==
    ASSUME RInv, IInv', TargetTypes', NEW w \in Waiters,
           ReadFirst(w) \/ ReadSecond(w)
    PROVE  RInv'
<1>1. wpc[w] \in Linkable /\ wpc[w] \in Over
  BY DEF ReadFirst, ReadSecond, Linkable, Over
<1>2. PICK p \in {"judged", "done"} : wpc' = [wpc EXCEPT ![w] = p]
  BY DEF ReadFirst, ReadSecond
<1>3. p \in Linkable
  BY <1>2 DEF Linkable
<1>4. UNCHANGED <<stat, sn, shoot, event_reqQ, event_rspQ, own, gpc, gtag, rpc, rmsg,
                  faults, priv, issued, granted, forsaken, lapsed>>
  BY DEF ReadFirst, ReadSecond, eventVars, queueVars, targetVars, histVars
<1>5. /\ wpc'[w] = p
      /\ \A x \in Waiters : x # w => wpc'[x] = wpc[x]
  BY <1>2 DEF RInv, IInv, WaiterTypes
<1>6. /\ \A x \in Waiters : x # w => first'[x] = first[x] /\ second'[x] = second[x]
      /\ p = "judged" => first'[w] = priv[own[w]]
      /\ p = "done" => /\ wpc[w] = "judged" /\ first'[w] = first[w]
                       /\ second'[w] = priv[own[w]]
  <2>1. CASE ReadFirst(w)
    <3>1. p = "judged"
      BY <1>5, <2>1 DEF ReadFirst, RInv, IInv, WaiterTypes
    <3> QED
      BY <2>1, <3>1 DEF ReadFirst, RInv, TargetTypes
  <2>2. CASE ReadSecond(w)
    <3>1. p = "done"
      BY <1>5, <2>2 DEF ReadSecond, RInv, IInv, WaiterTypes
    <3> QED
      BY <2>2, <3>1 DEF ReadSecond, RInv, TargetTypes
  <2> QED
    BY <2>1, <2>2
<1>7. ASSUME ~ lapsed'
      PROVE  ~ lapsed /\ shoot[own[w]] # "NOSHOOT" /\ Told'
  <2>1. Told /\ Shot
    BY <1>4, <1>7 DEF RInv, Round
  <2>2. Told'
    BY <1>1, <1>2, <1>4, <1>5, <1>6, <2>1 DEF Told, Hears, Over
  <2> QED
    BY <1>1, <1>4, <1>7, <2>1, <2>2 DEF Shot
<1> QED
  BY <1>1, <1>2, <1>3, <1>4, <1>7, RoundOfWork

\* The handler unlinks its event (vsc_event_del): nobody is reading or answering
\* it any more.
LEMMA RoundOfUnlink ==
    ASSUME RInv, IInv', TargetTypes', NEW w \in Waiters, DelUnlink(w)
    PROVE  RInv'
<1>1. PICK e : e = own[w]
  OBVIOUS
<1>2. /\ wpc[w] = "done" /\ wpc' = [wpc EXCEPT ![w] = "unlinked"]
      /\ shoot' = [shoot EXCEPT ![e] = IF waitQ[e] # {} THEN "ABORT" ELSE @]
      /\ RemoveEventQ(e)
      /\ UNCHANGED <<stat, sn, priv, own, first, second, gpc, gtag, rpc, rmsg,
                     faults, granted, forsaken, issued, lapsed>>
  BY <1>1 DEF DelUnlink, DelWake, targetVars, histVars
<1>3. WaiterTypes /\ TargetTypes
  BY DEF RInv, IInv
<1>4. e \in Events
  BY <1>1, <1>2, AtWork DEF RInv
<1>5. /\ wpc'[w] = "unlinked"
      /\ \A x \in Waiters : x # w => wpc'[x] = wpc[x]
  BY <1>2, <1>3 DEF WaiterTypes
<1>6. \A f : Wanted(f) /\ f # e => Wanted(f)'
  BY <1>1, <1>2, <1>5 DEF Wanted
<1>7. Links => /\ Links' /\ ToSet(event_reqQ') = ToSet(event_reqQ) \ {e}
               /\ ToSet(event_rspQ') = ToSet(event_rspQ) \ {e}
  BY <1>2, <1>3, <1>6, Unlinking DEF Links, Linked
<1>8. ~ (lapsed' /\ faults' > 0) => Links'
  BY <1>2, <1>7 DEF RInv
<1>9. ASSUME ~ lapsed'
      PROVE  Round'
  <2>1. /\ Round /\ ToSet(event_reqQ') = ToSet(event_reqQ) \ {e}
        /\ ToSet(event_rspQ') = ToSet(event_rspQ) \ {e}
    BY <1>2, <1>7, <1>9 DEF RInv
  <2>2. shoot[e] # "NOSHOOT"
    BY <1>1, <1>2, <2>1 DEF Round, Shot, Over
  <2>3. \A f \in Events : f # e => shoot'[f] = shoot[f]
    BY <1>2, <1>3, <1>4 DEF TargetTypes
  <2>4. shoot'[e] # "NOSHOOT"
    BY <1>2, <1>3, <1>4, <2>2 DEF TargetTypes
  <2>5. ToSet(event_reqQ) \subseteq Events /\ ToSet(event_rspQ) \subseteq Events
    BY <1>3, LinkedTypes
  <2>6. \A x \in Waiters : wpc[x] # "idle" /\ x # w => own[x] \in Events /\ own[x] # e
    BY <1>1, <1>2, AtWork DEF RInv
  <2>7. Fresh'
    BY <1>2, <1>5, <2>1, <2>3, <2>5, <2>6 DEF Round, Fresh
  <2>8. ReadOut'
    BY <1>2, <2>1, <2>2, <2>3, <2>4 DEF Round, ReadOut
  <2>9. Reading'
    BY <1>2, <2>1, <2>2, <2>3, <2>5 DEF Round, Reading
  <2>10. Answering'
    BY <1>2, <2>1, <2>2, <2>3, <2>5 DEF Round, Answering
  <2>11. Shot'
    BY <1>1, <1>2, <1>5, <2>1, <2>3, <2>4, <2>6 DEF Round, Shot, Over
  <2>12. Told'
    BY <1>2, <1>5, <2>1 DEF Round, Told, Hears
  <2> QED
    BY <2>7, <2>8, <2>9, <2>10, <2>11, <2>12 DEF Round
<1> QED
  BY <1>8, <1>9 DEF RInv

\* ... and gives it back.
LEMMA RoundOfPut ==
    ASSUME RInv, IInv', TargetTypes', NEW w \in Waiters, DelPut(w)
    PROVE  RInv'
<1>1. /\ wpc[w] = "unlinked" /\ wpc' = [wpc EXCEPT ![w] = "idle"]
      /\ own' = [own EXCEPT ![w] = NoEvent]
      /\ UNCHANGED <<stat, sn, priv, shoot, event_reqQ, event_rspQ, first, second,
                     gpc, gtag, rpc, rmsg, faults, granted, forsaken, issued, lapsed>>
  BY DEF DelPut, queueVars, targetVars, histVars
<1>2. /\ wpc'[w] = "idle"
      /\ \A x \in Waiters : x # w => wpc'[x] = wpc[x] /\ own'[x] = own[x]
  BY <1>1 DEF RInv, IInv, WaiterTypes
<1>3. \A f : Wanted(f) => Wanted(f)'
  BY <1>1, <1>2 DEF Wanted, Linkable
<1>4. ~ (lapsed' /\ faults' > 0) => Links'
  BY <1>1, <1>3 DEF RInv, Links, LinkedOnce, Linked
<1>5. ASSUME ~ lapsed'
      PROVE  Round'
  <2>1. Round
    BY <1>1, <1>5 DEF RInv
  <2>2. Fresh'
    BY <1>1, <1>2, <2>1 DEF Round, Fresh
  <2>3. ReadOut' /\ Reading' /\ Answering'
    BY <1>1, <2>1 DEF Round, ReadOut, Reading, Answering
  <2>4. Shot'
    BY <1>1, <1>2, <2>1 DEF Round, Shot, Over
  <2>5. Told'
    BY <1>1, <1>2, <2>1 DEF Round, Told, Hears
  <2> QED
    BY <2>2, <2>3, <2>4, <2>5 DEF Round
<1> QED
  BY <1>4, <1>5 DEF RInv

LEMMA RoundOfHandle ==
    ASSUME RInv, NEW w \in Waiters, Handle(w)
    PROVE  RInv'
<1>1. IInv' /\ TargetTypes'
  BY HandleKeeps, TypesOfHandle DEF RInv
<1> QED
  BY <1>1, RoundOfAlloc, RoundOfAdd, RoundOfWait, RoundOfWaitEnd, RoundOfReads,
     RoundOfUnlink, RoundOfPut DEF Handle

-----------------------------------------------------------------------------

\* A thread reads the first event (vsc_get_event): no other has it.
LEMMA RoundOfTake ==
    ASSUME RInv, IInv', TargetTypes', NEW r \in Readers, GetTake(r)
    PROVE  RInv'
<1>1. PICK e : e = Head(event_reqQ)
  OBVIOUS
<1>2. /\ gpc[r] = "idle" /\ event_reqQ # <<>>
      /\ gtag' = [gtag EXCEPT ![r] = e] /\ gpc' = [gpc EXCEPT ![r] = "copy"]
      /\ event_rspQ' = AddTail(event_rspQ, e) /\ event_reqQ' = Tail(event_reqQ)
      /\ UNCHANGED <<stat, sn, priv, shoot, wpc, own, first, second, rpc, rmsg,
                     faults, granted, forsaken, issued, lapsed>>
  BY <1>1 DEF GetTake, eventVars, waiterVars, histVars
<1>3. /\ gpc'[r] = "copy" /\ gtag'[r] = e
      /\ \A s \in Readers : s # r => gpc'[s] = gpc[s] /\ gtag'[s] = gtag[s]
  BY <1>2 DEF RInv, TargetTypes
<1>4. ASSUME Links
      PROVE  /\ Links' /\ e \in ToSet(event_reqQ)
             /\ ToSet(event_reqQ') = ToSet(event_reqQ) \ {e}
             /\ ToSet(event_rspQ') = ToSet(event_rspQ) \union {e}
  <2>1. event_reqQ \in Seq(Events) /\ event_rspQ \in Seq(Events)
    BY DEF RInv, TargetTypes
  <2>2. LinkedOnce
    BY <1>4 DEF Links
  <2>3. /\ e \in ToSet(event_reqQ) /\ NoDup(event_reqQ')
        /\ ToSet(event_reqQ') = ToSet(event_reqQ) \ {e}
    BY <1>1, <1>2, <2>1, <2>2, TailFacts DEF LinkedOnce
  <2>4. e \in Events
    BY <2>3, LinkedTypes DEF RInv
  <2>5. /\ NoDup(event_rspQ')
        /\ ToSet(event_rspQ') = ToSet(event_rspQ) \union {e}
    <3>1. NoDup(event_rspQ) /\ e \notin ToSet(event_rspQ)
      BY <2>2, <2>3 DEF LinkedOnce
    <3> QED
      BY <1>2, <2>1, <2>4, <3>1, EventTail
  <2>6. LinkedOnce'
    BY <2>2, <2>3, <2>5 DEF LinkedOnce
  <2>7. \A f \in Linked' : Wanted(f)'
    BY <1>2, <1>4, <2>3, <2>5 DEF Links, Linked, Wanted
  <2> QED
    BY <2>3, <2>5, <2>6, <2>7 DEF Links
<1>5. ~ (lapsed' /\ faults' > 0) => Links'
  BY <1>2, <1>4 DEF RInv
<1>6. ASSUME ~ lapsed'
      PROVE  Round'
  <2>1. Round /\ Links
    BY <1>2, <1>6 DEF RInv
  <2>2. stat[e] = "INIT" /\ shoot[e] = "NOSHOOT"
    BY <1>4, <2>1 DEF Round, Fresh
  <2>3. e \notin ToSet(event_rspQ)
    BY <1>4, <2>1 DEF Links, LinkedOnce
  <2>4. Fresh' /\ ReadOut' /\ Answering' /\ Shot' /\ Told'
    BY <1>2, <1>4, <2>1 DEF Round, Fresh, ReadOut, Answering, Shot, Told, Hears
  <2>5. Reading'
    BY <1>2, <1>3, <1>4, <2>1, <2>2, <2>3 DEF Round, Reading
  <2> QED
    BY <2>4, <2>5 DEF Round
<1> QED
  BY <1>5, <1>6 DEF RInv

LEMMA RoundOfCopy ==
    ASSUME RInv, IInv', TargetTypes', NEW r \in Readers, GetCopy(r)
    PROVE  RInv'
<1>1. /\ gpc[r] = "copy" /\ gpc' = [gpc EXCEPT ![r] = "stamp"]
      /\ UNCHANGED <<stat, sn, priv, shoot, event_reqQ, event_rspQ, wpc, own, first,
                     second, gtag, rpc, rmsg, faults, granted, forsaken, issued, lapsed>>
  BY DEF GetCopy, eventVars, queueVars, waiterVars, histVars
<1>2. \A s \in Readers : gpc'[s] # "idle" => gpc[s] # "idle"
  BY <1>1 DEF RInv, TargetTypes
<1>3. Links => Links'
  BY <1>1 DEF Links, LinkedOnce, Linked, Wanted
<1>4. Round => Round'
  <2>1. Reading => Reading'
    BY <1>1, <1>2 DEF Reading
  <2> QED
    BY <1>1, <2>1 DEF Round, Fresh, ReadOut, Answering, Shot, Told, Hears
<1> QED
  BY <1>1, <1>3, <1>4 DEF RInv

\* The event is marked as read: from now on it may be answered.
LEMMA RoundOfStamp ==
    ASSUME RInv, IInv', TargetTypes', NEW r \in Readers, GetStamp(r)
    PROVE  RInv'
<1>1. PICK e : e = gtag[r]
  OBVIOUS
<1>2. /\ gpc[r] = "stamp" /\ gpc' = [gpc EXCEPT ![r] = "idle"]
      /\ stat' = [stat EXCEPT ![e] = "READ_COMP"]
      /\ gtag' = [gtag EXCEPT ![r] = NoEvent]
      /\ UNCHANGED <<sn, priv, shoot, event_reqQ, event_rspQ, wpc, own, first,
                     second, rpc, rmsg, faults, granted, forsaken, issued, lapsed>>
  BY <1>1 DEF GetStamp, queueVars, waiterVars, histVars
<1>3. /\ gpc'[r] = "idle"
      /\ \A s \in Readers : s # r => gpc'[s] = gpc[s] /\ gtag'[s] = gtag[s]
  BY <1>2 DEF RInv, TargetTypes
<1>4. Links => Links'
  BY <1>2 DEF Links, LinkedOnce, Linked, Wanted
<1>5. ASSUME ~ lapsed'
      PROVE  Round'
  <2>1. Round /\ Links
    BY <1>2, <1>5 DEF RInv
  <2>2. e \in ToSet(event_rspQ) /\ stat[e] = "INIT" /\ shoot[e] = "NOSHOOT"
    BY <1>1, <1>2, <2>1 DEF Round, Reading
  <2>3. ToSet(event_reqQ) \subseteq Events /\ ToSet(event_rspQ) \subseteq Events
    BY LinkedTypes DEF RInv
  <2>4. /\ stat'[e] = "READ_COMP"
        /\ \A f \in Events : f # e => stat'[f] = stat[f]
    BY <1>2, <2>2, <2>3 DEF RInv, TargetTypes
  <2>5. e \notin ToSet(event_reqQ)
    BY <2>1, <2>2 DEF Links, LinkedOnce
  <2>6. \A x \in Waiters : wpc[x] = "alloced" => own[x] \in Events /\ own[x] # e
    <3>1. PICK w \in Waiters : own[w] = e /\ wpc[w] \in Linkable
      BY <2>1, <2>2 DEF Links, Linked, Wanted
    <3> QED
      BY <3>1, AtWork DEF RInv, Linkable
  <2>7. Fresh'
    BY <1>2, <2>1, <2>3, <2>4, <2>5, <2>6 DEF Round, Fresh
  <2>8. ReadOut'
    BY <1>2, <2>1, <2>2, <2>4 DEF Round, ReadOut
  <2>9. Reading'
    BY <1>1, <1>2, <1>3, <2>1, <2>3, <2>4 DEF Round, Reading
  <2>10. Answering'
    BY <1>2, <2>1, <2>2, <2>3, <2>4 DEF Round, Answering
  <2>11. Shot' /\ Told'
    BY <1>2, <2>1 DEF Round, Shot, Told, Hears
  <2> QED
    BY <2>7, <2>8, <2>9, <2>10, <2>11 DEF Round
<1> QED
  BY <1>2, <1>4, <1>5 DEF RInv

\* A failed copy gives the event back: it is still the reader's.
LEMMA RoundOfFault ==
    ASSUME RInv, IInv', TargetTypes', NEW r \in Readers, GetFault(r)
    PROVE  RInv'
<1>1. PICK e : e = gtag[r]
  OBVIOUS
<1>2. /\ gpc[r] = "copy" /\ gpc' = [gpc EXCEPT ![r] = "idle"]
      /\ gtag' = [gtag EXCEPT ![r] = NoEvent]
      /\ event_reqQ' = AddTail(Del(event_reqQ, e), e)
      /\ event_rspQ' = Del(event_rspQ, e)
      /\ faults' = faults + 1
      /\ UNCHANGED <<stat, sn, priv, shoot, wpc, own, first, second, rpc, rmsg,
                     granted, forsaken, issued, lapsed>>
  BY <1>1 DEF GetFault, eventVars, waiterVars
<1>3. /\ gpc'[r] = "idle"
      /\ \A s \in Readers : s # r => gpc'[s] = gpc[s] /\ gtag'[s] = gtag[s]
  BY <1>2 DEF RInv, TargetTypes
<1>4. ~ (lapsed' /\ faults' > 0) => ~ lapsed
  BY <1>2 DEF RInv, TargetTypes
<1>5. ASSUME ~ lapsed
      PROVE  Links' /\ Round'
  <2>1. Round /\ Links
    BY <1>5 DEF RInv
  <2>2. e \in ToSet(event_rspQ) /\ stat[e] = "INIT" /\ shoot[e] = "NOSHOOT"
    BY <1>1, <1>2, <2>1 DEF Round, Reading
  <2>3. event_reqQ \in Seq(Events) /\ event_rspQ \in Seq(Events) /\ e \in Events
    BY <2>2, LinkedTypes DEF RInv, TargetTypes
  <2>4. LinkedOnce
    BY <2>1 DEF Links
  <2>5. Del(event_reqQ, e) = event_reqQ /\ e \notin ToSet(event_reqQ)
    <3>1. e \notin ToSet(event_reqQ)
      BY <2>2, <2>4 DEF LinkedOnce
    <3> QED
      BY <2>3, <3>1, DelFacts
  <2>6. /\ NoDup(event_reqQ')
        /\ ToSet(event_reqQ') = ToSet(event_reqQ) \union {e}
    <3>1. NoDup(event_reqQ) /\ event_reqQ' = AddTail(event_reqQ, e)
      BY <1>2, <2>4, <2>5 DEF LinkedOnce
    <3> QED
      BY <2>3, <2>5, <3>1, EventTail
  <2>7. /\ NoDup(event_rspQ')
        /\ ToSet(event_rspQ') = ToSet(event_rspQ) \ {e}
    BY <1>2, <2>3, <2>4, DelFacts DEF LinkedOnce
  <2>8. Links'
    <3>1. LinkedOnce'
      BY <2>4, <2>6, <2>7 DEF LinkedOnce
    <3>2. \A f \in Linked' : Wanted(f)'
      BY <1>2, <2>1, <2>2, <2>6, <2>7 DEF Links, Linked, Wanted
    <3> QED
      BY <3>1, <3>2 DEF Links
  <2>9. Fresh'
    BY <1>2, <2>1, <2>2, <2>6 DEF Round, Fresh
  <2>10. ReadOut'
    BY <1>2, <2>1, <2>2, <2>7 DEF Round, ReadOut
  <2>11. Reading'
    BY <1>1, <1>2, <1>3, <2>1, <2>7 DEF Round, Reading
  <2>12. Answering'
    BY <1>2, <2>1, <2>2, <2>7 DEF Round, Answering
  <2>13. Shot' /\ Told'
    BY <1>2, <2>1 DEF Round, Shot, Told, Hears
  <2> QED
    BY <2>8, <2>9, <2>10, <2>11, <2>12, <2>13 DEF Round
<1> QED
  BY <1>2, <1>4, <1>5 DEF RInv

LEMMA RoundOfGet ==
    ASSUME RInv, IInv', NEW r \in Readers, Get(r)
    PROVE  RInv'
<1>1. TargetTypes'
  BY TypesOfGet DEF RInv
<1> QED
  BY <1>1, RoundOfTake, RoundOfCopy, RoundOfStamp, RoundOfFault DEF Get

-----------------------------------------------------------------------------

\* An answer is taken once (vsc_response_event), while the handler still waits.
LEMMA RoundOfFind ==
    ASSUME RInv, IInv', TargetTypes', NEW v \in Writers, NEW m \in user,
           RespondFind(v, m)
    PROVE  RInv'
<1>1. PICK e : e = m.tag
  OBVIOUS
<1>2. /\ rpc[v] = "idle" /\ stat[e] = "READ_COMP" /\ sn[e] = m.sn
      /\ stat' = [stat EXCEPT ![e] = "RESP"]
      /\ rmsg' = [rmsg EXCEPT ![v] = m] /\ rpc' = [rpc EXCEPT ![v] = "callback"]
      /\ UNCHANGED <<sn, priv, shoot, event_reqQ, event_rspQ, wpc, own, first,
                     second, gpc, gtag, faults, granted, forsaken, issued, lapsed>>
  BY <1>1 DEF RespondFind, Answerable, queueVars, waiterVars, histVars
<1>3. /\ rpc'[v] = "callback" /\ rmsg'[v] = m
      /\ \A u \in Writers : u # v => rpc'[u] = rpc[u] /\ rmsg'[u] = rmsg[u]
  BY <1>2 DEF RInv, TargetTypes
<1>4. e \in Events
  BY <1>1 DEF RInv, TargetTypes
<1>5. Links => Links'
  BY <1>2 DEF Links, LinkedOnce, Linked, Wanted
<1>6. ASSUME ~ lapsed'
      PROVE  Round'
  <2>1. Round /\ Links
    BY <1>2, <1>6 DEF RInv
  <2>2. e \in ToSet(event_rspQ) /\ shoot[e] = "NOSHOOT"
    BY <1>2, <1>4, <2>1 DEF Round, ReadOut
  <2>3. ToSet(event_reqQ) \subseteq Events /\ ToSet(event_rspQ) \subseteq Events
    BY LinkedTypes DEF RInv
  <2>4. /\ stat'[e] = "RESP"
        /\ \A f \in Events : f # e => stat'[f] = stat[f]
    BY <1>2, <1>4 DEF RInv, TargetTypes
  <2>5. e \notin ToSet(event_reqQ)
    BY <2>1, <2>2 DEF Links, LinkedOnce
  <2>6. \A x \in Waiters : wpc[x] = "alloced" => own[x] \in Events /\ own[x] # e
    <3>1. PICK w \in Waiters : own[w] = e /\ wpc[w] \in Linkable
      BY <2>1, <2>2 DEF Links, Linked, Wanted
    <3> QED
      BY <3>1, AtWork DEF RInv, Linkable
  <2>7. Fresh'
    BY <1>2, <2>1, <2>3, <2>4, <2>5, <2>6 DEF Round, Fresh
  <2>8. ReadOut'
    BY <1>2, <2>1, <2>4 DEF Round, ReadOut
  <2>9. Reading'
    BY <1>2, <2>1, <2>3, <2>4 DEF Round, Reading
  <2>10. \A u \in Writers : u # v /\ rpc[u] # "idle" => rmsg[u].tag # e
    BY <1>2, <2>1 DEF Round, Answering
  <2>11. Answering'
    BY <1>1, <1>2, <1>3, <2>1, <2>2, <2>3, <2>4, <2>10 DEF Round, Answering
  <2>12. Shot' /\ Told'
    BY <1>2, <2>1 DEF Round, Shot, Told, Hears
  <2> QED
    BY <2>7, <2>8, <2>9, <2>11, <2>12 DEF Round
<1> QED
  BY <1>2, <1>5, <1>6 DEF RInv

\* The result is that of this very event.
LEMMA RoundOfCallback ==
    ASSUME RInv, IInv', TargetTypes', NEW v \in Writers, RespondCallback(v)
    PROVE  RInv'
<1>1. PICK e : e = rmsg[v].tag
  OBVIOUS
<1>2. /\ rpc[v] = "callback" /\ rpc' = [rpc EXCEPT ![v] = "shoot"]
      /\ UNCHANGED <<stat, sn, shoot, event_reqQ, event_rspQ, wpc, own, first,
                     second, gpc, gtag, rmsg, faults, forsaken, issued, lapsed>>
  BY DEF RespondCallback, queueVars, waiterVars
<1>3. \A u \in Writers : rpc'[u] # "idle" => rpc[u] # "idle"
  BY <1>2 DEF RInv, TargetTypes
<1>4. e \in Events
  BY <1>1, <1>2 DEF RInv, TargetTypes
<1>5. /\ granted \subseteq granted'
      /\ \A f \in Events : f # e => priv'[f] = priv[f]
      /\ priv'[e] = "SUCCESS" /\ priv[e] # "SUCCESS" => rmsg[v].sn \in granted'
  BY <1>1, <1>4 DEF RespondCallback, RInv, TargetTypes
<1>6. Links => Links'
  BY <1>2 DEF Links, LinkedOnce, Linked, Wanted
<1>7. ASSUME ~ lapsed'
      PROVE  Round'
  <2>1. Round /\ Links
    BY <1>2, <1>7 DEF RInv
  <2>2. /\ e \in ToSet(event_rspQ) /\ shoot[e] = "NOSHOOT"
        /\ sn[e] = rmsg[v].sn
    BY <1>1, <1>2, <2>1 DEF Round, Answering
  <2>3. PICK w \in Waiters : own[w] = e /\ wpc[w] \in Linkable
    BY <2>1, <2>2 DEF Links, Linked, Wanted
  <2>4. wpc[w] \in {"added", "asleep"} /\ issued[w] = rmsg[v].sn
    <3>1. wpc[w] \notin Over
      BY <2>1, <2>2, <2>3 DEF Round, Shot
    <3>2. sn[own[w]] = issued[w]
      BY <2>3, AtWork DEF RInv, Linkable
    <3> QED
      BY <2>2, <2>3, <3>1, <3>2 DEF Linkable, Over
  <2>5. \A x \in Waiters : wpc[x] # "idle" /\ x # w => own[x] \in Events /\ own[x] # e
    BY <2>3, AtWork DEF RInv, Linkable
  <2>6. Told'
    <3>1. ASSUME NEW x \in Waiters, x # w
          PROVE  Hears(x)'
      <4>1. Hears(x)
        BY <2>1 DEF Round, Told
      <4> QED
        BY <1>2, <1>5, <2>5, <3>1, <4>1 DEF Hears
    <3>2. Hears(w)'
      <4>1. Hears(w)
        BY <2>1 DEF Round, Told
      <4> QED
        BY <1>2, <1>5, <2>3, <2>4, <4>1 DEF Hears
    <3> QED
      BY <3>1, <3>2 DEF Told
  <2>7. Answering'
    BY <1>2, <1>3, <2>1 DEF Round, Answering
  <2> QED
    BY <1>2, <2>1, <2>6, <2>7 DEF Round, Fresh, ReadOut, Reading, Shot
<1> QED
  BY <1>2, <1>6, <1>7 DEF RInv

LEMMA RoundOfGarbled ==
    ASSUME RInv, IInv', TargetTypes', NEW v \in Writers, RespondGarbled(v)
    PROVE  RInv'
<1>1. /\ rpc' = [rpc EXCEPT ![v] = "idle"] /\ rmsg' = [rmsg EXCEPT ![v] = NoMsg]
      /\ UNCHANGED <<stat, sn, priv, shoot, event_reqQ, event_rspQ, wpc, own, first,
                     second, gpc, gtag, faults, granted, forsaken, issued, lapsed>>
  BY DEF RespondGarbled, eventVars, queueVars, waiterVars, histVars
<1>2. /\ rpc'[v] = "idle"
      /\ \A u \in Writers : u # v => rpc'[u] = rpc[u] /\ rmsg'[u] = rmsg[u]
  BY <1>1 DEF RInv, TargetTypes
<1>3. Links => Links'
  BY <1>1 DEF Links, LinkedOnce, Linked, Wanted
<1>4. Round => Round'
  <2>1. Answering => Answering'
    BY <1>1, <1>2 DEF Answering
  <2> QED
    BY <1>1, <2>1 DEF Round, Fresh, ReadOut, Reading, Shot, Told, Hears
<1> QED
  BY <1>1, <1>3, <1>4 DEF RInv

\* Waking the handler is the last the answer does to the event.
LEMMA RoundOfShoot ==
    ASSUME RInv, IInv', TargetTypes', NEW v \in Writers, RespondShoot(v)
    PROVE  RInv'
<1>1. PICK e : e = rmsg[v].tag
  OBVIOUS
<1>2. /\ rpc[v] = "shoot" /\ rpc' = [rpc EXCEPT ![v] = "idle"]
      /\ shoot' = [shoot EXCEPT ![e] = "SHOOT"]
      /\ rmsg' = [rmsg EXCEPT ![v] = NoMsg]
      /\ UNCHANGED <<stat, sn, priv, event_reqQ, event_rspQ, wpc, own, first,
                     second, gpc, gtag, faults, granted, forsaken, issued, lapsed>>
  BY <1>1 DEF RespondShoot, queueVars, waiterVars, histVars
<1>3. /\ rpc'[v] = "idle"
      /\ \A u \in Writers : u # v => rpc'[u] = rpc[u] /\ rmsg'[u] = rmsg[u]
  BY <1>2 DEF RInv, TargetTypes
<1>4. e \in Events
  BY <1>1, <1>2 DEF RInv, TargetTypes
<1>5. Links => Links'
  BY <1>2 DEF Links, LinkedOnce, Linked, Wanted
<1>6. ASSUME ~ lapsed'
      PROVE  Round'
  <2>1. Round /\ Links
    BY <1>2, <1>6 DEF RInv
  <2>2. e \in ToSet(event_rspQ) /\ stat[e] = "RESP"
    BY <1>1, <1>2, <2>1 DEF Round, Answering
  <2>3. ToSet(event_reqQ) \subseteq Events /\ ToSet(event_rspQ) \subseteq Events
    BY LinkedTypes DEF RInv
  <2>4. /\ shoot'[e] = "SHOOT"
        /\ \A f \in Events : f # e => shoot'[f] = shoot[f]
    BY <1>2, <1>4 DEF RInv, TargetTypes
  <2>5. \A x \in Waiters : wpc[x] # "idle" => own[x] \in Events
    BY AtWork DEF RInv
  <2>6. Fresh'
    BY <1>2, <2>1, <2>2, <2>3, <2>4, <2>5 DEF Round, Fresh
  <2>7. ReadOut'
    BY <1>2, <2>1, <2>2, <2>4 DEF Round, ReadOut
  <2>8. Reading'
    BY <1>2, <2>1, <2>2, <2>3, <2>4 DEF Round, Reading
  <2>9. \A u \in Writers : u # v /\ rpc[u] # "idle" => rmsg[u].tag # e
    BY <1>1, <1>2, <2>1 DEF Round, Answering
  <2>10. Answering'
    BY <1>2, <1>3, <2>1, <2>3, <2>4, <2>9 DEF Round, Answering
  <2>11. Shot'
    BY <1>2, <2>1, <2>4, <2>5 DEF Round, Shot, Over
  <2>12. Told'
    BY <1>2, <2>1 DEF Round, Told, Hears
  <2> QED
    BY <2>6, <2>7, <2>8, <2>10, <2>11, <2>12 DEF Round
<1> QED
  BY <1>2, <1>5, <1>6 DEF RInv

LEMMA RoundOfAnswer ==
    ASSUME RInv, IInv', NEW v \in Writers, Answer(v)
    PROVE  RInv'
<1>1. TargetTypes'
  BY TypesOfAnswer DEF RInv
<1> QED
  BY <1>1, RoundOfFind, RoundOfCallback, RoundOfGarbled, RoundOfShoot DEF Answer

LEMMA RoundOfRest ==
    ASSUME RInv, IInv', Attach \/ UNCHANGED vars
    PROVE  RInv'
<1>1. UNCHANGED <<eventVars, queueVars, waiterVars, targetVars, histVars>>
  BY DEF Attach, vars
<1>2. UNCHANGED <<stat, sn, priv, shoot, event_reqQ, event_rspQ, wpc, own, first, second,
                  gpc, gtag, gmsg, rpc, rmsg, user, faults, granted, forsaken, issued,
                  lapsed>>
  BY <1>1 DEF eventVars, queueVars, waiterVars, targetVars, histVars
<1>3. TargetTypes'
  BY <1>2 DEF RInv, TargetTypes, Holding
<1>4. Links => Links'
  BY <1>2 DEF Links, LinkedOnce, Linked, Wanted
<1>5. Round => Round'
  BY <1>2 DEF Round, Fresh, ReadOut, Reading, Answering, Shot, Told, Hears
<1> QED
  BY <1>2, <1>3, <1>4, <1>5 DEF RInv

LEMMA RoundKept ==
    ASSUME Aborters = {}, RInv, [Next]_vars
    PROVE  RInv'
<1>1. IInv'
  BY StepKeeps DEF RInv
<1>2. CASE \E w \in Waiters : Handle(w)
  BY <1>2, RoundOfHandle
<1>3. CASE \E r \in Readers : Get(r)
  BY <1>1, <1>3, RoundOfGet
<1>4. CASE \E v \in Writers : Answer(v)
  BY <1>1, <1>4, RoundOfAnswer
<1>5. CASE Attach \/ UNCHANGED vars
  BY <1>1, <1>5, RoundOfRest
<1> QED
  BY <1>2, <1>3, <1>4, <1>5 DEF Next

\* The target is never shown an event nobody waits for, and no list node is
\* linked twice, unless a wait times out in a behaviour in which a read fails to
\* copy an event (vsc_get_event gives it back after its handler deleted it).
THEOREM LinkedForWaiter == Aborters = {} => (Spec => []LinkedOwned)
<1> SUFFICES ASSUME Aborters = {} PROVE Spec => []LinkedOwned
  OBVIOUS
<1>1. RInv /\ [Next]_vars => RInv'
  BY RoundKept
<1>2. RInv => LinkedOwned
  <2>1. ASSUME RInv, Links
        PROVE  /\ \A e \in Linked : \E w \in Waiters : own[w] = e
               /\ NoDup(event_reqQ \o event_rspQ)
    <3>1. event_reqQ \in Seq(Events) /\ event_rspQ \in Seq(Events)
      BY <2>1 DEF RInv, TargetTypes
    <3>2. NoDup(event_reqQ \o event_rspQ)
      BY <2>1, <3>1, JoinFacts DEF Links, LinkedOnce
    <3> QED
      BY <2>1, <3>2 DEF Links, Wanted
  <2> QED
    BY <2>1 DEF RInv, LinkedOwned
<1> QED
  BY RoundInit, <1>1, <1>2, PTL DEF Spec

\* While no wait times out, an error handler is told SUCCESS only if the target
\* said so of this very event or there was none, and both its reads of the
\* result agree (vsc_eh_abort, vsc_eh_device_reset_handler).
THEOREM TellsTheTruth == Aborters = {} => (Spec => []Honest)
<1> SUFFICES ASSUME Aborters = {} PROVE Spec => []Honest
  OBVIOUS
<1>1. RInv /\ [Next]_vars => RInv'
  BY RoundKept
<1>2. RInv => Honest
  BY DEF RInv, Round, Told, Hears, Honest
<1> QED
  BY RoundInit, <1>1, <1>2, PTL DEF Spec
=============================================================================
