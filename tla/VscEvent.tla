------------------------------ MODULE VscEvent ------------------------------
(***************************************************************************)
(* The events of one host.                                                 *)
(*                                                                         *)
(* An error handler of the midlayer takes an event of the pool, links it    *)
(* into event_reqQ and sleeps on it.  A thread of the target reads it       *)
(* (event_reqQ -> event_rspQ) and answers it; the answer sets the result    *)
(* and wakes the handler, which otherwise wakes up at its timeout.          *)
(* vsc_abort_all_event (detach, device reset, offline timer) unlinks and    *)
(* deletes every event under its waiter.  The commands of one host may come *)
(* from several Scsi_Hosts, so several error handlers may wait on it.       *)
(*                                                                         *)
(* An action is one section under h->lock, or one stretch of code between   *)
(* two of them in which other threads can interfere.                        *)
(***************************************************************************)
EXTENDS VscList, FiniteSets

CONSTANTS
    NrEvents,   \* VSC_DEFAULT_EVENT_NUMBER: events of the pool
    Waiters,    \* error handlers that wait for events of this host
    Aborters,   \* threads that run vsc_abort_all_event
    Readers,    \* threads of the target in read()
    Writers,    \* threads of the target in write()
    NoEvent,    \* no event
    MaxSn,      \* bound: events issued in a behaviour
    MaxFaults,  \* bound: failures of copy_to_user in a behaviour
    Timeouts    \* whether a wait may time out

Events  == 0 .. NrEvents - 1

ASSUME EventAssumption   == NrEvents \in Nat \ {0} /\ NoEvent \notin Events
ASSUME BoundAssumption   == MaxSn \in Nat /\ MaxFaults \in Nat
ASSUME TimeoutAssumption == Timeouts \in BOOLEAN

VARIABLES
    \* struct vsc_event_list, one per event; waitQ is e->wait
    stat, sn, priv, shoot, refcnt, waitQ,
    \* struct vsc_ctrl_info; attached is h->file # NULL
    event_pool_bits, event_reqQ, event_rspQ, event_sn, attached,
    \* local variables of the error handlers: position, event e, the two reads
    \* of e->event_priv
    wpc, own, first, second,
    \* of vsc_abort_all_event: position, event e, queue
    apc, atag, stage,
    \* of the target's threads: position and message
    gpc, gtag, gmsg, rpc, rmsg,
    \* the target: the messages it was given
    user,
    \* bound on the failing copies; history: the serial numbers of the events
    \* the target said were successful, those whose waiter saw no target, the
    \* serial number of each waiter's event, and whether a wait has timed out
    faults, granted, forsaken, issued, lapsed

eventVars  == <<stat, sn, priv, shoot, refcnt, waitQ>>
queueVars  == <<event_reqQ, event_rspQ>>
waiterVars == <<wpc, own, first, second>>
abortVars  == <<apc, atag, stage>>
targetVars == <<gpc, gtag, gmsg, rpc, rmsg, user>>
histVars   == <<faults, granted, forsaken, issued, lapsed>>
vars == <<eventVars, queueVars, event_pool_bits, event_sn, attached,
          waiterVars, abortVars, targetVars, histVars>>

NoMsg  == [tag |-> NoEvent, sn |-> 0]
Linked == ToSet(event_reqQ) \union ToSet(event_rspQ)

Init ==
    /\ stat   = [e \in Events |-> "INIT"]
    /\ sn     = [e \in Events |-> 0]
    /\ priv   = [e \in Events |-> "FAILED"]
    /\ shoot  = [e \in Events |-> "NOSHOOT"]
    /\ refcnt = [e \in Events |-> 0]
    /\ waitQ  = [e \in Events |-> {}]
    /\ event_pool_bits = {} /\ event_sn = 0
    /\ event_reqQ = <<>> /\ event_rspQ = <<>>
    /\ attached = TRUE
    /\ wpc    = [w \in Waiters |-> "idle"]
    /\ own    = [w \in Waiters |-> NoEvent]
    /\ first  = [w \in Waiters |-> "FAILED"]
    /\ second = [w \in Waiters |-> "FAILED"]
    /\ apc    = [a \in Aborters |-> "idle"]
    /\ atag   = [a \in Aborters |-> NoEvent]
    /\ stage  = [a \in Aborters |-> "off"]
    /\ gpc    = [r \in Readers |-> "idle"]
    /\ gtag   = [r \in Readers |-> NoEvent]
    /\ gmsg   = [r \in Readers |-> NoMsg]
    /\ rpc    = [v \in Writers |-> "idle"]
    /\ rmsg   = [v \in Writers |-> NoMsg]
    /\ user = {}
    /\ faults = 0 /\ granted = {} /\ forsaken = {}
    /\ issued = [w \in Waiters |-> 0] /\ lapsed = FALSE

(***************************************************************************)
(* Helpers.                                                                *)
(***************************************************************************)

\* mutant: the bitmap is not consulted.
FirstFree_NoBits(e) == e \in Events /\ \A f \in Events : e <= f

\* find_first_zero_bit over the pool.
FirstFree(e) == /\ e \in Events \ event_pool_bits
                /\ \A f \in Events \ event_pool_bits : e <= f

\* mutant: the event is left on event_rspQ.
RemoveEventQ_Req(e) == /\ event_reqQ' = Del(event_reqQ, e)
                       /\ UNCHANGED event_rspQ

\* remove_eventQ: the event leaves whichever queue it is on.
RemoveEventQ(e) ==
    /\ event_reqQ' = Del(event_reqQ, e)
    /\ event_rspQ' = Del(event_rspQ, e)

\* mutant: the event is freed one put late.
EventPut_Late(e) ==
    /\ refcnt' = [refcnt EXCEPT ![e] = @ - 1]
    /\ event_pool_bits' = IF refcnt[e] = 0 THEN event_pool_bits \ {e}
                                           ELSE event_pool_bits

\* vsc_event_put: the reference that brings the count to zero frees the event;
\* one put too many brings it below zero, and frees nothing.
EventPut(e) ==
    /\ refcnt' = [refcnt EXCEPT ![e] = @ - 1]
    /\ event_pool_bits' = IF refcnt[e] = 1 THEN event_pool_bits \ {e}
                                           ELSE event_pool_bits

\* The callback of both handlers for EVENT_TIMEOUT and EVENT_ABORT: without a
\* target the midlayer shall retry.
CallbackNoAnswer(w) ==
    /\ priv' = [priv EXCEPT ![own[w]] = IF attached THEN @ ELSE "SUCCESS"]
    /\ forsaken' = IF attached THEN forsaken ELSE forsaken \union {issued[w]}

\* The first half of vsc_event_del: whoever sleeps on the event is woken, and
\* the event unlinked if it is linked.
DelWake(e) ==
    /\ shoot' = [shoot EXCEPT ![e] = IF waitQ[e] # {} THEN "ABORT" ELSE @]
    /\ RemoveEventQ(e)

(***************************************************************************)
(* The error handlers: vsc_eh_abort and vsc_eh_device_reset_handler, as far *)
(* as they deal with their event.                                          *)
(***************************************************************************)

\* With the pool exhausted the handler returns at once, and nothing changes.
EventAlloc(w) ==
    /\ wpc[w] = "idle"
    /\ event_sn < MaxSn
    /\ \E e \in Events :
        /\ FirstFree(e)
        /\ event_pool_bits' = event_pool_bits \union {e}
        /\ stat'   = [stat EXCEPT ![e] = "INIT"]
        /\ sn'     = [sn EXCEPT ![e] = event_sn + 1]
        /\ priv'   = [priv EXCEPT ![e] = "NONE"]
        /\ shoot'  = [shoot EXCEPT ![e] = "NOSHOOT"]
        /\ refcnt' = [refcnt EXCEPT ![e] = 1]
        /\ waitQ'  = [waitQ EXCEPT ![e] = {}]
        /\ own'    = [own EXCEPT ![w] = e]
    /\ event_sn' = event_sn + 1
    /\ issued' = [issued EXCEPT ![w] = event_sn + 1]
    /\ wpc' = [wpc EXCEPT ![w] = "alloced"]
    /\ UNCHANGED <<queueVars, attached, first, second, abortVars, targetVars,
                   faults, granted, forsaken, lapsed>>

EventAdd(w) ==
    /\ wpc[w] = "alloced"
    /\ priv' = [priv EXCEPT ![own[w]] = "FAILED"]
    /\ event_reqQ' = AddTail(event_reqQ, own[w])
    /\ wpc' = [wpc EXCEPT ![w] = "added"]
    /\ UNCHANGED <<stat, sn, shoot, refcnt, waitQ, event_rspQ, event_pool_bits,
                   event_sn, attached, own, first, second, abortVars,
                   targetVars, histVars>>

\* vsc_event_wait_timeout takes its reference and goes to sleep, unless the
\* event has been shot already.
WaitBegin(w) ==
    /\ wpc[w] = "added"
    /\ refcnt' = [refcnt EXCEPT ![own[w]] = @ + 1]
    /\ IF shoot[own[w]] = "NOSHOOT"
       THEN /\ waitQ' = [waitQ EXCEPT ![own[w]] = @ \union {w}]
            /\ wpc' = [wpc EXCEPT ![w] = "asleep"]
       ELSE /\ wpc' = [wpc EXCEPT ![w] = "woken"]
            /\ UNCHANGED waitQ
    /\ UNCHANGED <<stat, sn, priv, shoot, queueVars, event_pool_bits, event_sn,
                   attached, own, first, second, abortVars, targetVars,
                   histVars>>

WaitShot(w) ==
    /\ wpc[w] = "asleep"
    /\ shoot[own[w]] # "NOSHOOT"
    /\ waitQ' = [waitQ EXCEPT ![own[w]] = @ \ {w}]
    /\ wpc' = [wpc EXCEPT ![w] = "woken"]
    /\ UNCHANGED <<stat, sn, priv, shoot, refcnt, queueVars, event_pool_bits,
                   event_sn, attached, own, first, second, abortVars,
                   targetVars, histVars>>

\* mutant: wait_event instead of wait_event_timeout.
WaitTimesOut_Never(w) == FALSE /\ UNCHANGED vars

WaitTimesOut(w) ==
    /\ Timeouts
    /\ wpc[w] = "asleep"
    /\ shoot[own[w]] = "NOSHOOT"
    /\ waitQ' = [waitQ EXCEPT ![own[w]] = @ \ {w}]
    /\ CallbackNoAnswer(w)
    /\ lapsed' = TRUE
    /\ wpc' = [wpc EXCEPT ![w] = "woken"]
    /\ UNCHANGED <<stat, sn, shoot, refcnt, queueVars, event_pool_bits,
                   event_sn, attached, own, first, second, abortVars,
                   targetVars, faults, granted, issued>>

\* The rest of vsc_event_wait_timeout.
WaitEnd(w) ==
    /\ wpc[w] = "woken"
    /\ IF shoot[own[w]] = "ABORT" THEN CallbackNoAnswer(w)
                                  ELSE UNCHANGED <<priv, forsaken>>
    /\ EventPut(own[w])
    /\ wpc' = [wpc EXCEPT ![w] = "waited"]
    /\ UNCHANGED <<stat, sn, shoot, waitQ, queueVars, event_sn, attached, own,
                   first, second, abortVars, targetVars, faults, granted,
                   issued, lapsed>>

\* Both handlers read e->event_priv twice: vsc_eh_abort unlinks the command
\* upon the first and returns the second, vsc_eh_device_reset_handler returns
\* the first and drains the queues upon the second.
ReadFirst(w) ==
    /\ wpc[w] = "waited"
    /\ first' = [first EXCEPT ![w] = priv[own[w]]]
    /\ wpc' = [wpc EXCEPT ![w] = "judged"]
    /\ UNCHANGED <<eventVars, queueVars, event_pool_bits, event_sn, attached,
                   own, second, abortVars, targetVars, histVars>>

ReadSecond(w) ==
    /\ wpc[w] = "judged"
    /\ second' = [second EXCEPT ![w] = priv[own[w]]]
    /\ wpc' = [wpc EXCEPT ![w] = "done"]
    /\ UNCHANGED <<eventVars, queueVars, event_pool_bits, event_sn, attached,
                   own, first, abortVars, targetVars, histVars>>

DelUnlink(w) ==
    /\ wpc[w] = "done"
    /\ DelWake(own[w])
    /\ wpc' = [wpc EXCEPT ![w] = "unlinked"]
    /\ UNCHANGED <<stat, sn, priv, refcnt, waitQ, event_pool_bits, event_sn,
                   attached, own, first, second, abortVars, targetVars,
                   histVars>>

DelPut(w) ==
    /\ wpc[w] = "unlinked"
    /\ EventPut(own[w])
    /\ wpc' = [wpc EXCEPT ![w] = "idle"]
    /\ own' = [own EXCEPT ![w] = NoEvent]
    /\ UNCHANGED <<stat, sn, priv, shoot, waitQ, queueVars, event_sn, attached,
                   first, second, abortVars, targetVars, histVars>>

(***************************************************************************)
(* The target reads and answers events.                                    *)
(***************************************************************************)

\* vsc_get_event, under the lock.
GetTake(r) ==
    /\ gpc[r] = "idle"
    /\ event_reqQ # <<>>
    /\ gtag' = [gtag EXCEPT ![r] = Head(event_reqQ)]
    /\ event_rspQ' = AddTail(event_rspQ, Head(event_reqQ))
    /\ event_reqQ' = Tail(event_reqQ)
    /\ gpc' = [gpc EXCEPT ![r] = "copy"]
    /\ UNCHANGED <<eventVars, event_pool_bits, event_sn, attached, waiterVars,
                   abortVars, gmsg, rpc, rmsg, user, histVars>>

\* Without it, the message is made of the event's fields and copied.
GetCopy(r) ==
    /\ gpc[r] = "copy"
    /\ gmsg' = [gmsg EXCEPT ![r] = [tag |-> gtag[r], sn |-> sn[gtag[r]]]]
    /\ gpc' = [gpc EXCEPT ![r] = "stamp"]
    /\ UNCHANGED <<eventVars, queueVars, event_pool_bits, event_sn, attached,
                   waiterVars, abortVars, gtag, rpc, rmsg, user, histVars>>

\* The event is marked as read, and read() returns the message.
GetStamp(r) ==
    /\ gpc[r] = "stamp"
    /\ stat' = [stat EXCEPT ![gtag[r]] = "READ_COMP"]
    /\ user' = user \union {gmsg[r]}
    /\ gpc'  = [gpc EXCEPT ![r] = "idle"]
    /\ gtag' = [gtag EXCEPT ![r] = NoEvent]
    /\ gmsg' = [gmsg EXCEPT ![r] = NoMsg]
    /\ UNCHANGED <<sn, priv, shoot, refcnt, waitQ, queueVars, event_pool_bits,
                   event_sn, attached, waiterVars, abortVars, rpc, rmsg,
                   histVars>>

\* copy_to_user fails: the event goes to the tail of event_reqQ.
GetFault(r) ==
    /\ gpc[r] = "copy"
    /\ faults < MaxFaults
    /\ faults' = faults + 1
    /\ event_reqQ' = AddTail(Del(event_reqQ, gtag[r]), gtag[r])
    /\ event_rspQ' = Del(event_rspQ, gtag[r])
    /\ gpc'  = [gpc EXCEPT ![r] = "idle"]
    /\ gtag' = [gtag EXCEPT ![r] = NoEvent]
    /\ UNCHANGED <<eventVars, event_pool_bits, event_sn, attached, waiterVars,
                   abortVars, gmsg, rpc, rmsg, user, granted, forsaken, issued,
                   lapsed>>

\* mutant: an event may be answered by the answer to another event.
Answerable_NoSn(m)   == stat[m.tag] = "READ_COMP"

\* The checks an answer passes under the lock.
Answerable(m) == stat[m.tag] = "READ_COMP" /\ sn[m.tag] = m.sn

\* vsc_response_event, under the lock.
RespondFind(v, m) ==
    /\ rpc[v] = "idle"
    /\ Answerable(m)
    /\ stat' = [stat EXCEPT ![m.tag] = "RESP"]
    /\ rmsg' = [rmsg EXCEPT ![v] = m]
    /\ rpc'  = [rpc EXCEPT ![v] = "callback"]
    /\ UNCHANGED <<sn, priv, shoot, refcnt, waitQ, queueVars, event_pool_bits,
                   event_sn, attached, waiterVars, abortVars, gpc, gtag, gmsg,
                   user, histVars>>

\* Without it, the callback for EVENT_SHOOT sets the result ...
RespondCallback(v) ==
    /\ rpc[v] = "callback"
    /\ \/ /\ priv' = [priv EXCEPT ![rmsg[v].tag] = "SUCCESS"]
          /\ granted' = granted \union {rmsg[v].sn}
       \/ /\ priv' = [priv EXCEPT ![rmsg[v].tag] = "FAILED"]
          /\ UNCHANGED granted
       \/ UNCHANGED <<priv, granted>>        \* the callback refuses the data
    /\ rpc' = [rpc EXCEPT ![v] = "shoot"]
    /\ UNCHANGED <<stat, sn, shoot, refcnt, waitQ, queueVars, event_pool_bits,
                   event_sn, attached, waiterVars, abortVars, gpc, gtag, gmsg,
                   rmsg, user, faults, forsaken, issued, lapsed>>

\* ... unless the length or the copy of the answer fails: the event has been
\* marked as answered, but nobody is woken.
RespondGarbled(v) ==
    /\ rpc[v] = "callback"
    /\ rpc'  = [rpc EXCEPT ![v] = "idle"]
    /\ rmsg' = [rmsg EXCEPT ![v] = NoMsg]
    /\ UNCHANGED <<eventVars, queueVars, event_pool_bits, event_sn, attached,
                   waiterVars, abortVars, gpc, gtag, gmsg, user, histVars>>

RespondShoot(v) ==
    /\ rpc[v] = "shoot"
    /\ shoot' = [shoot EXCEPT ![rmsg[v].tag] = "SHOOT"]
    /\ rpc'  = [rpc EXCEPT ![v] = "idle"]
    /\ rmsg' = [rmsg EXCEPT ![v] = NoMsg]
    /\ UNCHANGED <<stat, sn, priv, refcnt, waitQ, queueVars, event_pool_bits,
                   event_sn, attached, waiterVars, abortVars, gpc, gtag, gmsg,
                   user, histVars>>

(***************************************************************************)
(* vsc_abort_all_event.                                                    *)
(***************************************************************************)

StageQueue(a) == IF stage[a] = "reqQ" THEN event_reqQ ELSE event_rspQ

\* A detach forgets the target first; a device reset and the timer do not.
AbortStart(a) ==
    /\ stage[a] = "off"
    /\ stage' = [stage EXCEPT ![a] = "reqQ"]
    /\ attached' \in {attached, FALSE}
    /\ UNCHANGED <<eventVars, queueVars, event_pool_bits, event_sn, waiterVars,
                   apc, atag, targetVars, histVars>>

\* Under the lock, the first event is unlinked, ...
AbortPop(a) ==
    /\ apc[a] = "idle" /\ stage[a] # "off"
    /\ StageQueue(a) # <<>>
    /\ RemoveEventQ(Head(StageQueue(a)))
    /\ atag' = [atag EXCEPT ![a] = Head(StageQueue(a))]
    /\ apc'  = [apc EXCEPT ![a] = "popped"]
    /\ UNCHANGED <<eventVars, event_pool_bits, event_sn, attached, waiterVars,
                   stage, targetVars, histVars>>

\* ... and without it deleted.
AbortWake(a) ==
    /\ apc[a] = "popped"
    /\ DelWake(atag[a])
    /\ apc' = [apc EXCEPT ![a] = "put"]
    /\ UNCHANGED <<stat, sn, priv, refcnt, waitQ, event_pool_bits, event_sn,
                   attached, waiterVars, atag, stage, targetVars, histVars>>

AbortPut(a) ==
    /\ apc[a] = "put"
    /\ EventPut(atag[a])
    /\ apc'  = [apc EXCEPT ![a] = "idle"]
    /\ atag' = [atag EXCEPT ![a] = NoEvent]
    /\ UNCHANGED <<stat, sn, priv, shoot, waitQ, queueVars, event_sn, attached,
                   waiterVars, stage, targetVars, histVars>>

AbortNext(a) ==
    /\ apc[a] = "idle" /\ stage[a] # "off"
    /\ StageQueue(a) = <<>>
    /\ stage' = [stage EXCEPT ![a] = IF @ = "reqQ" THEN "rspQ" ELSE "off"]
    /\ UNCHANGED <<eventVars, queueVars, event_pool_bits, event_sn, attached,
                   waiterVars, apc, atag, targetVars, histVars>>

\* A target takes the host over again.
Attach ==
    /\ ~ attached
    /\ attached' = TRUE
    /\ UNCHANGED <<eventVars, queueVars, event_pool_bits, event_sn, waiterVars,
                   abortVars, targetVars, histVars>>

-----------------------------------------------------------------------------

Handle(w) == \/ EventAlloc(w) \/ EventAdd(w)
             \/ WaitBegin(w) \/ WaitShot(w) \/ WaitTimesOut(w) \/ WaitEnd(w)
             \/ ReadFirst(w) \/ ReadSecond(w) \/ DelUnlink(w) \/ DelPut(w)
Get(r)    == GetTake(r) \/ GetCopy(r) \/ GetStamp(r) \/ GetFault(r)
Answer(v) == \/ \E m \in user : RespondFind(v, m)
             \/ RespondCallback(v) \/ RespondGarbled(v) \/ RespondShoot(v)
Abort(a)  == \/ AbortStart(a) \/ AbortPop(a) \/ AbortWake(a) \/ AbortPut(a)
             \/ AbortNext(a)

Next == \/ \E w \in Waiters : Handle(w)
        \/ \E r \in Readers : Get(r)
        \/ \E v \in Writers : Answer(v)
        \/ \E a \in Aborters : Abort(a)
        \/ Attach

Spec == Init /\ [][Next]_vars

\* A handler goes on, and its timer runs out; nothing is assumed of the target
\* or of those who abort events.
FairSpec == Spec /\ \A w \in Waiters : WF_vars(Handle(w))

-----------------------------------------------------------------------------
(***************************************************************************)
(* Properties.                                                             *)
(***************************************************************************)

\* An event belongs to one error handler from alloc to del: while the handler
\* uses it, it is taken in the pool and no other handler is given it.
EventOwned == \A w \in Waiters : own[w] # NoEvent =>
    /\ own[w] \in event_pool_bits
    /\ sn[own[w]] = issued[w]
    /\ \A x \in Waiters : own[x] = own[w] => x = w

\* A linked event is one a handler is waiting for, linked once: the target is
\* never shown an event nobody waits for, and alloc never re-initialises the
\* list node of a linked event.  A read that fails to copy an event after its
\* waiter has given it up links it again; either alone does no harm.
LinkedOwned == ~ (lapsed /\ faults > 0) =>
    /\ \A e \in Linked : \E w \in Waiters : own[w] = e
    /\ NoDup(event_reqQ \o event_rspQ)

\* Events are not leaked: with no handler at work the pool is whole again, whatever
\* timed out, was answered late or twice, or was lost by a failing copy.  An abort of
\* the events puts the reference of their handlers, who put it again (AbortPut).
PoolWhole == (\A w \in Waiters : own[w] = NoEvent) /\
             (\A a \in Aborters : atag[a] = NoEvent) => event_pool_bits = {}

\* As long as no wait times out, a handler is told SUCCESS only when the target
\* said so of this very event, or when there was no target when it woke up; and
\* it is told the same twice, so that what it does with the command and what
\* it tells the midlayer agree.
Honest == ~ lapsed => \A w \in Waiters :
    /\ wpc[w] \in {"judged", "done", "unlinked"} /\ first[w] = "SUCCESS"
          => issued[w] \in granted \union forsaken
    /\ wpc[w] \in {"done", "unlinked"} => first[w] = second[w]

\* Whatever the target does, a handler that waits returns.
HandlerReturns == \A w \in Waiters : wpc[w] # "idle" ~> wpc[w] = "idle"
=============================================================================
