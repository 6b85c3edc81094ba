------------------------------- MODULE VscRead -------------------------------
(***************************************************************************)
(* Sleeping and waking on the queue_wait of one host: threads of the target *)
(* block in read() or poll() until there is a command or an event; those    *)
(* who queue one, detach the host or close the file wake them.              *)
(*                                                                         *)
(* A sleeper tests for work without h->lock, between putting itself on the  *)
(* wait queue and going to sleep; a waker looks at the wait queue after it  *)
(* has queued its work.  Commands and events are counted here: what becomes *)
(* of them is VscCmd and VscEvent.                                          *)
(***************************************************************************)
EXTENDS Naturals, FiniteSets

CONSTANTS
    Readers,    \* threads that read() and block
    Pollers,    \* threads that poll(), and read() without blocking
    Producers,  \* threads that queue commands and events
    MaxBatch,   \* MAX_BATCH_SCSI_CMD_COUNT
    MaxQueued   \* bound: commands and events queued at a time

ASSUME BoundAssumption  == MaxBatch \in Nat \ {0} /\ MaxQueued \in Nat
ASSUME ThreadAssumption == Readers \cap Pollers = {}

Threads == Readers \union Pollers

VARIABLES
    cmpQ, eventQ,   \* lengths of cmpQ and event_reqQ
    wakeup,         \* wakeup_pid
    queue_wait,     \* who is on the wait queue
    triggered,      \* the pollers that have been woken
    pc,             \* position of each reading or polling thread
    batch,          \* the commands each has taken and not yet copied
    ppc,            \* position of each producer
    dpc, fpc,       \* of a thread that detaches, of one that closes the file
    returned        \* history: a failed read gave commands or an event back

vars == <<cmpQ, eventQ, wakeup, queue_wait, triggered, pc, batch, ppc, dpc,
          fpc, returned>>

Init == /\ cmpQ = 0 /\ eventQ = 0 /\ wakeup = FALSE
        /\ queue_wait = {} /\ triggered = {}
        /\ pc = [r \in Threads |-> "out"]
        /\ batch = [r \in Threads |-> 0]
        /\ ppc = [p \in Producers |-> "idle"]
        /\ dpc = "idle" /\ fpc = "idle"
        /\ returned = FALSE

Work == cmpQ > 0 \/ eventQ > 0

Goto(r, p) == pc' = [pc EXCEPT ![r] = p]

workVars == <<cmpQ, eventQ, batch, returned>>
wakeVars == <<queue_wait, triggered>>
wakerVars == <<ppc, dpc, fpc>>

(***************************************************************************)
(* Waking.                                                                 *)
(***************************************************************************)

\* mutant: only one of the sleepers is woken.
Wake_One == \/ queue_wait = {} /\ UNCHANGED wakeVars
            \/ \E r \in queue_wait : /\ queue_wait' = queue_wait \ {r}
                                     /\ triggered' = triggered
                                            \union ({r} \cap Pollers)

\* wake_up of everyone on the wait queue: a reader leaves it, a poller stays.
Wake == /\ queue_wait' = queue_wait \ Readers
        /\ triggered' = triggered \union (queue_wait \cap Pollers)

(***************************************************************************)
(* vsc_start_io and vsc_event_add: queue the work, then wake.              *)
(***************************************************************************)

Produce(p) ==
    /\ ppc[p] = "idle"
    /\ cmpQ + eventQ < MaxQueued
    /\ \/ cmpQ' = cmpQ + 1 /\ UNCHANGED eventQ
       \/ eventQ' = eventQ + 1 /\ UNCHANGED cmpQ
    /\ ppc' = [ppc EXCEPT ![p] = "wake"]
    /\ UNCHANGED <<wakeup, wakeVars, pc, batch, dpc, fpc, returned>>

ProducerWakes(p) ==
    /\ ppc[p] = "wake"
    /\ Wake
    /\ ppc' = [ppc EXCEPT ![p] = "idle"]
    /\ returned' = FALSE
    /\ UNCHANGED <<cmpQ, eventQ, wakeup, pc, batch, dpc, fpc>>

(***************************************************************************)
(* vsc_get_scsi_cmd_msg.                                                   *)
(***************************************************************************)

\* Under h->lock: is there work, and of which kind.  A poller does not block.
Look(r) ==
    /\ pc[r] = "look"
    /\ Goto(r, CASE eventQ > 0             -> "take event"
                 [] eventQ = 0 /\ cmpQ > 0 -> "take commands"
                 [] OTHER -> IF r \in Pollers THEN "out" ELSE "wait")
    /\ UNCHANGED <<workVars, wakeup, wakeVars, wakerVars>>

\* The condition of wait_event_interruptible.
Awake == Work \/ wakeup

\* wait_event_interruptible tests the condition, ...
WaitFirst(r) ==
    /\ pc[r] = "wait"
    /\ Goto(r, IF Awake THEN "woken" ELSE "prepare")
    /\ UNCHANGED <<workVars, wakeup, wakeVars, wakerVars>>

\* ... puts the thread on the wait queue, ...
WaitPrepare(r) ==
    /\ pc[r] = "prepare"
    /\ queue_wait' = queue_wait \union {r}
    /\ Goto(r, "test")
    /\ UNCHANGED <<workVars, wakeup, triggered, wakerVars>>

\* mutant: the condition is not tested again.
Asleep_Blind(r) == Goto(r, "asleep") /\ UNCHANGED queue_wait

\* ... tests again and sleeps.
Asleep(r) == IF Awake
             THEN Goto(r, "woken") /\ queue_wait' = queue_wait \ {r}
             ELSE Goto(r, "asleep") /\ UNCHANGED queue_wait

WaitTest(r) ==
    /\ pc[r] = "test"
    /\ Asleep(r)
    /\ UNCHANGED <<workVars, wakeup, triggered, wakerVars>>

\* A waker took the thread off the wait queue: it puts itself on it again.
WaitAgain(r) ==
    /\ pc[r] = "asleep" /\ r \notin queue_wait
    /\ Goto(r, "prepare")
    /\ UNCHANGED <<workVars, wakeup, wakeVars, wakerVars>>

\* A signal: -ERESTARTSYS.
WaitSignal(r) ==
    /\ pc[r] = "asleep"
    /\ queue_wait' = queue_wait \ {r}
    /\ Goto(r, "out")
    /\ UNCHANGED <<workVars, wakeup, triggered, wakerVars>>

\* wakeup_pid ends the read, ...
Woken(r) ==
    /\ pc[r] = "woken"
    /\ Goto(r, IF wakeup THEN "interrupted" ELSE "look")
    /\ UNCHANGED <<workVars, wakeup, wakeVars, wakerVars>>

\* ... with -EINTR, and is reset.
Interrupted(r) ==
    /\ pc[r] = "interrupted"
    /\ wakeup' = FALSE
    /\ Goto(r, "out")
    /\ UNCHANGED <<workVars, wakeVars, wakerVars>>

(***************************************************************************)
(* vsc_get_event and vsc_get_multi_scsi_cmd_and_cdb.                       *)
(***************************************************************************)

\* A batch of commands.
Taken == IF cmpQ < MaxBatch THEN cmpQ ELSE MaxBatch

\* Another thread may have been quicker: -ENODATA.
TakeCommands(r) ==
    /\ pc[r] = "take commands"
    /\ cmpQ' = cmpQ - Taken
    /\ batch' = [batch EXCEPT ![r] = Taken]
    /\ Goto(r, IF cmpQ = 0 THEN "out" ELSE "copy commands")
    /\ UNCHANGED <<eventQ, returned, wakeup, wakeVars, wakerVars>>

TakeEvent(r) ==
    /\ pc[r] = "take event"
    /\ eventQ' = IF eventQ = 0 THEN 0 ELSE eventQ - 1
    /\ Goto(r, IF eventQ = 0 THEN "out" ELSE "copy event")
    /\ UNCHANGED <<cmpQ, batch, returned, wakeup, wakeVars, wakerVars>>

CopyDone(r) ==
    /\ pc[r] \in {"copy commands", "copy event"}
    /\ batch' = [batch EXCEPT ![r] = 0]
    /\ Goto(r, "out")
    /\ UNCHANGED <<cmpQ, eventQ, returned, wakeup, wakeVars, wakerVars>>

\* copy_to_user fails: what was taken goes back, and nobody is woken.
CopyFault(r) ==
    /\ \/ /\ pc[r] = "copy commands"
          /\ cmpQ' = cmpQ + batch[r] /\ UNCHANGED eventQ
       \/ /\ pc[r] = "copy event"
          /\ eventQ' = eventQ + 1 /\ UNCHANGED cmpQ
    /\ batch' = [batch EXCEPT ![r] = 0]
    /\ returned' = TRUE
    /\ Goto(r, "out")
    /\ UNCHANGED <<wakeup, wakeVars, wakerVars>>

ReadBegin(r) ==
    /\ r \in Readers
    /\ pc[r] = "out"
    /\ Goto(r, "look")
    /\ UNCHANGED <<workVars, wakeup, wakeVars, wakerVars>>

(***************************************************************************)
(* poll() and vsc_poll_wait.                                               *)
(***************************************************************************)

\* poll_wait comes first, ...
PollBegin(q) ==
    /\ q \in Pollers
    /\ pc[q] = "out"
    /\ queue_wait' = queue_wait \union {q}
    /\ triggered' = triggered \ {q}
    /\ Goto(q, "poll")
    /\ UNCHANGED <<workVars, wakeup, wakerVars>>

\* ... then the test under h->lock; with work, poll() ends and read() begins.
Poll(q) ==
    /\ pc[q] = "poll"
    /\ IF Work THEN Goto(q, "look") /\ queue_wait' = queue_wait \ {q}
               ELSE Goto(q, "poll asleep") /\ UNCHANGED queue_wait
    /\ UNCHANGED <<workVars, wakeup, triggered, wakerVars>>

PollWoken(q) ==
    /\ pc[q] = "poll asleep" /\ q \in triggered
    /\ triggered' = triggered \ {q}
    /\ Goto(q, "poll")
    /\ UNCHANGED <<workVars, wakeup, queue_wait, wakerVars>>

(***************************************************************************)
(* Detach: the queues are emptied, then the sleepers woken.                *)
(***************************************************************************)

DetachDrain ==
    /\ dpc = "idle"
    /\ cmpQ' = 0 /\ eventQ' = 0
    /\ dpc' = "wake"
    /\ UNCHANGED <<batch, returned, wakeup, wakeVars, pc, ppc, fpc>>

DetachWake ==
    /\ dpc = "wake"
    /\ Wake
    /\ dpc' = "idle"
    /\ returned' = FALSE
    /\ UNCHANGED <<cmpQ, eventQ, batch, wakeup, pc, ppc, fpc>>

(***************************************************************************)
(* vsc_interrupt_sleep_on_read, when the file is closed.                   *)
(***************************************************************************)

\* With nobody on the wait queue nothing is done.
FlushMark ==
    /\ fpc = "idle"
    /\ queue_wait # {}
    /\ wakeup' = TRUE
    /\ fpc' = "wake"
    /\ UNCHANGED <<workVars, wakeVars, pc, ppc, dpc>>

FlushWake ==
    /\ fpc = "wake"
    /\ Wake
    /\ fpc' = "idle"
    /\ returned' = FALSE
    /\ UNCHANGED <<cmpQ, eventQ, batch, wakeup, pc, ppc, dpc>>

-----------------------------------------------------------------------------

Wait(r) == \/ WaitFirst(r) \/ WaitPrepare(r) \/ WaitTest(r) \/ WaitAgain(r)
           \/ Woken(r) \/ Interrupted(r)
Take(r) == TakeCommands(r) \/ TakeEvent(r) \/ CopyDone(r) \/ CopyFault(r)
Run(r)  == Look(r) \/ Wait(r) \/ Take(r) \/ Poll(r) \/ PollWoken(r)

Next == \/ \E r \in Threads : \/ ReadBegin(r) \/ PollBegin(r)
                              \/ Run(r) \/ WaitSignal(r)
        \/ \E p \in Producers : Produce(p) \/ ProducerWakes(p)
        \/ DetachDrain \/ DetachWake \/ FlushMark \/ FlushWake

Spec == Init /\ [][Next]_vars

\* Threads go on once they are in the kernel, unless they sleep; nobody need
\* ever call read() or poll().
FairSpec == /\ Spec
            /\ \A r \in Threads : WF_vars(Run(r))
            /\ \A p \in Producers : WF_vars(ProducerWakes(p))
            /\ WF_vars(DetachWake) /\ WF_vars(FlushWake)

-----------------------------------------------------------------------------
(***************************************************************************)
(* Properties.                                                             *)
(***************************************************************************)

\* Nobody sleeps over work: if a thread sleeps unwoken while there is something
\* to read, someone is about to wake it, unless the work is what a failed read
\* gave back.
Sleeping(r) == r \in queue_wait /\ \/ pc[r] = "asleep"
                                   \/ pc[r] = "poll asleep" /\ r \notin triggered
NoLostWakeup ==
    Work /\ ~ returned /\ (\E r \in Threads : Sleeping(r)) =>
        \/ \E p \in Producers : ppc[p] = "wake"
        \/ dpc = "wake" \/ fpc = "wake"

\* A thread that blocks when there is work gets it, or finds that another has.
Served == \A r \in Threads :
    pc[r] \in {"asleep", "poll asleep"} /\ Work /\ ~ returned
        ~> pc[r] \notin {"asleep", "poll asleep"} \/ ~ Work \/ returned

\* Closing the file ends the read() of a thread that sleeps in it, as long as
\* it is the only one that blocks: wakeup_pid serves one reader.
CloseEndsRead == \A r \in Readers :
    Readers = {r} /\ wakeup /\ pc[r] = "asleep" ~> pc[r] = "out"
=============================================================================
