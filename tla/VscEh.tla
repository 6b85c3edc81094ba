-------------------------------- MODULE VscEh --------------------------------
(***************************************************************************)
(* The error handlers of the midlayer on top of the command path: a command *)
(* that times out is aborted, and the device reset if that fails.           *)
(*                                                                         *)
(* The handler finds the slot of its command in sc->host_scribble, and does *)
(* not ask whether it still is the command's.  By then the command may have *)
(* been answered or drained and its slot be free, or in use for a command   *)
(* of another Scsi_Host: those are still dispatched to this host while the  *)
(* error handler of one of them is at work.  A handler that takes such a    *)
(* slot for its own counts a reference nobody gave it, and from then on the *)
(* code keeps no promise: there the model ends (astray).                    *)
(*                                                                         *)
(* The event the handler sends to the target (VscEvent) is abstracted to    *)
(* its outcome, which the handler reads twice.                              *)
(***************************************************************************)
EXTENDS VscCmd

CONSTANTS
    MaxLate,       \* bound: timeouts of commands in a behaviour
    EventsRunOut,  \* whether the event pool may be exhausted
    LateVerdicts   \* whether the target may answer an event after the wait

ASSUME LateAssumption == MaxLate \in Nat
ASSUME FlagAssumption == {EventsRunOut, LateVerdicts} \subseteq BOOLEAN

VARIABLES
    scribble,   \* sc->host_scribble, by command
    eh,         \* the error handlers: position, command sc, slot c, outcome
    nlate,      \* timeouts so far
    forgone,    \* history: a handler gave its command back before the driver
                \* had done with it: no event was free, the outcome changed to
                \* SUCCESS between its two reads, or an answer or another
                \* drain had unlinked the slot and not yet called scsi_done
    astray      \* history: a handler took for its own a slot that no longer
                \* was its command's

ehVars  == <<scribble, eh, nlate, forgone, astray>>
allVars == <<vars, ehVars>>

NoHandling == [pc |-> "idle", sc |-> NoCmd, c |-> NoTag, ok |-> FALSE]

EhInit == /\ Init
          /\ scribble = [s \in Scs |-> NoTag]
          /\ eh = [x \in Drainers |-> NoHandling]
          /\ nlate = 0 /\ forgone = FALSE /\ astray = FALSE

\* mutant: no reference is taken.
CmdGet_None(t) == UNCHANGED refcnt

\* vsc_cmd_get.
CmdGet(t) == refcnt' = [refcnt EXCEPT ![t] = @ + 1]

\* The slot is taken, and for s.
Belongs(t, s) == t \in cmd_pool_bits /\ scsi_cmd[t] = s

\* A thread has unlinked the slot of s and will call scsi_done.
Closes(s) == \E t \in Closing : scsi_cmd[t] = s

\* The midlayer has recovered the command: it will retry it or fail it.
Finish(s) == mid' = [mid EXCEPT ![s] = "idle"]

Goto(x, p) == eh' = [eh EXCEPT ![x].pc = p]
Leave(x)   == eh' = [eh EXCEPT ![x] = NoHandling]

\* What no step of an error handler touches but through RemoveQ, IoStops,
\* CmdPut and ScsiDone.
untouched == <<stat, sn, scsi_cmd, cmd_sn, alloc, rd, workerVars, user, scribble,
           nlate>>

(***************************************************************************)
(* A command times out.                                                    *)
(***************************************************************************)

Timeout(s) ==
    /\ mid[s] = "driver" /\ alloc[s] = NoTag
    /\ nlate < MaxLate
    /\ mid' = [mid EXCEPT ![s] = "late"]
    /\ nlate' = nlate + 1
    /\ UNCHANGED <<slotVars, cmd_pool_bits, queueVars, cmd_sn, io_running, dup,
                   alloc, rd, workerVars, user, scribble, eh, forgone, astray>>

(***************************************************************************)
(* vsc_eh_abort.                                                           *)
(***************************************************************************)

\* The slot is looked up and a reference taken.
AbortBegin(x, s) ==
    /\ eh[x].pc = "idle"
    /\ mid[s] = "late" /\ \A y \in Drainers : eh[y].sc # s
    /\ eh' = [eh EXCEPT ![x] = [pc |-> "abort", sc |-> s, c |-> scribble[s],
                                ok |-> FALSE]]
    /\ CmdGet(scribble[s])
    /\ astray' = ~ Belongs(scribble[s], s)
    /\ UNCHANGED <<untouched, cmd_pool_bits, queueVars, io_running, mid, dup,
                   forgone>>

\* No event is free: the handler says SUCCESS.
AbortNoEvent(x) ==
    /\ EventsRunOut
    /\ eh[x].pc = "abort"
    /\ CmdPut(eh[x].c, 1)
    /\ Finish(eh[x].sc) /\ forgone' = TRUE
    /\ Leave(x)
    /\ UNCHANGED <<untouched, queueVars, io_running, dup, astray>>

\* The event was answered, aborted, or its wait timed out.
AbortWaited(x) ==
    /\ eh[x].pc = "abort"
    /\ \E b \in BOOLEAN : eh' = [eh EXCEPT ![x].pc = "judge", ![x].ok = b]
    /\ UNCHANGED <<untouched, cmd_pool_bits, queueVars, slotVars, io_running, mid,
                   dup, forgone, astray>>

\* mutant: the slot is left where it is.
Unlink_Left(t) == UNCHANGED queueVars /\ IoStops

\* The slot leaves its queue, under the lock.
Unlink(t) == RemoveQ(t) /\ IoStops

\* Upon success the slot is unlinked if it still is on a queue ...
AbortTake(x) ==
    /\ eh[x].pc = "judge"
    /\ IF eh[x].ok /\ eh[x].c \in Queued
       THEN Unlink(eh[x].c) /\ Goto(x, "release")
       ELSE Goto(x, "verdict") /\ UNCHANGED <<queueVars, io_running>>
    /\ UNCHANGED <<untouched, refcnt, cmd_pool_bits, mid, dup, forgone, astray>>

\* mutant: the reference of the queue is not dropped.
AbortRelease_Kept(x) ==
    /\ eh[x].pc = "release"
    /\ ScsiDone(eh[x].sc)
    /\ Goto(x, "verdict")
    /\ UNCHANGED <<untouched, refcnt, cmd_pool_bits, queueVars, io_running, forgone,
                   astray>>

\* ... and its command completed.
AbortRelease(x) ==
    /\ eh[x].pc = "release"
    /\ CmdPut(eh[x].c, 1)
    /\ ScsiDone(eh[x].sc)
    /\ Goto(x, "verdict")
    /\ UNCHANGED <<untouched, queueVars, io_running, forgone, astray>>

\* The outcome is read again and returned; the handler's reference goes.  Upon
\* success the midlayer has the command back, else it has the device reset, though
\* the first reading was SUCCESS and the slot has gone back to the pool.
AbortEnd(x) == \E ok \in BOOLEAN :
    /\ eh[x].pc = "verdict"
    /\ ok = eh[x].ok \/ LateVerdicts
    /\ CmdPut(eh[x].c, 1)
    /\ IF ok THEN /\ Finish(eh[x].sc)
                  /\ Leave(x)
                  /\ forgone' = (forgone \/ ~ eh[x].ok \/ Closes(eh[x].sc))
             ELSE Goto(x, "reset") /\ UNCHANGED <<mid, forgone>>
    /\ UNCHANGED <<untouched, queueVars, io_running, dup, astray>>

(***************************************************************************)
(* vsc_eh_device_reset_handler.                                            *)
(***************************************************************************)

ResetBegin(x) ==
    /\ eh[x].pc = "reset"
    /\ eh' = [eh EXCEPT ![x].pc = "reset wait", ![x].c = scribble[eh[x].sc]]
    /\ CmdGet(scribble[eh[x].sc])
    /\ astray' = ~ Belongs(scribble[eh[x].sc], eh[x].sc)
    /\ UNCHANGED <<untouched, cmd_pool_bits, queueVars, io_running, mid, dup,
                   forgone>>

ResetNoEvent(x) ==
    /\ EventsRunOut
    /\ eh[x].pc = "reset wait"
    /\ CmdPut(eh[x].c, 1)
    /\ Finish(eh[x].sc) /\ forgone' = TRUE
    /\ Leave(x)
    /\ UNCHANGED <<untouched, queueVars, io_running, dup, astray>>

\* Whatever the outcome, all commands of the host are drained, ...
ResetDrain(x) ==
    /\ eh[x].pc = "reset wait"
    /\ DrainStart(x)
    /\ Goto(x, "drain")
    /\ UNCHANGED <<scribble, nlate, forgone, astray>>

\* ... and then the handler's reference goes.  The midlayer retries the command
\* or takes the device offline and fails it.
ResetEnd(x) ==
    /\ eh[x].pc = "drain" /\ stage[x] = "off"
    /\ CmdPut(eh[x].c, 1)
    /\ Finish(eh[x].sc)
    /\ Leave(x)
    /\ forgone' = (forgone \/ Closes(eh[x].sc))
    /\ UNCHANGED <<untouched, queueVars, io_running, dup, astray>>

-----------------------------------------------------------------------------

\* sc->host_scribble = c.
SaveSlot(s) == scribble' = [scribble EXCEPT ![s] = alloc[s]]

\* queuecommand also saves the slot in the command.
EhQueue(s) ==
    \/ QueueAlloc(s) /\ UNCHANGED ehVars
    \/ /\ QueueEnqueue(s)
       /\ SaveSlot(s)
       /\ UNCHANGED <<eh, nlate, forgone, astray>>

EhDrain(x) ==
    /\ eh[x].pc = "drain"
    /\ DrainPop(x) \/ DrainDone(x) \/ DrainPut(x) \/ DrainNext(x)
    /\ UNCHANGED ehVars

Recover(x) ==
    \/ \E s \in Scs : AbortBegin(x, s)
    \/ AbortNoEvent(x) \/ AbortWaited(x) \/ AbortTake(x) \/ AbortRelease(x)
    \/ AbortEnd(x)
    \/ ResetBegin(x) \/ ResetNoEvent(x) \/ ResetDrain(x) \/ EhDrain(x)
    \/ ResetEnd(x)

Steps ==
    \/ \E s \in Scs : EhQueue(s) \/ Timeout(s)
    \/ StartIo /\ UNCHANGED ehVars
    \/ \E r \in Readers : Read(r) /\ UNCHANGED ehVars
    \/ \E w \in Writers : Write(w) /\ UNCHANGED ehVars
    \/ \E x \in Drainers : Recover(x)

\* A handler that has gone astray works on the slot of another command, or on a
\* free one: nothing is said of what follows.
EhNext == ~ astray /\ Steps

EhSpec == EhInit /\ [][EhNext]_allVars

\* The error handlers go on; nothing is assumed of the target.
EhFairSpec == EhSpec /\ \A x \in Drainers : WF_allVars(~ astray /\ Recover(x))

-----------------------------------------------------------------------------
(***************************************************************************)
(* Properties.                                                             *)
(***************************************************************************)

\* While the error handlers have kept to slots that were theirs when they took
\* their reference, and have given back no command too early.
Sound == ~ forgone /\ ~ astray

\* A command the midlayer has back, completed or recovered, is forgotten by the
\* driver; a command the driver owns is held at exactly one place, whatever was
\* aborted, reset, answered late or timed out meanwhile.
EhCustody == Sound => \A s \in Scs :
    LET held == {t \in Live : scsi_cmd[t] = s} IN
    CASE mid[s] = "idle"   -> alloc[s] = NoTag /\ held = {}
      [] mid[s] = "driver" -> IF alloc[s] # NoTag THEN held = {}
                              ELSE \E t \in Tags : held = {t}
      [] mid[s] = "late"   -> Cardinality(held) <= 1

\* The pool's bitmap is the slots that are linked or held by some thread, and
\* no slot is linked twice, or held by two answers or drains.
EhSlots == Sound =>
    /\ cmd_pool_bits = Queued
          \union {alloc[s] : s \in {z \in Scs : alloc[z] # NoTag}}
          \union {tag[a] : a \in {b \in Workers : tag[b] # NoTag}}
          \union {eh[x].c : x \in {y \in Drainers :
                                   eh[y].pc \notin {"idle", "reset"}}}
    /\ NoDup(reqQ \o cmpQ \o rspQ)
    /\ \A a, b \in Workers : tag[a] # NoTag /\ tag[a] = tag[b] => a = b

\* A handler that has found the slot of its command finds it again after its wait,
\* though the command was answered, or drained by another handler, meanwhile and
\* other commands took the slots that came free: what it takes from the driver is
\* the command it was to abort.
AbortRightCommand == Sound => \A x \in Drainers :
    eh[x].pc \notin {"idle", "reset"} => Belongs(eh[x].c, eh[x].sc)

\* Every command that times out is recovered, whatever the target does, unless its
\* handler went astray.
Recovers == \A s \in Scs : mid[s] = "late" ~> mid[s] # "late" \/ astray
=============================================================================
