------------------------------ MODULE VscOutage ------------------------------
(***************************************************************************)
(* A host (VscHost) and its commands while the target goes and comes.       *)
(*                                                                         *)
(* The midlayer looks whether a host is blocked, or the disk offline, before *)
(* it sends a command, not when the command arrives: a command may be queued *)
(* on a host that has been blocked, drained or given up meanwhile.  And the  *)
(* commands of the disks of a sibling host are sent whatever the state of    *)
(* this one.  What is left in the driver is found by the next target, or by  *)
(* the error handlers when it times out (VscEh).                            *)
(*                                                                         *)
(* A drain takes any command, and ends when those are gone that were there   *)
(* when it began (VscCmd, DrainComplete, DrainEnds).                        *)
(***************************************************************************)
EXTENDS VscHost

CONSTANTS
    Scs,       \* commands of the midlayer
    Foreign,   \* those of the disks of sibling hosts
    Allowed    \* scsi_cmnd.allowed: how often the midlayer retries a command

ASSUME OutageAssumption == Foreign \subseteq Scs /\ Allowed \in Nat

VARIABLES
    cmd,       \* where each command is
    tries,     \* scsi_cmnd.retries
    old,       \* the commands a drain has still to find
    \* history: a detach has drained the host, and no target has come and no
    \* timer expired since; the commands that were on their way at that time
    swept, racing

cmdVars    == <<cmd, tries, old>>
outageVars == <<vars, cmdVars, swept, racing>>

InDriver == {s \in Scs : cmd[s] = "queued"}
OnTheWay == {s \in Scs : cmd[s] \in {"passed", "queued"}}
Draining == tpc = "abort" \/ \E f \in Files : pc[f] = "requeue"

OutageInit == /\ Init
              /\ cmd = [s \in Scs |-> "ended"] /\ tries = [s \in Scs |-> 0]
              /\ old = {} /\ swept = FALSE /\ racing = {}

(***************************************************************************)
(* The host: a step A of VscHost.                                          *)
(***************************************************************************)

Drained == \E f \in Files : pc[f] = "requeue" /\ pc'[f] # "requeue"

Host(A) ==
    /\ A
    /\ Draining /\ ~ Draining' => old = {}
    /\ old' = IF ~ Draining /\ Draining' THEN InDriver ELSE old
    /\ swept' = (Drained \/ (swept /\ h'.file = NoFile /\ tpc' # "unblock"))
    /\ racing' = IF Drained THEN OnTheWay ELSE racing
    /\ UNCHANGED <<cmd, tries>>

(***************************************************************************)
(* A command goes from one place to another.                               *)
(***************************************************************************)

Move(s, from, to) ==
    /\ cmd[s] = from
    /\ cmd' = [cmd EXCEPT ![s] = to]
    /\ old' = old \ {s}
    /\ UNCHANGED <<vars, swept, racing>>

\* The midlayer tries the command again, if it may.
Retry(s, from) ==
    \/ /\ tries[s] < Allowed
       /\ Move(s, from, "waits")
       /\ tries' = [tries EXCEPT ![s] = @ + 1]
    \/ /\ tries[s] = Allowed
       /\ Move(s, from, "ended")
       /\ UNCHANGED tries

Submit(s) == Move(s, "ended", "waits") /\ tries' = [tries EXCEPT ![s] = 0]

\* The midlayer runs the queue of a disk unless its host is blocked.
Open(s) == s \in Foreign \/ ~ h.blocked

Dispatch(s) ==
    /\ Open(s)
    /\ s \in Foreign \/ ~ h.offline
    /\ Move(s, "waits", "passed") /\ UNCHANGED tries

\* A command for a disk that is offline fails.
Refuse(s) ==
    /\ s \notin Foreign /\ h.offline
    /\ Move(s, "waits", "ended") /\ UNCHANGED tries

\* vsc_scsi_queue_command asks neither for a target nor for the block.
Enqueue(s) == Move(s, "passed", "queued") /\ UNCHANGED tries

\* The target answers, perhaps by a thread that is still in its write.
Answer(s) ==
    /\ \E f \in Files : f \in owner \/ pc[f] # "idle"
    /\ Move(s, "queued", "ended") /\ UNCHANGED tries

\* The error handlers take over.
TimesOut(s) == Move(s, "queued", "late") /\ UNCHANGED tries
Recover(s)  == Retry(s, "late")

\* vsc_requeue_cmd_callback: DID_REQUEUE, which the midlayer does not count.
DetachPop(s) ==
    /\ \E f \in Files : pc[f] = "requeue"
    /\ ~ Locked
    /\ Move(s, "queued", "waits") /\ UNCHANGED tries

\* vsc_abort_cmd_callback: DID_SOFT_ERROR, which it does.
CallbackPop(s) == tpc = "abort" /\ ~ Locked /\ Retry(s, "queued")

-----------------------------------------------------------------------------

Midlayer(s) == \/ Submit(s) \/ Dispatch(s) \/ Refuse(s) \/ Enqueue(s)
               \/ TimesOut(s) \/ Recover(s)

OutageNext ==
    \/ \E f \in Files : Host(Attach(f) \/ SuspendResume(f) \/ Detach(f))
    \/ Host(TimerExpires) \/ Host(Callback) \/ Host(SetTimeout) \/ Host(Online)
    \/ \E s \in Scs : Midlayer(s) \/ Answer(s) \/ DetachPop(s) \/ CallbackPop(s)

\* A call that has begun.
Going(f) == pc[f] # "idle" /\ (Attach(f) \/ SuspendResume(f) \/ Detach(f))

OutageSpec == OutageInit /\ [][OutageNext]_outageVars

\* The host goes on as in VscHost, and so do the drains; the midlayer runs the
\* queues of open hosts, and a command that stays in the driver times out and
\* is recovered (VscEh, Recovers).  Nothing is assumed of the targets.
OutageFairSpec ==
    /\ OutageSpec
    /\ \A f \in Files : WF_outageVars(Host(Going(f)))
    /\ WF_outageVars(Host(TimerExpires)) /\ WF_outageVars(Host(Callback))
    /\ SF_outageVars(Host(CallbackAbort))
    /\ \A s \in Scs :
        /\ WF_outageVars(Dispatch(s) \/ (Open(s) /\ Refuse(s)))
        /\ WF_outageVars(Enqueue(s))
        /\ WF_outageVars(TimesOut(s)) /\ WF_outageVars(Recover(s))
        /\ SF_outageVars(DetachPop(s) \/ CallbackPop(s))

-----------------------------------------------------------------------------
(***************************************************************************)
(* Properties.                                                             *)
(***************************************************************************)

\* detach forgets the target before it blocks the host, and blocks it before it
\* drains it: all it leaves in the driver, of the commands the block is meant
\* to stop, is those that were on their way at the end of the drain.
SweptClean == swept => InDriver \ Foreign \subseteq racing

\* A command submitted to a host whose target died is not kept for ever: when
\* the timer runs a target takes the host over or the command ends, also one
\* that is waiting behind the block, or arrives between the callback's abort
\* and its setting the disks offline.
EndsAtLast == \A s \in Scs :
    h.timer /\ cmd[s] # "ended" ~> h.file # NoFile \/ cmd[s] = "ended"
=============================================================================
