------------------------------- MODULE VscHost -------------------------------
(***************************************************************************)
(* The life of one host: processes take it over (attach) and let it go      *)
(* (detach, or close when they die), suspend and resume it, and a timer     *)
(* takes its disks offline when nobody takes it over in time.               *)
(*                                                                         *)
(* h->lock is dropped in the middle of each of these; target_abnormal_lock  *)
(* keeps an attach and the timer's callback apart.  What detach and the     *)
(* callback do to events and commands is VscEvent and VscCmd.               *)
(***************************************************************************)
EXTENDS Naturals, FiniteSets

CONSTANTS
    Files,     \* open files of /dev/vsc, each used by one thread at a time
    NoFile,    \* h->file = NULL
    Overlap    \* whether a host is attached before its last detach has returned

ASSUME FileAssumption    == IsFiniteSet(Files) /\ NoFile \notin Files
ASSUME OverlapAssumption == Overlap \in BOOLEAN

VARIABLES
    \* struct vsc_ctrl_info: file, suspend; timed is target_abnormal_time > 0,
    \* timer whether target_abnormal_timer is pending, abn target_abnormal_lock;
    \* blocked is host_self_blocked of its Scsi_Host, offline that its disks
    \* are SDEV_OFFLINE
    h,
    owner,      \* the files whose private_data is this host
    closing,    \* the files in a detach that starts the timer
    pc,         \* the call each file is in
    tpc         \* the timer's callback

vars == <<h, owner, closing, pc, tpc>>

Init == /\ h = [file |-> NoFile, suspend |-> FALSE, blocked |-> FALSE,
                offline |-> FALSE, timed |-> FALSE, timer |-> FALSE, abn |-> 0]
        /\ owner = {} /\ closing = {}
        /\ pc = [f \in Files |-> "idle"]
        /\ tpc = "idle"

\* A step of the call of file f, one of the callback.
Call(f, from, to)  == /\ pc[f] = from /\ pc' = [pc EXCEPT ![f] = to]
                      /\ UNCHANGED tpc
Fired(from, to)    == /\ tpc = from /\ tpc' = to
                      /\ UNCHANGED <<pc, owner, closing>>

\* An attach holds h->lock while it waits for the timer, or steps back.
Locked == \E f \in Files : pc[f] \in {"sync", "retreat"}

Detaching == \E f \in Files :
    pc[f] \in {"block", "requeue", "mark suspend", "start timer"}

(***************************************************************************)
(* target_abnormal_lock.                                                   *)
(***************************************************************************)

\* mutants: the lock is not tested; it is kept.
Gate_Open    == "sync"
GuardOff_Not == UNCHANGED h

\* atomic_inc_return, and who goes on: the callback may be at work.
GuardOn  == h' = [h EXCEPT !.abn = @ + 1]
Gate     == IF h.abn > 0 THEN "retreat" ELSE "sync"
GuardOff == h' = [h EXCEPT !.abn = @ - 1]

(***************************************************************************)
(* vsc_scsi_attach.                                                        *)
(***************************************************************************)

\* -EALREADY and -EBUSY change nothing.
AttachBegin(f) ==
    /\ f \notin owner /\ h.file = NoFile
    /\ ~ Locked
    /\ Detaching => Overlap
    /\ Call(f, "idle", Gate)
    /\ GuardOn
    /\ UNCHANGED <<owner, closing>>

\* -EAGAIN.
AttachRetreat(f) ==
    /\ Call(f, "retreat", "idle")
    /\ GuardOff
    /\ UNCHANGED <<owner, closing>>

\* mutant: the timer is left pending.
DelTimer_Not == h.timer

\* del_timer_sync: the timer is pending no longer ...
DelTimer == FALSE

\* ... and its callback not running.
AttachSync(f) ==
    /\ tpc = "idle"
    /\ Call(f, "sync", "attached")
    /\ h' = [h EXCEPT !.timer = DelTimer, !.file = f]
    /\ UNCHANGED <<owner, closing>>

\* mutant: the host is never resumed.
ResumeOrNot_Never == "guard off"

\* A process that died has left the host to be resumed by its successor.
ResumeOrNot == IF h.suspend THEN "guard off" ELSE "unblock"

AttachTest(f) ==
    /\ Call(f, "attached", ResumeOrNot)
    /\ UNCHANGED <<h, owner, closing>>

AttachEnd(f) ==
    /\ Call(f, "guard off", "idle")
    /\ GuardOff
    /\ owner' = owner \union {f}
    /\ UNCHANGED closing

(***************************************************************************)
(* vsc_suspend_host and vsc_resume_host.                                   *)
(***************************************************************************)

SuspendBegin(f) ==
    /\ f \in owner
    /\ Call(f, "idle", "suspend")
    /\ h' = [h EXCEPT !.blocked = TRUE]
    /\ UNCHANGED <<owner, closing>>

SuspendEnd(f) ==
    /\ Call(f, "suspend", "idle")
    /\ h' = [h EXCEPT !.suspend = TRUE]
    /\ UNCHANGED <<owner, closing>>

ResumeBegin(f) ==
    /\ f \in owner
    /\ Call(f, "idle", "unblock")
    /\ UNCHANGED <<h, owner, closing>>

ResumeUnblock(f) ==
    /\ Call(f, "unblock", "resume")
    /\ h' = [h EXCEPT !.blocked = FALSE]
    /\ UNCHANGED <<owner, closing>>

\* Called by attach, or by the ioctl.
ResumeEnd(f) ==
    /\ Call(f, "resume", IF f \in owner THEN "idle" ELSE "guard off")
    /\ h' = [h EXCEPT !.suspend = FALSE]
    /\ UNCHANGED <<owner, closing>>

(***************************************************************************)
(* vsc_scsi_detach, called by the ioctl, or when the file is closed.       *)
(***************************************************************************)

\* -EPERM: the host has no target.
DetachBegin(f, is_timeout) ==
    /\ f \in owner
    /\ ~ Locked
    /\ Call(f, "idle", IF h.file = NoFile THEN "idle" ELSE "block")
    /\ owner' = owner \ {f}
    /\ closing' = IF is_timeout /\ h.file # NoFile THEN closing \union {f}
                                                   ELSE closing
    /\ h' = [h EXCEPT !.file = NoFile]

\* mutant: the midlayer goes on sending commands.
DetachBlock_Not(f) ==
    /\ Call(f, "block", "requeue")
    /\ UNCHANGED <<h, owner, closing>>

DetachBlock(f) ==
    /\ Call(f, "block", "requeue")
    /\ h' = [h EXCEPT !.blocked = TRUE]
    /\ UNCHANGED <<owner, closing>>

\* The events are aborted, the commands requeued, the readers woken.
DetachRequeue(f) ==
    /\ ~ Locked
    /\ Call(f, "requeue", IF f \in closing THEN "mark suspend" ELSE "idle")
    /\ UNCHANGED <<h, owner, closing>>

DetachMark(f) ==
    /\ Call(f, "mark suspend", "start timer")
    /\ h' = [h EXCEPT !.suspend = TRUE]
    /\ UNCHANGED <<owner, closing>>

DetachTimer(f) ==
    /\ Call(f, "start timer", "idle")
    /\ h' = [h EXCEPT !.timer = @ \/ h.timed]
    /\ closing' = closing \ {f}
    /\ UNCHANGED owner

(***************************************************************************)
(* vsc_target_abnormal, the timer's callback.                              *)
(***************************************************************************)

TimerExpires ==
    /\ h.timer
    /\ Fired("idle", "fired")
    /\ h' = [h EXCEPT !.timer = FALSE]

\* An attach is at work: the callback steps back.
CallbackBegin ==
    /\ Fired("fired", IF h.abn > 0 THEN "leave" ELSE "unblock")
    /\ GuardOn

\* mutant: the midlayer is not let go on.
CallbackUnblock_Not == Fired("unblock", "resume") /\ UNCHANGED h

CallbackUnblock == Fired("unblock", "resume") /\ h' = [h EXCEPT !.blocked = FALSE]
CallbackResume  == Fired("resume", "abort")   /\ h' = [h EXCEPT !.suspend = FALSE]

\* The events and the commands are aborted, under h->lock, and then the disks
\* taken offline.
CallbackAbort   == ~ Locked /\ Fired("abort", "offline") /\ UNCHANGED h
CallbackOffline == Fired("offline", "leave")  /\ h' = [h EXCEPT !.offline = TRUE]
CallbackEnd     == Fired("leave", "idle")     /\ GuardOff

(***************************************************************************)
(* Settings.                                                               *)
(***************************************************************************)

\* vsc_set_tg_abn_timeout.
SetTimeout ==
    /\ \E b \in BOOLEAN : h' = [h EXCEPT !.timed = b]
    /\ UNCHANGED <<owner, closing, pc, tpc>>

\* vsc_set_device_stat sets the disks running again.
Online ==
    /\ h' = [h EXCEPT !.offline = FALSE]
    /\ UNCHANGED <<owner, closing, pc, tpc>>

-----------------------------------------------------------------------------

Attach(f)   == \/ AttachBegin(f) \/ AttachRetreat(f) \/ AttachSync(f)
               \/ AttachTest(f) \/ AttachEnd(f)
SuspendResume(f) == \/ SuspendBegin(f) \/ SuspendEnd(f)
                    \/ ResumeBegin(f) \/ ResumeUnblock(f) \/ ResumeEnd(f)
Detach(f)   == \/ \E b \in BOOLEAN : DetachBegin(f, b)
               \/ DetachBlock(f) \/ DetachRequeue(f) \/ DetachMark(f)
               \/ DetachTimer(f)
Callback    == \/ CallbackBegin \/ CallbackUnblock \/ CallbackResume
               \/ CallbackAbort \/ CallbackOffline \/ CallbackEnd

Next == \/ \E f \in Files : Attach(f) \/ SuspendResume(f) \/ Detach(f)
        \/ TimerExpires \/ Callback
        \/ SetTimeout \/ Online

Spec == Init /\ [][Next]_vars

\* A call that has begun goes on; a pending timer expires and its callback goes
\* on, also when it must spin for h->lock, which is granted in the order of the
\* requests (strong fairness).  Nobody need ever attach.
FairSpec ==
    /\ Spec
    /\ \A f \in Files : WF_vars(/\ pc[f] # "idle"
                                /\ Attach(f) \/ SuspendResume(f) \/ Detach(f))
    /\ WF_vars(TimerExpires) /\ WF_vars(Callback) /\ SF_vars(CallbackAbort)

-----------------------------------------------------------------------------
(***************************************************************************)
(* Properties.                                                             *)
(***************************************************************************)

\* No call and no callback is under way.
Quiet == tpc = "idle" /\ \A f \in Files : pc[f] = "idle"

\* Those between the increment and the decrement of target_abnormal_lock.
Guards == {f \in Files : \/ pc[f] \in {"sync", "retreat", "attached", "guard off"}
                         \/ pc[f] \in {"unblock", "resume"} /\ f \notin owner}

Types ==
    /\ h \in [file : Files \union {NoFile}, suspend : BOOLEAN,
              blocked : BOOLEAN, offline : BOOLEAN, timed : BOOLEAN,
              timer : BOOLEAN, abn : Nat]
    /\ owner \subseteq Files /\ closing \subseteq Files
    /\ pc \in [Files -> {"idle", "sync", "retreat", "attached", "guard off",
                         "suspend", "unblock", "resume", "block", "requeue",
                         "mark suspend", "start timer"}]
    /\ tpc \in {"idle", "fired", "unblock", "resume", "abort", "offline",
                "leave"}

\* Every variable keeps its type, and target_abnormal_lock counts who is
\* between its increment and its decrement: it is never left taken, which would
\* refuse every later attach.
TypeOK ==
    /\ Types
    /\ h.abn = Cardinality(Guards) + IF tpc \in {"idle", "fired"} THEN 0 ELSE 1

\* attach waits for the timer's callback with h->lock held, which the callback
\* takes too: it never waits for a callback that is yet to take it.
SyncNeverStuck == (\E f \in Files : pc[f] = "sync") =>
    tpc \in {"idle", "fired", "leave"}

\* The callback works on a host without a target, and no target takes the host
\* over meanwhile: the disks of a live target are not taken offline.
OfflineWithoutTarget ==
    tpc \in {"unblock", "resume", "abort", "offline"} => h.file = NoFile

\* A target that has the host gets commands unless it, or the death of its
\* predecessor, suspended the host; and a suspended host gets none.
BlockedIffSuspended == Quiet /\ h.file # NoFile => (h.blocked <=> h.suspend)

\* When a timer is pending the host is taken over, or its disks go offline and
\* nobody waits for them for ever.
TakenOverOrOffline == h.timer ~> (h.file # NoFile \/ h.offline)
=============================================================================
