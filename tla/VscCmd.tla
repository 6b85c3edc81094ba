------------------------------- MODULE VscCmd -------------------------------
(***************************************************************************)
(* The life of a SCSI command inside one host of the driver.               *)
(*                                                                         *)
(* The SCSI midlayer hands a command to queuecommand, which takes a slot   *)
(* of the command pool and links it into reqQ; vsc_start_io moves it to    *)
(* cmpQ; a thread of the user-space target reads a batch (cmpQ -> rspQ)    *)
(* and later writes the answer, which unlinks the slot, completes the      *)
(* command towards the midlayer and gives the slot back.  A drain (device  *)
(* reset, detach, offline timer: vsc_each_queue_remove) unlinks every      *)
(* slot from any of the three queues and completes its command itself.     *)
(*                                                                         *)
(* One action is one section under h->lock, or one stretch of code between *)
(* two of them: the code drops the lock before it reads the fields of a    *)
(* fetched command, before it completes a command and before it releases a *)
(* slot, and other threads run in these gaps.                              *)
(***************************************************************************)
EXTENDS VscList, FiniteSets

CONSTANTS
    NrCmds,     \* h->nr_cmds: slots of the command pool
    Scs,        \* scsi_cmnd structures of the midlayer
    Readers,    \* threads of the target in read()
    Writers,    \* threads of the target in write() / data transfers
    Drainers,   \* kernel threads and timers that drain the queues
    NoTag,      \* no slot (NULL vsc_cmnd_list pointer)
    NoCmd,      \* no command (NULL scsi_cmnd pointer)
    MaxBatch,   \* MAX_BATCH_SCSI_CMD_COUNT
    SnMod,      \* serial numbers are __u32 on the wire: 2^32
    MaxSn,      \* bound: commands issued in a behaviour
    CopyFaults  \* whether copy_to_user may fail in read()

Tags    == 0 .. NrCmds - 1
Workers == Writers \union Drainers

ASSUME PoolAssumption    == NrCmds \in Nat \ {0} /\ NoTag \notin Tags
ASSUME CmdAssumption     == NoCmd \notin Scs
ASSUME ThreadAssumption  == Writers \intersect Drainers = {}
ASSUME BatchAssumption   == MaxBatch \in Nat \ {0}
ASSUME SerialAssumption  == SnMod \in Nat \ {0} /\ MaxSn \in Nat
ASSUME FaultAssumption   == CopyFaults \in BOOLEAN

VARIABLES
    \* struct vsc_cmnd_list, one per slot
    stat, sn, scsi_cmd, refcnt,
    \* struct vsc_ctrl_info
    cmd_pool_bits, reqQ, cmpQ, rspQ, cmd_sn, io_running,
    \* the midlayer: which commands the driver owns, and those completed
    \* although the driver did not own them
    mid, dup,
    \* local variables of the threads
    alloc,          \* queuecommand: its slot c, by command
    rd,             \* read(): [pc, arr, sc, msgs]
    pc, tag, cur,   \* writers and drainers: position, slot c, command sc
    msg,            \* writers: the message being served
    stage,          \* drainers: the queue being drained
    \* the target: the messages it was given
    user,
    \* history: serial numbers of the slots queued when a drain began
    snap

queueVars  == <<reqQ, cmpQ, rspQ>>
slotVars   == <<stat, sn, scsi_cmd, refcnt>>
workerVars == <<pc, tag, cur, msg, stage, snap>>
vars == <<slotVars, cmd_pool_bits, queueVars, cmd_sn, io_running, mid, dup,
          alloc, rd, workerVars, user>>

\* What one element of a reply to read() names: slot, serial number, command.
Message == [tag : Tags, sn : 0 .. SnMod - 1, sc : Scs]
NoMsg   == [tag |-> NoTag, sn |-> 0, sc |-> NoCmd]
IdleReader == [pc |-> "idle", arr |-> <<>>, sc |-> NoCmd, msgs |-> <<>>]

Queued == ToSet(reqQ) \union ToSet(cmpQ) \union ToSet(rspQ)

Init ==
    /\ stat     = [t \in Tags |-> "INIT"]
    /\ sn       = [t \in Tags |-> 0]
    /\ scsi_cmd = [t \in Tags |-> NoCmd]
    /\ refcnt   = [t \in Tags |-> 0]
    /\ cmd_pool_bits = {}
    /\ reqQ = <<>> /\ cmpQ = <<>> /\ rspQ = <<>>
    /\ cmd_sn = 0 /\ io_running = 0
    /\ mid = [s \in Scs |-> "idle"] /\ dup = {}
    /\ alloc = [s \in Scs |-> NoTag]
    /\ rd    = [r \in Readers |-> IdleReader]
    /\ pc    = [a \in Workers |-> "idle"]
    /\ tag   = [a \in Workers |-> NoTag]
    /\ cur   = [a \in Workers |-> NoCmd]
    /\ msg   = [w \in Writers |-> NoMsg]
    /\ stage = [m \in Drainers |-> "off"]
    /\ snap  = [m \in Drainers |-> {}]
    /\ user  = {}

(***************************************************************************)
(* Helpers shared by several handlers.                                     *)
(***************************************************************************)

\* removeQ: the slot leaves whichever queue it is on.
RemoveQ(t) ==
    /\ reqQ' = Del(reqQ, t)
    /\ cmpQ' = Del(cmpQ, t)
    /\ rspQ' = Del(rspQ, t)

\* h->io_running++ when a slot is queued, h->io_running-- when one is unlinked.
IoStarts_NotCounted == UNCHANGED io_running     \* mutant: no increment
IoStarts == io_running' = io_running + 1
IoStops_NotCounted == UNCHANGED io_running      \* mutant: no decrement
IoStops  == io_running' = io_running - 1

\* sc->scsi_done(sc): the midlayer takes the command back, unless it has timed
\* out ("late", in VscEh only): then its error handler decides, and the call is
\* ignored.
ScsiDone(s) ==
    /\ mid' = [mid EXCEPT ![s] = IF @ = "late" THEN "late" ELSE "idle"]
    /\ dup' = IF mid[s] = "idle" THEN dup \union {s} ELSE dup

\* mutant: the count is compared with one after the decrement.
CmdPut_OffByOne(t, n) ==
    /\ refcnt' = [refcnt EXCEPT ![t] = @ - n]
    /\ cmd_pool_bits' = IF refcnt[t] - n = 1 THEN cmd_pool_bits \ {t}
                                             ELSE cmd_pool_bits

\* vsc_cmd_put, n times in a row by one thread: the last reference gives the
\* slot back to the pool.
CmdPut(t, n) ==
    /\ refcnt' = [refcnt EXCEPT ![t] = @ - n]
    /\ cmd_pool_bits' = IF refcnt[t] = n THEN cmd_pool_bits \ {t}
                                         ELSE cmd_pool_bits

\* find_first_zero_bit over the pool.
FirstFree(t) == /\ t \in Tags \ cmd_pool_bits
                /\ \A u \in Tags \ cmd_pool_bits : t <= u

(***************************************************************************)
(* queuecommand.                                                           *)
(***************************************************************************)

\* The midlayer dispatches s and vsc_cmd_alloc finds a slot.  When the pool is
\* exhausted queuecommand returns HOST_BUSY and nothing changes.
QueueAlloc(s) ==
    /\ mid[s] = "idle"
    /\ cmd_sn < MaxSn
    /\ \E t \in Tags :
        /\ FirstFree(t)
        /\ cmd_pool_bits' = cmd_pool_bits \union {t}
        /\ stat'     = [stat EXCEPT ![t] = "INIT"]
        /\ scsi_cmd' = [scsi_cmd EXCEPT ![t] = NoCmd]
        /\ sn'       = [sn EXCEPT ![t] = (cmd_sn + 1) % SnMod]
        /\ refcnt'   = [refcnt EXCEPT ![t] = 1]
        /\ alloc'    = [alloc EXCEPT ![s] = t]
    /\ cmd_sn' = cmd_sn + 1
    /\ mid' = [mid EXCEPT ![s] = "driver"]
    /\ UNCHANGED <<queueVars, io_running, dup, rd, workerVars, user>>

\* The command is bound to its slot and the slot linked into reqQ.
QueueEnqueue(s) ==
    /\ alloc[s] # NoTag
    /\ scsi_cmd' = [scsi_cmd EXCEPT ![alloc[s]] = s]
    /\ reqQ' = AddTail(reqQ, alloc[s])
    /\ IoStarts
    /\ alloc' = [alloc EXCEPT ![s] = NoTag]
    /\ UNCHANGED <<stat, sn, refcnt, cmd_pool_bits, cmpQ, rspQ, cmd_sn, mid,
                   dup, rd, workerVars, user>>

\* One turn of the loop of vsc_start_io.  Every thread that linked a command
\* runs the loop until it finds reqQ empty, so some thread is in it whenever
\* reqQ holds a command; the thread keeps nothing from one turn to the next.
StartIo ==
    /\ reqQ # <<>>
    /\ LET t == Head(reqQ) IN
        /\ stat' = [stat EXCEPT ![t] = "REQUEST"]
        /\ cmpQ' = AddTail(cmpQ, t)
    /\ reqQ' = Tail(reqQ)
    /\ UNCHANGED <<sn, scsi_cmd, refcnt, cmd_pool_bits, rspQ, cmd_sn,
                   io_running, mid, dup, alloc, rd, workerVars, user>>

(***************************************************************************)
(* read() of the target: vsc_get_multi_scsi_cmd_and_cdb.                   *)
(***************************************************************************)

\* Under the lock: the batch moves to rspQ and is remembered in c_arr.
ReadTake(r) ==
    /\ rd[r].pc = "idle"
    /\ cmpQ # <<>>
    /\ rd' = [rd EXCEPT ![r] = [pc |-> "stamp", arr |-> Batch(cmpQ, MaxBatch),
                                sc |-> NoCmd, msgs |-> <<>>]]
    /\ rspQ' = rspQ \o Batch(cmpQ, MaxBatch)
    /\ cmpQ' = Rest(cmpQ, MaxBatch)
    /\ UNCHANGED <<slotVars, cmd_pool_bits, reqQ, cmd_sn, io_running, mid,
                   dup, alloc, workerVars, user>>

\* The slot of c_arr whose turn it is.
Stamping(r) == rd[r].arr[Len(rd[r].msgs) + 1]

\* Without the lock: the command pointer is read and the slot marked as read.
StampBegin(r) ==
    /\ rd[r].pc = "stamp"
    /\ rd' = [rd EXCEPT ![r].pc = "fields", ![r].sc = scsi_cmd[Stamping(r)]]
    /\ stat' = [stat EXCEPT ![Stamping(r)] = "READ_COMP"]
    /\ UNCHANGED <<sn, scsi_cmd, refcnt, cmd_pool_bits, queueVars, cmd_sn,
                   io_running, mid, dup, alloc, workerVars, user>>

\* Still without it: serial number and CDB are copied into the message.  A NULL
\* command pointer is dereferenced here, and the thread is gone.
StampFields(r) ==
    /\ rd[r].pc = "fields"
    /\ rd[r].sc # NoCmd
    /\ LET m == [tag |-> Stamping(r), sn |-> sn[Stamping(r)], sc |-> rd[r].sc]
           ms == Append(rd[r].msgs, m)
       IN rd' = [rd EXCEPT ![r].msgs = ms, ![r].sc = NoCmd,
                           ![r].pc = IF Len(ms) < Len(rd[r].arr)
                                     THEN "stamp" ELSE "deliver"]
    /\ UNCHANGED <<slotVars, cmd_pool_bits, queueVars, cmd_sn, io_running,
                   mid, dup, alloc, workerVars, user>>

\* copy_to_user succeeds: the target has the messages.
ReadDeliver(r) ==
    /\ rd[r].pc = "deliver"
    /\ user' = user \union ToSet(rd[r].msgs)
    /\ rd' = [rd EXCEPT ![r] = IdleReader]
    /\ UNCHANGED <<slotVars, cmd_pool_bits, queueVars, cmd_sn, io_running,
                   mid, dup, alloc, workerVars>>

\* copy_to_user fails: every slot of c_arr leaves whichever queue it is on and
\* goes to the head of cmpQ, the first of the batch first.
ReadFault(r) ==
    /\ CopyFaults
    /\ rd[r].pc = "deliver"
    /\ LET arr == rd[r].arr IN
        /\ stat' = [t \in Tags |-> IF On(t, arr) THEN "REQUEST" ELSE stat[t]]
        /\ reqQ' = DelAll(reqQ, ToSet(arr))
        /\ rspQ' = DelAll(rspQ, ToSet(arr))
        /\ cmpQ' = Reverse(arr) \o DelAll(cmpQ, ToSet(arr))
    /\ rd' = [rd EXCEPT ![r] = IdleReader]
    /\ UNCHANGED <<sn, scsi_cmd, refcnt, cmd_pool_bits, cmd_sn, io_running,
                   mid, dup, alloc, workerVars, user>>

(***************************************************************************)
(* write() of the target: data transfers and answers.                      *)
(***************************************************************************)

\* mutants: no list_empty check; no serial number check; neither stat nor list.
Answerable_NoList(m) == stat[m.tag] = "READ_COMP" /\ sn[m.tag] = m.sn
Answerable_NoSn(m)   == stat[m.tag] = "READ_COMP" /\ m.tag \in Queued
Answerable_SnOnly(m) == sn[m.tag] = m.sn

\* The checks an answer or a data message passes under the lock.
Answerable(m) ==
    /\ stat[m.tag] = "READ_COMP"
    /\ sn[m.tag] = m.sn
    /\ m.tag \in Queued

\* vsc_scsi_cmd_data: the command is looked up under the lock ...
DataFind(w, m) ==
    /\ pc[w] = "idle"
    /\ Answerable(m)
    /\ pc'  = [pc EXCEPT ![w] = "copy"]
    /\ cur' = [cur EXCEPT ![w] = scsi_cmd[m.tag]]
    /\ msg' = [msg EXCEPT ![w] = m]
    /\ UNCHANGED <<slotVars, cmd_pool_bits, queueVars, cmd_sn, io_running,
                   mid, dup, alloc, rd, tag, stage, snap, user>>

\* ... and its buffers are copied after the lock is released.
DataCopy(w) ==
    /\ pc[w] = "copy"
    /\ pc'  = [pc EXCEPT ![w] = "idle"]
    /\ cur' = [cur EXCEPT ![w] = NoCmd]
    /\ msg' = [msg EXCEPT ![w] = NoMsg]
    /\ UNCHANGED <<slotVars, cmd_pool_bits, queueVars, cmd_sn, io_running,
                   mid, dup, alloc, rd, tag, stage, snap, user>>

\* vsc_response_scsi_cmd_new: under the lock the answered slot is unlinked.
RespondTake(w, m) ==
    /\ pc[w] = "idle"
    /\ Answerable(m)
    /\ RemoveQ(m.tag)
    /\ stat' = [stat EXCEPT ![m.tag] = "RESP"]
    /\ IoStops
    /\ pc'  = [pc EXCEPT ![w] = "done"]
    /\ tag' = [tag EXCEPT ![w] = m.tag]
    /\ cur' = [cur EXCEPT ![w] = scsi_cmd[m.tag]]
    /\ msg' = [msg EXCEPT ![w] = m]
    /\ UNCHANGED <<sn, scsi_cmd, refcnt, cmd_pool_bits, cmd_sn, mid, dup,
                   alloc, rd, stage, snap, user>>

\* The result is set and the command completed.
RespondDone(w) ==
    /\ pc[w] = "done"
    /\ ScsiDone(cur[w])
    /\ pc' = [pc EXCEPT ![w] = "put"]
    /\ UNCHANGED <<slotVars, cmd_pool_bits, queueVars, cmd_sn, io_running,
                   alloc, rd, tag, cur, msg, stage, snap, user>>

RespondPut(w) ==
    /\ pc[w] = "put"
    /\ CmdPut(tag[w], 1)
    /\ pc'  = [pc EXCEPT ![w] = "idle"]
    /\ tag' = [tag EXCEPT ![w] = NoTag]
    /\ cur' = [cur EXCEPT ![w] = NoCmd]
    /\ msg' = [msg EXCEPT ![w] = NoMsg]
    /\ UNCHANGED <<stat, sn, scsi_cmd, queueVars, cmd_sn, io_running, mid,
                   dup, alloc, rd, stage, snap, user>>

(***************************************************************************)
(* vsc_each_queue_remove, with the abort or the requeue callback: both      *)
(* complete the command and release its slot.                              *)
(***************************************************************************)

StageQueue(m) == CASE stage[m] = "reqQ" -> reqQ
                   [] stage[m] = "cmpQ" -> cmpQ
                   [] stage[m] = "rspQ" -> rspQ

\* mutants: rspQ is left out; the drain starts over.
NextStage_NoRsp(st) == IF st = "reqQ" THEN "cmpQ" ELSE "off"
NextStage_Again(st) == CASE st = "reqQ" -> "cmpQ"
                         [] st = "cmpQ" -> "rspQ"
                         [] st = "rspQ" -> "reqQ"

NextStage(st) == CASE st = "reqQ" -> "cmpQ"
                   [] st = "cmpQ" -> "rspQ"
                   [] st = "rspQ" -> "off"

DrainStart(m) ==
    /\ stage[m] = "off"
    /\ stage' = [stage EXCEPT ![m] = "reqQ"]
    /\ snap'  = [snap EXCEPT ![m] = {sn[t] : t \in Queued}]
    /\ UNCHANGED <<slotVars, cmd_pool_bits, queueVars, cmd_sn, io_running,
                   mid, dup, alloc, rd, pc, tag, cur, msg, user>>

\* Under the lock: the first slot of the queue is unlinked.
DrainPop(m) ==
    /\ stage[m] # "off"
    /\ pc[m] = "idle"
    /\ StageQueue(m) # <<>>
    /\ LET t == Head(StageQueue(m)) IN
        /\ RemoveQ(t)
        /\ tag' = [tag EXCEPT ![m] = t]
    /\ IoStops
    /\ pc' = [pc EXCEPT ![m] = "popped"]
    /\ UNCHANGED <<slotVars, cmd_pool_bits, cmd_sn, mid, dup, alloc, rd, cur,
                   msg, stage, snap, user>>

\* Without it: a reference is taken and the callback completes the command.
DrainDone(m) ==
    /\ pc[m] = "popped"
    /\ refcnt' = [refcnt EXCEPT ![tag[m]] = @ + 1]
    /\ IF scsi_cmd[tag[m]] = NoCmd THEN UNCHANGED <<mid, dup>>
                                   ELSE ScsiDone(scsi_cmd[tag[m]])
    /\ pc' = [pc EXCEPT ![m] = "put"]
    /\ UNCHANGED <<stat, sn, scsi_cmd, cmd_pool_bits, queueVars, cmd_sn,
                   io_running, alloc, rd, tag, cur, msg, stage, snap, user>>

\* The callback drops the reference of the queue, the loop its own.
DrainPut(m) ==
    /\ pc[m] = "put"
    /\ CmdPut(tag[m], 2)
    /\ pc'  = [pc EXCEPT ![m] = "idle"]
    /\ tag' = [tag EXCEPT ![m] = NoTag]
    /\ UNCHANGED <<stat, sn, scsi_cmd, queueVars, cmd_sn, io_running, mid,
                   dup, alloc, rd, cur, msg, stage, snap, user>>

\* Under the lock: the queue is found empty and the drain goes on to the next.
DrainNext(m) ==
    /\ stage[m] # "off"
    /\ pc[m] = "idle"
    /\ StageQueue(m) = <<>>
    /\ stage' = [stage EXCEPT ![m] = NextStage(stage[m])]
    /\ UNCHANGED <<slotVars, cmd_pool_bits, queueVars, cmd_sn, io_running,
                   mid, dup, alloc, rd, pc, tag, cur, msg, snap, user>>

-----------------------------------------------------------------------------

Queue(s) == QueueAlloc(s) \/ QueueEnqueue(s)
Read(r)  == \/ ReadTake(r) \/ StampBegin(r) \/ StampFields(r)
            \/ ReadDeliver(r) \/ ReadFault(r)
Write(w) == \/ \E m \in user : DataFind(w, m) \/ RespondTake(w, m)
            \/ DataCopy(w) \/ RespondDone(w) \/ RespondPut(w)
Drain(m) == \/ DrainStart(m) \/ DrainPop(m) \/ DrainDone(m) \/ DrainPut(m)
            \/ DrainNext(m)

Next == \/ \E s \in Scs : Queue(s)
        \/ StartIo
        \/ \E r \in Readers : Read(r)
        \/ \E w \in Writers : Write(w)
        \/ \E m \in Drainers : Drain(m)

Spec == Init /\ [][Next]_vars

\* Every kernel thread goes on, and the target reads what is ready, gives read()
\* a good buffer in the end, and answers what it was given.  The answer is
\* strongly fair: between two answers a thread of the target may transfer the
\* data of other commands, any number of times, but not for ever.
Fairness ==
    /\ WF_vars(StartIo)
    /\ \A s \in Scs :
        /\ WF_vars(QueueEnqueue(s))
        /\ SF_vars(\E w \in Writers, m \in user : m.sc = s /\ RespondTake(w, m))
    /\ \A r \in Readers : WF_vars(Read(r)) /\ SF_vars(ReadDeliver(r))
    /\ \A w \in Writers : WF_vars(DataCopy(w) \/ RespondDone(w) \/ RespondPut(w))
FairSpec == Spec /\ Fairness

\* The target may have died: nobody reads or answers, but a dead target is
\* always detached, and every kernel thread goes on.
DrainFairness ==
    /\ WF_vars(StartIo)
    /\ \A s \in Scs : WF_vars(QueueEnqueue(s))
    /\ \A w \in Writers : WF_vars(RespondDone(w) \/ RespondPut(w))
    /\ \A m \in Drainers : WF_vars(Drain(m))
DrainSpec == Spec /\ DrainFairness

-----------------------------------------------------------------------------
(***************************************************************************)
(* Properties.                                                             *)
(***************************************************************************)

Reader == [pc : {"idle", "stamp", "fields", "deliver"}, arr : Seq(Tags),
           sc : Scs \union {NoCmd}, msgs : Seq([tag : Tags, sn : Nat,
                                                sc : Scs])]

Types ==
    /\ stat \in [Tags -> {"INIT", "REQUEST", "READ_COMP", "RESP"}]
    /\ sn \in [Tags -> Nat]
    /\ scsi_cmd \in [Tags -> Scs \union {NoCmd}]
    /\ refcnt \in [Tags -> Nat]
    /\ cmd_pool_bits \subseteq Tags
    /\ reqQ \in Seq(Tags) /\ cmpQ \in Seq(Tags) /\ rspQ \in Seq(Tags)
    /\ cmd_sn \in Nat /\ io_running \in Nat
    /\ mid \in [Scs -> {"idle", "driver", "late"}] /\ dup \subseteq Scs \union {NoCmd}
    /\ alloc \in [Scs -> Tags \union {NoTag}]
    /\ rd \in [Readers -> Reader]
    /\ pc \in [Workers -> {"idle", "copy", "done", "popped", "put"}]
    /\ tag \in [Workers -> Tags \union {NoTag}]
    /\ cur \in [Workers -> Scs \union {NoCmd}]
    /\ msg \in [Writers -> [tag : Tags \union {NoTag}, sn : Nat,
                            sc : Scs \union {NoCmd}]]
    /\ stage \in [Drainers -> {"off", "reqQ", "cmpQ", "rspQ"}]
    /\ snap \in [Drainers -> SUBSET Nat]
    /\ user \subseteq [tag : Tags, sn : Nat, sc : Scs]

\* Every variable keeps its type; the counters, unsigned or tested for zero in
\* the code, never pass below zero.  Without error handlers no command is late.
TypeOK == Types /\ mid \in [Scs -> {"idle", "driver"}]

\* No command is completed when the driver does not own it: whoever races
\* (answers, duplicate answers, drains, late readers), scsi_done is called once
\* for each time queuecommand accepted the command.
NoDoubleDone == dup = {}

\* The slots some thread has unlinked and whose command it will complete, and
\* all the slots whose command is still to be completed.
Closing == {tag[a] : a \in {x \in Workers : pc[x] \in {"done", "popped"}}}
Live    == Queued \union Closing

\* A command the driver owns is held at exactly one place, by the queuecommand
\* call that is about to link it or by one live slot; one the midlayer owns is
\* held nowhere.  No command is lost and none is answered through two slots.
Custody == \A s \in Scs :
    LET held == {t \in Live : scsi_cmd[t] = s} IN
    IF mid[s] = "driver"
    THEN IF alloc[s] # NoTag THEN held = {} ELSE \E t \in Tags : held = {t}
    ELSE alloc[s] = NoTag /\ held = {}

\* A slot of the pool is taken exactly when it is linked once into one queue,
\* or one thread holds it: a slot is neither leaked nor handed out while in use.
SlotAccounting ==
    LET byCmd  == {s \in Scs : alloc[s] # NoTag}
        byWork == {a \in Workers : tag[a] # NoTag}
        allocd == {alloc[s] : s \in byCmd}
        worked == {tag[a] : a \in byWork}
    IN /\ cmd_pool_bits = Queued \union allocd \union worked
       /\ Queued \intersect (allocd \union worked) = {}
       /\ allocd \intersect worked = {}
       /\ \A s, z \in byCmd : alloc[s] = alloc[z] => s = z
       /\ \A a, b \in byWork : tag[a] = tag[b] => a = b
       /\ NoDup(reqQ \o cmpQ \o rspQ)

\* io_running, kept by eight sections of code, is the number of queued slots.
IoRunningExact == io_running = Len(reqQ) + Len(cmpQ) + Len(rspQ)

\* When a drain is over, no command it found queued when it began is still
\* queued, wherever start_io and the readers moved it meanwhile.
DrainComplete == \A m \in Drainers :
    stage[m] = "off" => \A t \in Queued : sn[t] \notin snap[m]

\* An accepted answer, or data transfer, is for the very command the message
\* was about.
AnswerRightCommand == \A w \in Writers :
    pc[w] \in {"copy", "done"} => cur[w] = msg[w].sc

\* Without the lock, data is copied from or to the buffers of a command the
\* driver still owns, and so is the CDB (it is not a NULL pointer either).
CopiesLive ==
    /\ \A w \in Writers : pc[w] = "copy" => mid[cur[w]] = "driver"
    /\ \A r \in Readers :
        rd[r].pc = "fields" => rd[r].sc # NoCmd /\ mid[rd[r].sc] = "driver"

\* Every command is eventually completed.
Completes == \A s \in Scs : mid[s] = "driver" ~> mid[s] = "idle"

\* What the driver's state is to the service it promises: a command is waiting
\* while it is in cmpQ or reqQ, in the order of cmpQ followed by reqQ, handed out
\* while it is in rspQ, and closing once a thread has unlinked it to complete it.
ServiceState(s) ==
    IF alloc[s] # NoTag THEN "submitted"
    ELSE IF \E t \in ToSet(cmpQ \o reqQ) : scsi_cmd[t] = s THEN "waiting"
    ELSE IF \E t \in ToSet(rspQ) : scsi_cmd[t] = s THEN "handed out"
    ELSE IF mid[s] = "driver" THEN "closing" ELSE "idle"

ServiceStates == [s \in Scs |-> ServiceState(s)]
Waiting       == Image(scsi_cmd, cmpQ \o reqQ)

Service == INSTANCE VscService WITH st <- ServiceStates, waiting <- Waiting

\* The driver implements the service: its steps are steps of the service, and
\* every command it has accepted is completed.
KeepsPromise == Service!SSpec

\* A drain ends, if the midlayer does not dispatch commands for ever: none are added
\* to the lists again and again by the drain itself, by start_io or by the readers.
\* Nothing bounds the loop while commands keep arriving.
DrainEnds == <>[][\A s \in Scs : ~ QueueAlloc(s)]_vars =>
    \A m \in Drainers : stage[m] # "off" ~> stage[m] = "off"
=============================================================================
