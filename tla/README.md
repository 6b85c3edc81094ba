# A verification development of the vsc driver

`vsc` is a Linux SCSI low-level driver whose target is a user-space process
(the VBS of FusionStorage).  The SCSI midlayer queues commands to the driver;
threads of the target `read()` them from `/dev/vsc`, transfer their data and
`write()` the answers.  The driver also carries the midlayer's error handling
(abort, device reset) to the target as *events*, and survives a target that
goes away: it requeues what it holds, and takes the devices offline if no
target comes back in time.

This directory holds TLA+ models of that code, the TLC configurations that
check them on small instances, and proofs checked by TLAPS.

## Inventory of the system

Line numbers are those of `src/vsc_main.c` unless another file is named.

| component | state | operations | where it is hard |
|---|---|---|---|
| command lists and pool (273-307, 611-692) | `cmd_pool_bits`, `vsc_cmnd_list` per slot, `refcnt` | `vsc_cmd_alloc/get/put`, `addQ`, `removeQ` | a slot is on at most one list through one embedded node, freed by whoever drops the last reference |
| command path (857-1083, 2342-2484, 3156-3589) | `reqQ`, `cmpQ`, `rspQ`, `io_running`, `cmd_sn` | `queuecommand`, `vsc_start_io`, batch read, data transfer, answer | `h->lock` is dropped between finding a command and using it; slots are reused; answers may be late, stale or doubled |
| drains (1113-1284) | the three queues | `vsc_each_queue_remove` with the abort or requeue callback | runs against readers, writers and new commands, one queue after the other |
| events (373-603, 2493-2578, 3644-3732) | `event_reqQ`, `event_rspQ`, event pool, `shoot`, `event_priv`, `refcnt` | alloc, add, wait with timeout, read, answer, abort all | a waiter, the target and an abort-all race for one event |
| error handling (1296-1563) | host_scribble, events, queues | `eh_abort`, `eh_device_reset_handler` | the command may be answered, and its slot reused, while it is being aborted; the answer may race the timeout |
| host life cycle (787-814, 1572-1707, 2270-2280) | `file`, `suspend`, `target_abnormal_timer`, `target_abnormal_lock`, midlayer block flag | attach, detach, suspend, resume, offline timer | the timer races attach; block/unblock races suspend/resume |
| blocking read and poll (816-850, 3404-3458; `vsc_ioctl.c` 572-600) | `queue_wait`, `wakeup_pid` | `vsc_get_msg`, `vsc_poll_wait`, `vsc_interrupt_sleep_on_read` | lost wake-ups |
| dispatch over sibling hosts (1014-1056, 3956-4020, 4111-4197) | `host_list`, `host_count`, `io_per_host`, `io_per_host_shift` | round robin, `add_host_to_mgr`, `/proc` write | the table is read without a lock; two parameters change one after the other |
| host registration (4256-4489) | `g_host_mgr_list`, Scsi_Host references | register, remove, remove all | unwinding of a half-made host |
| disks (1833-2262) | sdev state kept in `sdev_data` | add, prepare-delete, remove, query, set state | look-up and use are separate steps; the pre-delete mark against queuecommand |
| data copy (2659-3145) | scatter list, iovec, offset | copy to/from iovec | length and offset arithmetic over two segment lists |
| module init/exit (4644-4759; `vsc_ioctl.c` 696-757) | proc dir, slab, mempool, devices | `vsc_init`, `vsc_exit` | unwinding |
| ioctl front end (`vsc_ioctl.c`) | `file->private_data` | argument copy and dispatch | attach/detach by several file descriptors |
| log, kallsyms look-up (`vsc_log.c`, `vsc_sym.c`) | log level | — | none: not modelled |

The components interact through one spinlock per host, `h->lock`, which
protects the queues and pools but is dropped around every call into the
midlayer (`scsi_done`), every copy to or from user space and every wait.  The
midlayer is the environment: it owns a command, gives it to the driver in
`queuecommand` and takes it back in `scsi_done`; it must get back each command
exactly once.

What makes each component correct: the command path completes each accepted
command exactly once and never touches a command it does not own; the pool and
`io_running` account for every slot; a drain leaves nothing behind that was
there when it began; an abort that reports success has taken the command out of
the driver; an event is freed only when nobody refers to it; a host without a
target never keeps commands for ever; a reader never sleeps while there is
something to read; data lands where the target asked for it and nowhere else.

## Plan

Done:

1. `VscList`, `VscCmd`, `VscService`: lists, the command path and drains of one
   host, and the service it implements (the core), with proofs.
2. `VscEvent`: event pool, queues, waiters, answers, abort-all, with proofs.
3. `VscEh`: `VscCmd` composed with the error handlers, with proofs.
4. `VscHost`: attach, detach, suspend, resume, offline timer, with proofs.
5. `VscRead`: blocking read, poll and wake-up, with proofs.
6. `VscHosts`: the table of sibling hosts, round-robin dispatch
   (`queuecommand` 1014-1056) against `add_host_to_mgr`, `remove_host` and the
   two-step `/proc` write; registration and its unwinding, with proofs.

7. `VscOutage`: `VscHost` composed with the commands of the host: what is sent,
   drained, answered, timed out and retried while targets come and go, with proofs.
8. `VscDisk`: the ioctls on disks, the pre-delete mark against `queuecommand`,
   look-up and use in separate steps, with proofs.
9. `VscCopy`: the copy between scatter list and iovecs, with proofs.

Next, in this order:

10. `VscEh` over several hosts (a reset drains every sibling, and aborts the
    events of one).
11. Module init and exit, unwinding step by step.

Every safety invariant and every action property that a run checks is stated by a
theorem.

What stays with TLC for good: liveness under fairness (and with it the liveness part of
`KeepsPromise`), what mentions ENABLED, and what a recursive definition computes for
every input.  Where a proof does need induction over data, as for the order in which a
batch of slots is unlinked, it goes by the least element of a set of numbers
(`LeastNat` in `VscListTheorems`), and the definition is not recursive.

## The core: `VscList`, `VscCmd`, `VscService`

`VscList` models the kernel lists as sequences.  A `vsc_cmnd_list` embeds one
`list_head`, so "is it linked" and "unlink it" never name a queue; `Del` on all
three queues is `removeQ`.

`VscCmd` models one host.  `stat`, `sn`, `scsi_cmd`, `refcnt` are the fields of
a slot; `cmd_pool_bits`, `reqQ`, `cmpQ`, `rspQ`, `cmd_sn`, `io_running` those of
`vsc_ctrl_info`.  `mid` is the midlayer's view (`driver` between `queuecommand`
and `scsi_done`), `dup` records a completion of a command the driver does not
own.  `alloc`, `rd`, `pc`, `tag`, `cur`, `msg`, `stage` are local variables of
the threads, `user` the messages the target was ever given (it may answer any
of them, at any time, any number of times), `snap` is history.

An action is one section under `h->lock` or one stretch between two of them:

| action | code |
|---|---|
| `QueueAlloc`, `QueueEnqueue` | `vsc_scsi_queue_command` with `vsc_cmd_alloc`; then with `vsc_enqueue_cmd_and_start_io` |
| `StartIo` | one turn of the loop of `vsc_start_io` |
| `ReadTake`, `StampBegin`, `StampFields`, `ReadDeliver`, `ReadFault` | `vsc_get_multi_scsi_cmd_and_cdb`: batch under the lock; the unlocked copy of each slot, split where another thread can change what it reads; `copy_to_user` or `errout` |
| `DataFind`, `DataCopy` | `vsc_scsi_cmd_data` up to the unlock; `vsc_xfer_data` |
| `RespondTake`, `RespondDone`, `RespondPut` | `vsc_response_scsi_cmd_new` |
| `DrainStart`, `DrainPop`, `DrainDone`, `DrainPut`, `DrainNext` | `vsc_each_queue_remove` with `vsc_abort_cmd_callback` or `vsc_requeue_cmd_callback`, which differ only in the result they set |

A slot's fields are unset until its first allocation (`kmalloc`); the model
gives them arbitrary fixed values, which no handler can read, since messages
name allocated slots only.  `Qdepth` is left out: it is never read.  The
midlayer's re-dispatch of a completed command is `QueueAlloc` again.  Not in
this module: the blocking in `read()`, several answers in one `write()` (the
loop of `vsc_response_multi_scsi_cmd` runs the same handler once per answer),
errors of the message format (they change nothing), and the error handlers.

`VscService` is the promise: submit, post, hand out in order, close, complete.
`VscCmd` implements it through `ServiceStates`, which reads off the queues and threads
where each command is, and `Waiting`, the commands of the slots in `cmpQ \o reqQ`.

### Runs

| run | question | instance |
|---|---|---|
| `cmd_core` | is every command completed exactly once, is nothing lost or leaked, does a drain leave nothing, does it end once no commands arrive, is `VscService` implemented, with its promise that every command is completed when the target is dead | 2 slots, 2 commands, 1 reader, 1 writer, 1 drainer, 3 serial numbers, batches of 2 |
| `cmd_answers` | do answers and transfers reach the right, live command, and is every command completed by a target that does its part | 3 slots, 3 commands, 2 readers, 1 writer, failing copies, no drainer |
| `fault_double_done` | a failed `copy_to_user` while a drain runs | violation, see findings |

Two slots and three serial numbers are enough for one slot to be freed and
reused under a thread that still remembers it, while the other command is in
any of the three queues; a writer and a drainer for two threads that complete one
command, the writer answering any message again; batches of two for a partial
batch.  That two writers do no harm to the safety properties is what the proofs
below add, for any number of them.  `MaxSn` bounds the number of commands issued in a
behaviour; `SnMod` stands for 2^32 and is not reached.

`cmd_core` has drains and no failing copies, `cmd_answers` failing copies and no
drains.  The code does not survive both: with `CopyFaults = TRUE` and a drainer,
`NoDoubleDone` is violated (`fault_double_done`), and so are `Custody` and
`DrainComplete`, since `errout` re-links slots that the drain has freed.  Nor does
a reader survive a drain: with a drainer, `AnswerRightCommand` and `CopiesLive` are
violated, because the fields of a slot, or the command it names, are used after
`h->lock` was dropped; a slot freed meanwhile is read, and stamped with a new serial
number.  Both are therefore checked, and true, as long as nothing drains the queues.
`CopiesLive` speaks of the reader, which copies the CDB, and of the writer, which
copies the data; the latter needs one premise more, a single writer: if another thread
of the target answers a command while its data is being transferred, the command is
gone under the transfer.  The comment at 2395 knows of the race and judges it
harmless.

Deadlock checking is off: a driver with nothing to do may stop.

### Fairness

`FairSpec` (run `cmd_answers`): kernel code that is running goes on (weak
fairness); the target reads when there is something to read, in the end with a
buffer that can be written (strong fairness of `ReadDeliver`), and, having been
given a command, answers it (strong fairness, because between two answers a
thread may transfer data of other commands).  That is the contract of a live
target, not of the driver.  `DrainSpec` (run `cmd_core`) assumes nothing of the
target; it assumes that a dead target is detached (`vsc_dev_release` does it when
the process exits) and that kernel threads go on.

### Proofs

`VscListTheorems` proves the facts about lists: what appending, unlinking one entry or a
set of entries and taking a batch do to the members of a list, to its order and to
entries being distinct, and how the image of a list under a function follows.

`VscCmdProofs` proves for any number of slots, commands and threads:

| theorem | property | premise |
|---|---|---|
| `TypeCorrect`, `ExactlyOnce`, `NeverLost`, `SlotsAccounted`, `RunningExact` | `TypeOK`, `NoDoubleDone`, `Custody`, `SlotAccounting`, `IoRunningExact` | `NoRelink`: no copy fails, or nothing drains and serial numbers do not wrap |
| `DrainsComplete` | `DrainComplete` | no copy fails; serial numbers do not wrap |
| `AnswersRight` | `AnswerRightCommand` | nothing drains; serial numbers do not wrap |
| `CopiesOfLive` | `CopiesLive` | the same, and a single writer |
| `ImplementsService` | `Service!Safety` | no copy fails |

The premises are where the code fails.  A batch that is given back while a drain runs
breaks exactly-once completion (`fault_double_done`); a drain invalidates what readers
and writers remember.  `NoWrap` (`MaxSn < SnMod`) says that a behaviour issues fewer
than 2^32 commands: the serial number is 32 bits wide, and once it comes round, a
stale answer can fit a new command, and what a drain found queued can no longer be told
from what came later.

- *Custody.*  None of the first five is inductive alone.  `IInv` adds who owns a slot:
  every slot of the pool has exactly one owner (a queue, a `queuecommand` call, or a
  thread that unlinked it), its reference count is what that owner accounts for, a
  linked slot names a command of the driver, and no two live slots name the same one.
  Actions that move a slot between queues, that unlink one, complete one and release
  one share a frame lemma each.  `IInv` is `Inv(Nothing)` with the type invariant:
  `Inv` is stated relative to the references that are lent to somebody outside the
  command path, so that the same lemmas serve the error handlers below.
- *Drains.*  `Serials`: slots in use have different serial numbers, none from the
  future.  `Drained`: what a drain found queued and is still queued is in the list it
  is working on or a later one.  That holds because a slot moves only from `reqQ` to
  `cmpQ` to `rspQ`, the order in which a drain takes the lists.
- *Answers.*  `Messages`: the slots of a batch stay in `rspQ` until their messages are
  delivered, since the target knows no message that names them; batches do not
  overlap; and a message the target was given still agrees with its slot if the
  slot has the message's serial number.  So a batch that is given back after a
  failed copy takes back slots that nobody else has touched, which is also why
  the first five hold with failing copies if nothing drains.
- *Refinement.*  Step by step: `QueueAlloc` is `Submit`, `QueueEnqueue` is `Post`,
  `StartIo` leaves `Waiting` as it is (it moves the head of `reqQ` to the tail of
  `cmpQ`), `ReadTake` is `HandOut` of a batch, `RespondTake` and `DrainPop` are `Close`,
  wherever the slot is, `RespondDone` and `DrainDone` are `Complete`; the rest is a
  stutter.  `ReadFault` puts commands that were handed out back into the row, hence the
  premise.

Only model-checked: `Completes`, `DrainEnds` and the liveness part of `KeepsPromise`.
`DrainEnds` has a premise: from some point on no command is dispatched.  The loops of
`vsc_each_queue_remove` go on while a list is not empty, and nothing in the code bounds
them while commands keep arriving; what the property says is that the drain, `start_io`
and the readers do not keep one another busy.

## Events: `VscEvent`

An error handler allocates an event (`vsc_event_alloc`), links it into
`event_reqQ` (`vsc_event_add`) and sleeps on it (`vsc_event_wait_timeout`); a
reader moves it to `event_rspQ` and copies it to the target; a writer finds it by
tag, sets its result through the callback and wakes the handler; the handler
reads `event_priv` twice, first to decide whether to unlink the command, then as
its return value, and deletes the event.  `vsc_abort_all_event` runs beside all
of them.  `wpc`, `gpc`, `rpc`, `apc` are the positions of handlers, readers,
writers and aborts; each action is one section under `h->lock` or one stretch in
which another thread can interfere.  An answer is any message the target was ever
given, well-formed or not; a wait times out only where `Timeouts` allows it.

| run | question | instance |
|---|---|---|
| `event` | are events shared, leaked or left linked; is a handler told SUCCESS only if the target said so of its event, and the same twice | 2 events, 2 handlers, 2 readers, 2 writers, timeouts, one failing copy, no abort |
| `event_live` | does every handler return, with aborts and timeouts | 1 event, 1 handler, 1 abort |
| `event_freed` | an abort while two handlers wait | violation, see findings |

Each premise is needed.  With an abort, `EventOwned` fails (`event_freed`: the
reference of the handler is put twice).  `Honest` is claimed until a wait has timed
out (`lapsed`): afterwards an answer that has found its event writes the result after
the handler gave the event up, into whatever the event is used for next, or between
the two reads of `event_priv`.  `LinkedOwned` is claimed unless a wait has timed out
and a copy has failed, because then `errout` of `vsc_get_event` re-links an event whose
handler has deleted it.  `EventOwned` and `PoolWhole` need neither of these two, but the
absence of aborts, which put the pool's books wrong: without them, whatever is
left linked or answered late, no event is shared or lost.

Fairness of `event_live`: the handler and the abort go on, and a wait ends at its
timeout at the latest; nothing is assumed of the target.

`VscEventProofs` proves `EventOwned` and `PoolWhole` for any pool and any number of
handlers, readers and writers, from `Aborters = {}`.  The invariant says of each
handler at work that its event is taken, carries its serial number and has one
reference, or two from `WaitBegin` to `WaitEnd`; of two handlers that their events
differ; and of each taken event that some handler has it.  The queues do not occur in
it: whether an event is linked, late or answered twice has no part in who owns it.
The premise is where the code fails (`event_freed`).

It also proves, from the same premise, `LinkedOwned` and `Honest`, which relate the
handler to what the target does.  `Links` says that each linked event is linked once and
belongs to a handler between `vsc_event_add` and `vsc_event_del`; it holds until a wait
has timed out *and* a copy has failed.  While no wait has timed out, an event goes
through one `Round`: it is `Fresh` (no answer, not shot) until it is read, is `Reading`
by one reader at most, stays in `event_rspQ` when `ReadOut`, is `Answering` by one
writer at most, who took it with the serial number of its message, and is `Shot` before
its handler goes on; `Told` is what follows for the handler: SUCCESS in `event_priv`
was granted to this round, and no write comes between the two reads.  The cases of
`Honest` in the code are exactly where the round ends early: a timeout.
`HandlerReturns` is temporal and only model-checked.

## Error handling: `VscEh`

`VscEh` extends `VscCmd` with `vsc_eh_abort` and `vsc_eh_device_reset_handler`,
run by the threads `Drainers`; a reset drains with the actions of `VscCmd`.
`scribble` is `host_scribble`; `mid` gets the value `late` for a command that the
midlayer has given to its error handler; the event is abstracted to the outcome
the handler reads.  Commands of sibling Scsi_Hosts are still dispatched to the
host while the error handler of one of them is at work, so slots are reused then.

| run | question | instance |
|---|---|---|
| `eh` | are aborted, reset and answered commands given back once, by the right party, with the pool exact, while the handlers are `Sound`; is every command that times out recovered | 2 slots and commands, 1 reader, 1 writer, 1 error handler, 2 timeouts; the event pool may run out, the target may answer at any time |

A command may time out at any time while the driver has it, several may be late at once, and nothing keeps the target from answering any of them, or the slots from
being reused.  So `host_scribble` may name a slot that is free again, or another
command's, when a handler reads it (1350, 1488).  The code does not ask; it counts a
reference, and what it does from there on, unlinking another command, completing its own
a second time, putting a slot twice, keeps none of the driver's promises.  The model
takes that step, notes it (`astray`) and ends there.  Two ways lead to it: an answer or
a drain between the timeout and the look-up, and an abort whose first reading of
`event_priv` (1392) was SUCCESS, which unlinks the slot and puts it, and whose second
(1416) is FAILED: the device reset that follows looks the freed slot up.

The three invariants are claimed while the handlers are `Sound`: none has gone astray,
and none has forgone its command (`forgone`), which happens in three ways.  With an
exhausted event pool the handlers report SUCCESS although the driver keeps the command
(the comments at 1367 and 1505 say themselves that this should be FAILED, or that the
command should be freed).  The reading of `event_priv` that changes from FAILED to SUCCESS makes
an abort report SUCCESS for a command it has not unlinked.  And an answer or another drain may
have unlinked the slot, without having called `scsi_done` yet, when the handler returns.
What the invariants then say is that no other order of events does harm: from its
look-up on, a handler never loses its slot to another command.  `Recovers` needs only
that the handler has not gone astray.  Its fairness: error handlers go on.

### Proofs

The last part of `VscCmdProofs` proves `EhCustody` (`RecoveredOnce`), `EhSlots`
(`EhSlotsExact`) and `AbortRightCommand` (`AbortsRight`) for any number of slots,
commands, threads, error handlers at work at once and timeouts, and whether or not
events run out or verdicts come late.  The only premise is the one of the command path,
that no copy fails while drains run (`CopyFaults = FALSE`).  The first part of the
argument carries the invariant of `VscCmd` over, the rest is about the handlers:

- *Lent references* (`Loans`).  The reference a handler takes in `AbortBegin` or
  `ResetBegin` has no counterpart in `VscCmd`, where a slot that is taken always has an
  owner.  `Inv(lent)` says what the reference counts and the pool amount to when some
  references are lent: one while a handler holds its slot, two from the moment it has
  unlinked it, since the queue's reference passes to it.  Every step of the command path
  preserves `Inv(lent)` for a fixed `lent` (`NextStep`); a handler's step changes `lent`
  by one (`LendFrame`, `TakeFrame`, `ReturnFrame`).
- *To each its own* (`Apart`, `Pursues`).  Two handlers pursue two commands, and the slot
  of a handler is the one `host_scribble` names for its command, and still the command's:
  a slot somebody holds a reference to is not handed out.
- *One slot per command* (`Saved`, `Unbound`).  The slot a command is live in is the one
  `host_scribble` names, so the slot a handler unlinks or drains is the only one there
  can be.
- *Nothing is left* (`Clears`, `Corners`, `Sweeps`).  After a successful abort no queue
  names the command.  While a reset drains, the handler's slot, if still linked, lies ahead
  of the drain, so it is gone when the drain ends.  Hence the midlayer takes back a
  command that the driver has forgotten, unless somebody is about to call `scsi_done` for it
  (`forgone`).
`EhInv` claims their conjunction (`Recovery`) while `Sound`.  `Recovers` is temporal and only
model-checked.

## The life of a host: `VscHost`

`h` is `vsc_ctrl_info` as far as attach, detach, suspend, resume and the timer
use it; `owner` the files whose `private_data` names the host, `closing` those in a
detach that starts the timer (the file was closed, not detached by ioctl); `pc` the
position of the call each file is in, `tpc` that of `vsc_target_abnormal`.
`h->lock` is held by an attach over `del_timer_sync` (`Locked`) and by everyone else
within one action.  `VscHost` is checked as part of `VscOutage`, below.

`Overlap = FALSE` assumes that a successor attaches after the predecessor's detach
has returned.  Detach gives the host free (`h->file = NULL`) before it blocks it,
marks it suspended and starts the timer; an attach that returns in between finds
its own host blocked and, after the timeout, its disks offline: with
`Overlap = TRUE` TLC finds `BlockedIffSuspended` and `OfflineWithoutTarget` violated.

Fairness: a call that has begun goes on; the timer expires; the callback goes on,
also when it spins for `h->lock`, since the kernel's spin locks serve in order
(strong fairness of `CallbackAbort`).

`VscHostProofs` proves `TypeOK` (with the exact count of `target_abnormal_lock`),
`SyncNeverStuck`, `OfflineWithoutTarget` and `BlockedIffSuspended` for any number of
files, from `Overlap = FALSE`.  The invariant adds who has, takes or leaves the host
(`Places`, and `Alone`: no two of them at once), that a pending or running timer means
that there is no target, and at which step of which call the midlayer's flag and
`h->suspend` differ (`Suspended`, `Blocked`, `Stages`).  `GuardCount` isolates the argument
about cardinalities: every step adds one thread to `Guards`, removes one, or
changes only the callback's share.  `TakenOverOrOffline` is temporal and only
model-checked.

### A host and its commands: `VscOutage`

`VscOutage` extends `VscHost` with commands.  `cmd` says where each is: `ended`;
`waits` in the queue of its disk; `passed`, sent by the midlayer but not yet in a
queue of the driver; `queued` there; `late`, timed out and with the error handlers.
Every step of `VscHost` is taken through `Host`, which adds what it means for the
commands: a drain that begins (in `DetachRequeue`, `CallbackAbort`) ends when the
commands are gone that were queued then (`old`), which is what `DrainComplete` and
`DrainEnds` say of `VscCmd`.

The midlayer is modelled as far as the driver relies on it:

- it sends a command only if the host is not blocked, and fails it if the disk is
  offline, but it looks before it sends: a command that `passed` may arrive after
  the host has been blocked and drained.  `vsc_scsi_queue_command` itself asks
  neither.
- the disk of a sibling host has a block flag of its own, and its commands are dealt
  to this host too (`Foreign`, `VscHosts`): this host's block does not stop them.
- a command given back with DID_REQUEUE (the drain of a detach) is retried without
  being counted; one given back with DID_SOFT_ERROR (the callback's) or by the error
  handlers is retried `Allowed` times.

| run | question | instance |
|---|---|---|
| `outage` | deadlock of attach and timer, the timer against a new target, block against suspend, the count of `target_abnormal_lock`, what a detach leaves behind, what becomes of the disks and of every command when a timer is pending | 3 files, a command of this host's disk and one of a sibling's, 1 retry |

Three files: one that leaves, one that attaches, one that tries to.  One command of
each kind is enough, since commands are independent of one another; which of them a
drain finds is the subject of `VscCmd`.

`SweptClean` says what block-then-drain is worth: from the end of the drain until a
target comes or the timer's callback opens the host, nothing of this host's disks is
in the driver but what had passed the look at the block before the drain ended.
`EndsAtLast` says that the whole arrangement works: once the timer runs, no command is
kept for ever, whether it waits behind the block, was given back, or slipped in
between the callback's abort and the disks going offline, when it must time out.  If
the timeout is 0, or the target was detached by ioctl, no timer runs, and commands wait
for the next target however long it takes.

Fairness, besides that of the host: a drain goes on (strong fairness, as it gives the
lock away between two commands); the midlayer runs the queue of a host that is not
blocked; a command that stays queued times out, and is recovered (`Recovers` of
`VscEh`).

`VscHostProofs` also proves that the composition implements `VscHost` (`OutageIsHost`:
each step is a step of the host or leaves it alone), so that what is proved of a host
holds of a host with commands, and `SweptClean` for any number of files and commands,
from `Overlap = FALSE`.  `SweptInv` adds to the invariant of the host that from
the end of the drain the host has no file, is blocked, and the callback is not at work,
and that all that is on its way (`passed` or `queued`), siblings' commands apart, was
so when the drain ended.  That the host stays blocked needs the host's own invariant:
the thread that suspended it may not be about to lift the block (`Places`).
`EndsAtLast` is temporal and only model-checked.

## Sleeping and waking: `VscRead`

Threads that block in `read()` (`Readers`) or in `poll()` (`Pollers`), producers of
commands and events, a detach and a close, all on `queue_wait`.  The queues are
counted.  `wait_event_interruptible` and `poll` are modelled by what they do: test,
join the wait queue, test again, sleep.

| run | question | instance |
|---|---|---|
| `read` | does anybody sleep over work, does a sleeper get it, does closing the file end a read | 1 reader, 1 poller, 1 producer, batches of 2, at most 3 queued |

One reader, one poller and one producer already make every order of test, join,
sleep, queue and wake.  Three queued exceed a batch.  `CloseEndsRead` is stated for
one blocking reader: `wakeup_pid` is a single flag, and with two readers the first
resets it and the other sleeps on.  `returned` marks work that a failed read gave
back without waking anyone, over which another thread may sleep; both wake-up
properties exempt it, because the code does not wake.  A detach wakes the sleeping
readers but gives them no reason to leave; they sleep again.

Fairness: threads in the kernel go on unless they sleep.  Nobody need ever read.

`VscReadProofs` proves `NoLostWakeup` for any number of threads, commands and events,
from `ThreadAssumption` (a thread reads or polls, not both).  It is nearly inductive:
every step that brings work leaves a producer that is about to wake, and a thread goes to
sleep only after a test, with the wait queue already joined.  What it needs besides
(`Kinds`) is that only readers sleep in `read()` and only pollers in `poll()`, so that a
wake-up, which treats the two differently, reaches everyone (`WakeAll`).  `Served` and
`CloseEndsRead` are temporal and only model-checked.

## Registration and dispatch: `VscHosts`

The hosts of one VBS.  `have` says what each Scsi_Host holds of the parts that
registration adds one by one; `rpc` is the position of a registration, `host_list`,
`host_count`, `silbing` the table as `vsc_add_host_to_mgr` fills it, in the order of
the code; `qpc` the position of a `queuecommand` for one disk (`disk`), whose counter
is `sn`.  Registration may fail at every step (`RegFail`) and gives back what the
failing step's place in the code says (`GivesBack`); `RemoveHost` is the ioctl,
`RemoveAll` the unloading.  `ctrl_host_reg_lock` and `ctrl_info_list_lock` are held by
whoever is in a step that holds them.  What becomes of the command, and what removal
does to commands, events and the timer, is the subject of the other modules.

| run | question | instance |
|---|---|---|
| `hosts` | is there one complete host per number whatever fails, which are left behind at the end, which empty entries are commands dealt to, are the commands of a volume shared out evenly | 2 numbers, in any order, 2 hosts each, 2 registrations, 2 CPUs queueing, counters up to 5 that wrap at 4, `io_per_host` in 0, 1, 4 (and 2, the default) |

Two numbers are enough for the first host, whose table is made, and a further one,
which is added to it while commands are dealt; two hosts for a number that is
registered twice.  The counter wraps at 4: two hosts divide that with batches of one and
of two, and do not with batches of four, so that both kinds of wrap occur, as with 2^32
and a number of hosts that is a power of two or not.

`Balanced` compares the shares since the table or the shift last changed
(`hits`), not counting commands that took their number before (`stale`).  Where a batch
for each host does not divide 2^32 (three hosts, say), the wrap of the counter cuts a
round short and a host may fall a batch or more behind: `Balanced` holds until then, and
beyond where it does divide (`Seamless`).

What the properties assume:

- Nothing makes the target register its hosts in the order of their numbers, nor
  succeed with the lower ones.  While a number below a registered one is missing (`Hole`),
  the count, which is that of the entries, is used as if the entries below it were the ones in use:
  `queuecommand` deals commands to the empty entry (with host 1 alone, to entry 0), and
  the unloading of the module does not reach the hosts at the end.  `NoEmptySlot` says that
  this is the only way to an empty entry, and `WholeOrNothing` that it is, orphans
  apart, the only way for a host to be left behind (`holes`).
- `rmv_host` frees a host and leaves its entry in the table: the line that took it
  out is commented out (4429).  Who follows the entry, or has picked the host before,
  uses freed memory, and the model ends there (`UseFreed`, `wild`); the properties
  speak of what happens before.
- A table that cannot be allocated goes unnoticed (4369); such hosts are `orphans`,
  which `OnePerNumber` and `WholeOrNothing` except.

That each host gets `io_per_host` commands in a row, as the comment at 1014 says, is not
asked: the module parameter changes `io_per_host` and not the shift.

### Proofs

`VscHostsProofs` proves `TypeOK`, `OnePerNumber`, `WholeOrNothing` and `NoEmptySlot` for
any number of hosts, objects, registrations and CPUs, from `HostAssumption` and
`BoundAssumption` alone.  None of the four is inductive: that a number has one host
rests on which host a registration may be working on.  The invariant says

- who is at work: one registration at most (`ctrl_host_reg_lock`), on a
  number that is not in the table, with exactly the parts it would give back if it failed now (`AtWork`);
- what the table holds: `host_count` counts the entries (`Entered`), but for the one
  being published (`Filled`), and each is complete unless `rmv_host` has freed it
  (`Entries`);
- that whatever exists is being registered, in the table, or an orphan (`Owned`).

`NoEmptySlot` then needs that the count never falls while disks exist, that the modulo
keeps the index below the count the CPU has read (`IndexBelowCount`), and a step from
numbers to sets: if the count reaches an empty entry, it counts one above it
(`EmptyIsHole`; `BeyondIsAboveHole` is the converse for the unloading).

`EvenShares` proves `Balanced` for any number of hosts and CPUs and any batch, wraps
of the counter included (`LastOfRange`).  `Balanced` counts over the history of a volume, so the
invariant (`Shares`) says what that history amounts to: the counter walks over the hosts,
a batch each, round after round; what the commands since the last change of the table have
brought a host, those that have their number but have not been noted yet included
(`Dealt`), is a whole number of rounds, the same for all, plus what the present round has
dealt it, minus what the round in which the table changed had dealt it before.  Two
hosts differ by one batch at most then.  The arithmetic behind it, a quotient modulo the
number of hosts, is in `NextMod` and `NextIndex`.

## Disks: `VscDisk`

The disks of one host are `scsi_device`s of the midlayer.  `addr`, `st`, `refs` are
fields of a device, `name` and `mark` what the driver keeps in its `sdev_data`,
`devices` the host's list, in which a device stays until its last reference is put,
deleted or not.  `pc` is the position of an ioctl: add (with or without a volume's
name), remove, prepare removal (by name), set state, and those that only look (get
state, set timeout).  `scsi_add_device` and `scsi_remove_device` are modelled by what
the driver relies on: they exclude one another (`scan_mutex`), adding finds or makes
and probes a device, and removing flushes the cache of a disk before it deletes it.

| run | question | instance |
|---|---|---|
| `disk` | is every reference put, whichever way an ioctl ends; does the mark stay; does the removal of a marked disk end on a host that is always resumed | 2 threads, 2 devices, 1 address, 1 name, the states running and offline |

One address is the interesting case: two devices of the same address are alive at once
when one is deleted and still open while the other is added.  Two threads make every
pair of ioctls.

`MarkSticks`: `VSC_PREPARE_RMV_VOL` reports a disk as marked, after which
`queuecommand` fails its commands (1003).  The mark is a plain word that an add writes
too, after a look-up of its own: a mark set between an add's scan and its write is lost,
which the property excepts (`late`).  That the exception covers only adds at work at the
time is what the first look-up of the add is for (mutant `AddBegin_Blind`).

`RemovalEnds`: the flush is sent to a target that may be dead, on a host that may be
suspended.  For a marked disk the removal ends although the target answers nothing, with
one premise, `Resumed`: whenever the host is suspended it is resumed.  The code gives no
such guarantee.  The resume is an ioctl of the target, or the work of a timer that runs
only if a timeout is set; a host suspended after the check at 2023 and left so keeps
`scsi_remove_device` waiting for ever, with `scan_mutex` held, since the midlayer does not
call `queuecommand`, which would look at the mark.  Fairness: threads in the kernel go on,
and a flush that waits is sent when the host is opened.

`VscDiskProofs` proves `TypeOK` and `MarkSticks` for any number of threads, devices,
addresses and names.  `MarkSticks` alone is not inductive: an add that writes its own
mark must be shown to hold a disk of the address it asked for, and to know of every
promise made there since its first look-up (`Aware`).  That needs a device in hand to keep its
address, hence to stay on the list, hence the exact count of references (`Counts`: one
of the midlayer, one per opener, one per thread in `Holders`), and that in turn that
only the holder of `scan_mutex` makes or deletes a device (`Position`).  `RemovalEnds`
is temporal and only model-checked.

## The copy: `VscCopy`

A behaviour is one call of `vsc_xfer_data`; an action is one turn of one of its loops,
in the variables of the code: `sl_first`, `sl`, `sl_offset`, `j`, `left_len`,
`iov_base_offset`, `totallen`.  Buffer and iovecs are sequences of parts, given by the
places where they are cut; `moved` collects the pairs of bytes copied.  The twin
functions of the two directions have the same body and share the model.  A copy to or
from user space may fail at any turn.

| run | question | instance |
|---|---|---|
| `copy` | does every byte land in its place, is a copy that ends well complete, is a READ or WRITE copied whole or failed | every cut of up to 4 bytes into up to 3 segments and up to 3 iovecs, empty ones included; every announced length, every offset of an unsigned int that wraps at 7 |

The offset is the target's.  For data it is compared with the length of the buffer (`Seek`);
for a CDB or sense data it is not, and `left_len -= offset` (2671, 2717) wraps when it lies
beyond: the copy then takes what lies behind the buffer, as long as the iovecs go on.
`Left` computes it so, modulo `Word`.  `InPlace` says of every offset that bytes are
paired rightly and the iovecs are not left, and of the buffer that it is not left if the
offset lies within (`Within`); `AllCopied` has the same premise.  `Word = 7` is more than
the 4 bytes of a buffer (`CopyAssumption`) and makes offsets within, at and beyond the end.
The rest of the arithmetic is that of unbounded integers, since lengths are below 2^31.
Four bytes and three parts make segments
that begin, end and lie inside an iovec, and the other way round.

### Proofs

`VscCopyProofs` proves `InPlace`, `AllCopied` and `WholeCommand` for every number and
length of segments and iovecs.  The code remembers its place in the buffer in two ways,
a segment (`sl_first`, or `sl` within a turn) and the bytes of it that are left
(`left_len`, 0 for "all"); the invariant ties them to the bytes copied:

- `InPlace` itself, with its premise on the offset: the pairs copied are `offset + x` with `x`, for `x < totallen`;
- `Position`: byte `offset + totallen` of the buffer lies in the current segment, and
  byte `totallen` of the iovecs is the next one of the current iovec;
  `sl_offset + j` is the number of segments behind;
- `Announced`: past the check at 2862 a READ or WRITE has announced the size of its
  buffer;
- `Done`: how `totallen` relates to both sizes once a value is returned.

In a CDB or sense data the place is not a segment but what is left: `left_len + totallen`
is `Left` (`AtPlain`), which is the true difference if the offset lies within (`LeftIs`).

`CutsAre` and `Parts` say what memory cut into parts is; `PairsGrow` is the step that
the copy of one piece takes.

## What is not modelled, and why

- Module init and exit: the unwinding of `vsc_init` has no concurrency and is next in
  the plan; the unloading of the hosts is in `VscHosts`.
- The drain of the sibling hosts by a device reset, and the abort of the events of one
  host only, are still to come; `VscEh` has one host.
- The ioctl front end: copying and checking arguments, and the capability check.  The
  operations behind it are modelled.  `vsc_query_vol` only reads.
- Several commands in one `write()`: the loop runs the handler of `VscCmd` once per
  message and stops at the first one that fails.
- Logging and symbol look-up have no state worth a model; the statistics counters and
  `Qdepth` are never read by the driver.
