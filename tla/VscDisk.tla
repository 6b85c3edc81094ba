------------------------------- MODULE VscDisk -------------------------------
(***************************************************************************)
(* The disks of one host: the ioctls that add, mark, remove and inspect      *)
(* them, run by several threads of the target.                               *)
(*                                                                         *)
(* A disk is a scsi_device of the midlayer, found on the host's list under   *)
(* host_lock and kept alive by references; it leaves the list with the last  *)
(* of them, which may be long after it was deleted.  The driver keeps the    *)
(* volume's name and a mark in the device.  The mark VSC_DISK_PREPARE_DELETE *)
(* makes queuecommand fail every command of the disk at once, so that the    *)
(* removal, which flushes the disk's cache, does not need the target.  Name  *)
(* and mark are written without a lock.                                      *)
(***************************************************************************)
EXTENDS VscList, FiniteSets

CONSTANTS
    Threads,    \* threads of the target in an ioctl of the device
    Disks,      \* scsi_devices; their number bounds those alive at once
    Addrs,      \* channel, id and lun
    Names,      \* names of volumes
    Stats,      \* the states VSC_SET_DISK_STAT is asked for
    NoDisk, NoThread, NoName, NoAddr

ASSUME DiskAssumption == /\ NoDisk \notin Disks /\ NoThread \notin Threads
                         /\ NoName \notin Names /\ NoAddr \notin Addrs
                         /\ IsFiniteSet(Threads)
ASSUME StatAssumption == Stats \subseteq {"running", "offline", "block"}

VARIABLES
    \* struct scsi_device: address, sdev_state, references; in its sdev_data
    \* vol_name and state
    addr, st, refs, name, mark,
    \* shost->__devices, scan_mutex and host_self_blocked
    devices, scanner, blocked,
    \* the ioctls: position, arguments and the device referenced
    pc, want, vol, dev,
    \* disks some program has open
    opened,
    \* history: disks of which VSC_PREPARE_RMV_VOL has said that they are
    \* marked, and for each adder those marked at its address meanwhile
    promised, late

diskVars == <<addr, st, name, mark, devices>>
callVars == <<want, vol, dev>>
vars == <<diskVars, refs, scanner, blocked, pc, callVars, opened, promised, late>>

Listed == ToSet(devices)

Init ==
    /\ addr = [o \in Disks |-> NoAddr]
    /\ st   = [o \in Disks |-> "del"]
    /\ refs = [o \in Disks |-> 0]
    /\ name = [o \in Disks |-> NoName]
    /\ mark = [o \in Disks |-> "none"]
    /\ devices = <<>> /\ scanner = NoThread /\ blocked = FALSE
    /\ pc   = [t \in Threads |-> "idle"]
    /\ want = [t \in Threads |-> NoAddr]
    /\ vol  = [t \in Threads |-> NoName]
    /\ dev  = [t \in Threads |-> NoDisk]
    /\ opened = {}
    /\ promised = {} /\ late = [t \in Threads |-> {}]

(***************************************************************************)
(* Helpers.                                                                *)
(***************************************************************************)

\* __vsc_scsi_device_lookup: the device at an address, deleted ones left out.
At(a) == {o \in Listed : addr[o] = a /\ st[o] # "del"}

\* __vsc_scsi_device_lookup_by_vol_name: the first device of that name, be it
\* deleted.
Named(n) == {devices[i] : i \in {j \in DOMAIN devices :
    name[devices[j]] = n /\ \A k \in 1 .. j - 1 : name[devices[k]] # n}}

\* scsi_device_get, which fails for a deleted device.
Get(o) == refs' = [refs EXCEPT ![o] = @ + 1]

\* mutant: the reference is kept.
Put_Kept(o) == UNCHANGED <<refs, diskVars, promised>>

\* scsi_device_put: the last reference takes the device off the list.
Put(o) ==
    /\ refs' = [refs EXCEPT ![o] = @ - 1]
    /\ UNCHANGED st
    /\ IF refs[o] = 1
       THEN /\ devices' = Del(devices, o)
            /\ addr' = [addr EXCEPT ![o] = NoAddr]
            /\ name' = [name EXCEPT ![o] = NoName]
            /\ mark' = [mark EXCEPT ![o] = "none"]
            /\ promised' = promised \ {o}
       ELSE UNCHANGED <<devices, addr, name, mark, promised>>

\* mutant: the midlayer is asked to flush the cache of a marked disk.
Refused_Never(o) == FALSE

\* queuecommand completes the commands of a marked disk with DID_NO_CONNECT.
Refused(o) == mark[o] = "prepare"

\* The states from which each state may be set.
StatFrom(s) ==
    CASE s = "running" -> {"created", "offline", "block"}
      [] s = "offline" -> {"created", "running", "block"}
      [] s = "block"   -> {"running"}

Goto(t, p) == pc' = [pc EXCEPT ![t] = p]

\* t holds device o from here on.
Take(t, o, p) == /\ Get(o)
                 /\ dev' = [dev EXCEPT ![t] = o]
                 /\ Goto(t, p)

Return(t) ==
    /\ Goto(t, "idle")
    /\ want' = [want EXCEPT ![t] = NoAddr]
    /\ vol'  = [vol EXCEPT ![t] = NoName]
    /\ dev'  = [dev EXCEPT ![t] = NoDisk]
    /\ late' = [late EXCEPT ![t] = {}]

(***************************************************************************)
(* vsc_add_device and vsc_add_device_by_vol_name (n is NoName for the        *)
(* former), which are refused on a host without a target.                    *)
(***************************************************************************)

\* mutant: nobody looks whether the disk exists.
AddBegin_Blind(t, a, n) ==
    /\ pc[t] = "idle"
    /\ Goto(t, "scan")
    /\ want' = [want EXCEPT ![t] = a]
    /\ vol'  = [vol EXCEPT ![t] = n]
    /\ UNCHANGED <<diskVars, refs, scanner, blocked, dev, opened, promised, late>>

\* A disk that exists is looked up, and put by Finish.
AddBegin(t, a, n) ==
    /\ pc[t] = "idle"
    /\ \/ /\ At(a) = {}
          /\ Goto(t, "scan")
          /\ want' = [want EXCEPT ![t] = a]
          /\ vol'  = [vol EXCEPT ![t] = n]
          /\ UNCHANGED <<refs, dev>>
       \/ \E o \in At(a) : Take(t, o, "put") /\ UNCHANGED <<want, vol>>
    /\ UNCHANGED <<diskVars, scanner, blocked, opened, promised, late>>

\* scsi_add_device: under scan_mutex the midlayer looks for the device itself,
\* content to find it, and otherwise makes one, ...
ScanBegin(t) ==
    /\ pc[t] = "scan" /\ scanner = NoThread
    /\ IF At(want[t]) # {}
       THEN /\ Goto(t, "found")
            /\ UNCHANGED <<diskVars, refs, scanner, dev>>
       ELSE \E o \in Disks \ Listed :
            /\ addr' = [addr EXCEPT ![o] = want[t]]
            /\ st'   = [st EXCEPT ![o] = "created"]
            /\ refs' = [refs EXCEPT ![o] = 1]
            /\ devices' = AddTail(devices, o)
            /\ scanner' = t
            /\ dev' = [dev EXCEPT ![t] = o]
            /\ Goto(t, "probe")
            /\ UNCHANGED <<name, mark>>
    /\ UNCHANGED <<blocked, want, vol, opened, promised, late>>

\* ... which becomes a disk if the target answers its INQUIRY, ...
ScanEnd(t) ==
    /\ pc[t] = "probe"
    /\ st' = [st EXCEPT ![dev[t]] = "running"]
    /\ scanner' = NoThread
    /\ dev' = [dev EXCEPT ![t] = NoDisk]
    /\ Goto(t, "found")
    /\ UNCHANGED <<addr, name, mark, devices, refs, blocked, want, vol, opened,
                   promised, late>>

\* ... and is destroyed otherwise.
ScanFail(t) ==
    /\ pc[t] = "probe"
    /\ st' = [st EXCEPT ![dev[t]] = "del"]
    /\ scanner' = NoThread
    /\ Goto(t, "put")
    /\ UNCHANGED <<addr, name, mark, devices, refs, blocked, callVars, opened,
                   promised, late>>

\* The device is looked up again: it may be another one by now, or gone.
AddFind(t) ==
    /\ pc[t] = "found"
    /\ IF vol[t] = NoName \/ At(want[t]) = {}
       THEN Return(t) /\ UNCHANGED refs
       ELSE \E o \in At(want[t]) : Take(t, o, "name")
                                   /\ UNCHANGED <<want, vol, late>>
    /\ UNCHANGED <<diskVars, scanner, blocked, opened, promised>>

AddName(t) ==
    /\ pc[t] = "name"
    /\ name' = [name EXCEPT ![dev[t]] = vol[t]]
    /\ Goto(t, "state")
    /\ UNCHANGED <<addr, st, mark, devices, refs, scanner, blocked, callVars,
                   opened, promised, late>>

\* The promise a late adder breaks was made during its call.
AddState(t) ==
    /\ pc[t] = "state"
    /\ mark' = [mark EXCEPT ![dev[t]] = "running"]
    /\ promised' = IF dev[t] \in late[t] THEN promised \ {dev[t]} ELSE promised
    /\ Goto(t, "put")
    /\ UNCHANGED <<addr, st, name, devices, refs, scanner, blocked, callVars,
                   opened, late>>

\* Every ioctl that holds a device puts it at its end.
Finish(t) ==
    /\ pc[t] = "put"
    /\ Put(dev[t])
    /\ Return(t)
    /\ UNCHANGED <<scanner, blocked, opened>>

(***************************************************************************)
(* vsc_set_delete_by_vol_name and vsc_rmv_device.                            *)
(***************************************************************************)

MarkBegin(t, n) ==
    /\ pc[t] = "idle"
    /\ \E o \in Named(n) : st[o] # "del" /\ Take(t, o, "mark")
    /\ UNCHANGED <<diskVars, scanner, blocked, want, vol, opened, promised, late>>

\* Adders at work on the address of o.
Adding(o) == {t \in Threads : want[t] = addr[o]}

MarkSet(t) ==
    /\ pc[t] = "mark"
    /\ mark' = [mark EXCEPT ![dev[t]] = "prepare"]
    /\ promised' = promised \union {dev[t]}
    /\ late' = [u \in Threads |-> IF u \in Adding(dev[t])
                                  THEN late[u] \union {dev[t]} ELSE late[u]]
    /\ Goto(t, "put")
    /\ UNCHANGED <<addr, st, name, devices, refs, scanner, blocked, callVars,
                   opened>>

RmvBegin(t, a) ==
    /\ pc[t] = "idle"
    /\ ~ blocked
    /\ \E o \in At(a) : Take(t, o, "remove")
    /\ UNCHANGED <<diskVars, scanner, blocked, want, vol, opened, promised, late>>

\* scsi_remove_device, under scan_mutex; another thread may have been first.
RmvCancel(t) ==
    /\ pc[t] = "remove" /\ scanner = NoThread
    /\ IF st[dev[t]] = "del"
       THEN Goto(t, "put") /\ UNCHANGED <<st, scanner>>
       ELSE /\ st' = [st EXCEPT ![dev[t]] = "cancel"]
            /\ scanner' = t
            /\ Goto(t, "flush")
    /\ UNCHANGED <<addr, name, mark, devices, refs, blocked, callVars, opened,
                   promised, late>>

\* A disk with a write cache is sent SYNCHRONIZE CACHE, once the host takes
\* commands.
RmvFlush(t) ==
    /\ pc[t] = "flush" /\ ~ blocked
    /\ Goto(t, IF Refused(dev[t]) THEN "delete" ELSE "flushing")
    /\ UNCHANGED <<diskVars, refs, scanner, blocked, callVars, opened, promised,
                   late>>

\* Without a cache, or with the answer of the target, the removal goes on.
RmvFlushed(t) ==
    /\ pc[t] \in {"flush", "flushing"}
    /\ Goto(t, "delete")
    /\ UNCHANGED <<diskVars, refs, scanner, blocked, callVars, opened, promised,
                   late>>

\* The reference of the midlayer goes.
RmvDelete(t) ==
    /\ pc[t] = "delete"
    /\ st' = [st EXCEPT ![dev[t]] = "del"]
    /\ refs' = [refs EXCEPT ![dev[t]] = @ - 1]
    /\ scanner' = NoThread
    /\ Goto(t, "put")
    /\ UNCHANGED <<addr, name, mark, devices, blocked, callVars, opened,
                   promised, late>>

(***************************************************************************)
(* vsc_set_device_stat; vsc_get_device_stat and vsc_set_device_rq_timeout,   *)
(* which look a device up and put it.                                        *)
(***************************************************************************)

\* The new state is checked against the state the device has now, ...
StatBegin(t, a, s) ==
    /\ pc[t] = "idle"
    /\ \E o \in At(a) : Take(t, o, IF st[o] \in StatFrom(s) THEN s ELSE "put")
    /\ UNCHANGED <<diskVars, scanner, blocked, want, vol, opened, promised, late>>

\* ... and by scsi_device_set_state against the one it has then.
StatSet(t) ==
    /\ pc[t] \in Stats
    /\ st' = IF st[dev[t]] \in StatFrom(pc[t])
             THEN [st EXCEPT ![dev[t]] = pc[t]] ELSE st
    /\ Goto(t, "put")
    /\ UNCHANGED <<addr, name, mark, devices, refs, scanner, blocked, callVars,
                   opened, promised, late>>

Peek(t, a) ==
    /\ pc[t] = "idle"
    /\ \E o \in At(a) : Take(t, o, "put")
    /\ UNCHANGED <<diskVars, scanner, blocked, want, vol, opened, promised, late>>

(***************************************************************************)
(* The rest of the system: programs that open and close a disk, and the      *)
(* suspension of the host, which ends with the target's VSC_RESUME or with   *)
(* the host's timer, that is, perhaps never (VscHost).                       *)
(***************************************************************************)

Open(o) ==
    /\ o \in Listed \ opened /\ st[o] = "running"
    /\ Get(o)
    /\ opened' = opened \union {o}
    /\ UNCHANGED <<diskVars, scanner, blocked, pc, callVars, promised, late>>

Close(o) ==
    /\ o \in opened
    /\ Put(o)
    /\ opened' = opened \ {o}
    /\ UNCHANGED <<scanner, blocked, pc, callVars, late>>

Block ==
    /\ ~ blocked /\ blocked' = TRUE
    /\ UNCHANGED <<diskVars, refs, scanner, pc, callVars, opened, promised, late>>

Unblock ==
    /\ blocked /\ blocked' = FALSE
    /\ UNCHANGED <<diskVars, refs, scanner, pc, callVars, opened, promised, late>>

-----------------------------------------------------------------------------

\* The ioctls.
AddDisk(t) == \E a \in Addrs, n \in Names \union {NoName} : AddBegin(t, a, n)
RmvDisk(t) == \E a \in Addrs : RmvBegin(t, a)
RmvVol(t)  == \E n \in Names : MarkBegin(t, n)
SetStat(t) == \E a \in Addrs, s \in Stats : StatBegin(t, a, s)
Inspect(t) == \E a \in Addrs : Peek(t, a)

Go(t)    == \/ ScanBegin(t) \/ AddFind(t) \/ AddName(t) \/ AddState(t) \/ Finish(t)
            \/ MarkSet(t) \/ RmvCancel(t) \/ RmvDelete(t) \/ StatSet(t)

Next == \/ \E t \in Threads :
           \/ AddDisk(t) \/ RmvDisk(t) \/ RmvVol(t) \/ SetStat(t) \/ Inspect(t)
           \/ Go(t) \/ RmvFlush(t) \/ RmvFlushed(t) \/ ScanEnd(t) \/ ScanFail(t)
        \/ \E o \in Disks : Open(o) \/ Close(o)
        \/ Block \/ Unblock

Spec == Init /\ [][Next]_vars

\* The code goes on, and a waiting flush is dispatched by the very call that
\* unblocks the host.  Nothing is assumed of the target: it may answer nothing, and
\* leave the host suspended.
FairSpec == Spec /\ \A t \in Threads : WF_vars(Go(t)) /\ SF_vars(RmvFlush(t))

-----------------------------------------------------------------------------
(***************************************************************************)
(* Properties.                                                             *)
(***************************************************************************)

\* The threads that hold a reference to o.
Holders(o) == {t \in Threads : dev[t] = o /\ pc[t] # "probe"}

\* Every variable keeps its type, and the references of a device are counted
\* exactly: the midlayer's, one per opener and one per ioctl that works on it.
\* A device is on the list as long as it has one.
TypeOK ==
    /\ st \in [Disks -> {"created", "running", "offline", "block", "cancel", "del"}]
    /\ mark \in [Disks -> {"none", "running", "prepare"}]
    /\ name \in [Disks -> Names \union {NoName}]
    /\ addr \in [Disks -> Addrs \union {NoAddr}]
    /\ \A o \in Disks :
        /\ refs[o] = (IF st[o] = "del" THEN 0 ELSE 1)
                     + (IF o \in opened THEN 1 ELSE 0) + Cardinality(Holders(o))
        /\ o \in Listed <=> refs[o] > 0
    /\ NoDup(devices)

\* A disk that was reported as marked stays marked until it is gone, so that no
\* command reaches the target any more, unless an add of the same address was
\* at work when it was marked.
MarkSticks == \A o \in promised : mark[o] = "prepare"

\* Premise: whenever the host is suspended it is resumed, by the target or by its
\* timer.
Resumed == []<>(~ blocked)

\* On a host that is always resumed, the removal of a marked disk ends although the
\* target answers no flush of its cache and the host may be suspended in between.
\* (On a host left suspended it waits for ever, with scan_mutex held: queuecommand,
\* which looks at the mark, is not called.)
RemovalEnds == Resumed => \A t \in Threads :
    (/\ pc[t] = "flush" /\ dev[t] \in promised
     /\ \A u \in Threads : dev[t] \notin late[u]) ~> pc[t] = "idle"
=============================================================================
