------------------------------ MODULE VscHosts ------------------------------
(***************************************************************************)
(* The hosts of one VBS: how they are registered, looked up by number,     *)
(* removed, and how the commands of a volume are dealt out over them.      *)
(*                                                                         *)
(* The table host_list is changed under ctrl_info_list_lock but read       *)
(* without it: a look-up reads the entry after it has dropped the lock, and *)
(* queuecommand takes no lock at all.  rmv_host frees a host and leaves its *)
(* entry in the table; the model ends where somebody uses it (wild).       *)
(***************************************************************************)
EXTENDS Naturals, FiniteSets

CONSTANTS
    MaxHosts,       \* MAX_HOST_NR_PER_VBS
    Copies,         \* bound: Scsi_Hosts ever allocated for one number
    NoHost,         \* a NULL pointer
    Registrars,     \* threads that register hosts
    Queuers,        \* threads in queuecommand
    IoPerHost,      \* the values io_per_host is given, of {0, 1, 2, 4}
    SnMod,          \* 2^32: the counter of a volume is cut to a __u32
    MaxSn           \* bound: read and write commands dealt out

Numbers == 0 .. MaxHosts - 1
Objects == Numbers \X (1 .. Copies)     \* o[1] is vbs_host_id

ASSUME HostAssumption  == MaxHosts \in Nat \ {0} /\ NoHost \notin Objects
ASSUME BoundAssumption == SnMod \in Nat \ {0} /\ MaxSn \in Nat
                            /\ IoPerHost \subseteq {0, 1, 2, 4}

VARIABLES
    have,           \* what a Scsi_Host holds of Parts; {}: it does not exist
    freed,          \* those that rmv_host has freed
    silbing,        \* those whose silbing_hosts is set
    listed,         \* vsc_host_mgr is on g_host_mgr_list
    host_list, host_count,
    orphans,        \* registered with success, but in no table
    rpc, reg,       \* position of a registration, and its host
    io_per_host, io_per_host_shift, wr,     \* parameters; pending /proc write
    disk, named,    \* the host of a disk, and whether it got its volume's name
    sn,             \* extend: the counter of the volume
    qpc, mine, index, host,     \* locals of queuecommand, 0 when dead
    hits, stale,    \* history: commands dealt to each number since the table
                    \* or the parameters changed, and who began before that
    gone, wild,     \* the module is unloaded; a freed host was used
    holes           \* history: the holes of the table when it was unloaded

objectVars == <<have, freed, silbing, orphans>>
tableVars  == <<listed, host_list, host_count>>
regVars    == <<rpc, reg>>
paramVars  == <<io_per_host, io_per_host_shift, wr>>
diskVars   == <<disk, named, sn>>
queueVars  == <<qpc, mine, index, host>>
shareVars  == <<hits, stale>>
vars == <<objectVars, tableVars, regVars, paramVars, diskVars, queueVars,
          shareVars, gone, wild, holes>>

\* What registration adds, in this order: the Scsi_Host with its reference,
\* the pools of vsc_ctrl_init, the midlayer's registration, the /proc file.
Parts == {"memory", "pools", "midlayer", "proc"}

Init ==
    /\ have = [o \in Objects |-> {}]
    /\ freed = {} /\ silbing = {} /\ orphans = {}
    /\ listed = FALSE
    /\ host_list = [i \in Numbers |-> NoHost]
    /\ host_count = 0
    /\ rpc = [r \in Registrars |-> "idle"]
    /\ reg = [r \in Registrars |-> NoHost]
    /\ io_per_host = 2 /\ io_per_host_shift = 1 /\ wr = 0
    /\ disk = NoHost /\ named = FALSE /\ sn = 0
    /\ qpc = [q \in Queuers |-> "idle"]
    /\ mine = [q \in Queuers |-> 0]
    /\ index = [q \in Queuers |-> 0]
    /\ host = [q \in Queuers |-> NoHost]
    /\ hits = [i \in Numbers |-> 0] /\ stale = {}
    /\ gone = FALSE /\ wild = FALSE /\ holes = {}

\* vsc_get_ctlr_by_host, whose entry is read after the unlock.
Lookup(i) == IF listed THEN host_list[i] ELSE NoHost

Live(o) == o # NoHost /\ o \notin freed

\* A number that is not registered while a higher one is.
Hole(i) == /\ host_list[i] = NoHost
           /\ \E j \in Numbers : i < j /\ host_list[j] # NoHost

\* History: the table or the parameters have changed, shares start anew.
Reshare == /\ hits' = [i \in Numbers |-> 0]
           /\ stale' = {q \in Queuers : qpc[q] = "index"}

(***************************************************************************)
(* vsc_register_host.                                                      *)
(***************************************************************************)

RegGoto(r, p) == rpc' = [rpc EXCEPT ![r] = p]

\* mutant: registrations are not serialised.
RegLockFree_Not == TRUE

\* ctrl_host_reg_lock is held by whoever is not idle.
RegLockFree == \A r \in Registrars : rpc[r] = "idle"

\* ctrl_info_list_lock is held by whoever changes the table in steps.
ListLockFree == \A r \in Registrars : rpc[r] \notin {"silbing", "count"}

\* A Scsi_Host that can still be allocated.  Those of one number are alike, and
\* are taken in turn.
Unused(o) == /\ have[o] = {} /\ o \notin freed
             /\ \A r \in Registrars : reg[r] # o

\* A number that is taken is refused (-EEXIST), which changes nothing.  The
\* numbers may come in any order.
RegBegin(r, o) ==
    /\ rpc[r] = "idle" /\ RegLockFree
    /\ Lookup(o[1]) = NoHost
    /\ Unused(o) /\ \A c \in 1 .. o[2] - 1 : ~ Unused(<<o[1], c>>)
    /\ RegGoto(r, "alloc")
    /\ reg' = [reg EXCEPT ![r] = o]
    /\ UNCHANGED <<objectVars, tableVars, paramVars, diskVars,
                   queueVars, shareVars>>

\* The part each step adds, and the step after it.
PartOf(p) == CASE p = "alloc" -> "memory"   [] p = "init" -> "pools"
               [] p = "add"   -> "midlayer" [] p = "file" -> "proc"
After(p)  == CASE p = "alloc" -> "init"     [] p = "init" -> "add"
               [] p = "add"   -> "file"     [] p = "file" -> "publish"

RegStep(r) ==
    /\ rpc[r] \in {"alloc", "init", "add", "file"}
    /\ have' = [have EXCEPT ![reg[r]] = @ \union {PartOf(rpc[r])}]
    /\ RegGoto(r, After(rpc[r]))
    /\ UNCHANGED <<freed, silbing, orphans, tableVars, reg, paramVars,
                   diskVars, queueVars, shareVars>>

\* mutant: h is NULL whenever the midlayer knows the host.
GivesBack_NoPools(p) == CASE p = "alloc" -> {}
                          [] p = "init"  -> {"memory"}
                          [] p = "add"   -> {"memory", "pools"}
                          [] p = "file"  -> {"memory", "midlayer"}

\* err_out: what each failing step has to give back.  vsc_ctrl_init frees its
\* own pools, and h is NULL then.
GivesBack(p) == CASE p = "alloc" -> {}
                  [] p = "init"  -> {"memory"}
                  [] p = "add"   -> {"memory", "pools"}
                  [] p = "file"  -> {"memory", "pools", "midlayer"}

RegFail(r) ==
    /\ rpc[r] \in {"alloc", "init", "add", "file"}
    /\ have' = [have EXCEPT ![reg[r]] = @ \ GivesBack(rpc[r])]
    /\ RegGoto(r, "idle")
    /\ reg' = [reg EXCEPT ![r] = NoHost]
    /\ UNCHANGED <<freed, silbing, orphans, tableVars, paramVars, diskVars,
                   queueVars, shareVars>>

(***************************************************************************)
(* vsc_add_host_to_mgr, under ctrl_info_list_lock.                         *)
(***************************************************************************)

\* The first host of the VBS: the table is complete before it is listed; or it
\* cannot be allocated, which vsc_register_host does not notice.
PublishFirst(r) ==
    /\ rpc[r] = "publish" /\ ListLockFree /\ ~listed
    /\ \/ /\ listed' = TRUE
          /\ host_list' = [host_list EXCEPT ![reg[r][1]] = reg[r]]
          /\ host_count' = 1
          /\ silbing' = silbing \union {reg[r]}
          /\ UNCHANGED orphans
       \/ /\ orphans' = orphans \union {reg[r]}
          /\ UNCHANGED <<tableVars, silbing>>
    /\ RegGoto(r, "idle")
    /\ reg' = [reg EXCEPT ![r] = NoHost]
    /\ Reshare
    /\ UNCHANGED <<have, freed, paramVars, diskVars, queueVars>>

\* A further one: entry, silbing_hosts and count one after the other.
PublishEntry(r) ==
    /\ rpc[r] = "publish" /\ ListLockFree /\ listed
    /\ host_list' = [host_list EXCEPT ![reg[r][1]] = reg[r]]
    /\ RegGoto(r, "silbing")
    /\ UNCHANGED <<objectVars, listed, host_count, reg, paramVars, diskVars,
                   queueVars, shareVars>>

PublishSilbing(r) ==
    /\ rpc[r] = "silbing"
    /\ silbing' = silbing \union {reg[r]}
    /\ RegGoto(r, "count")
    /\ UNCHANGED <<have, freed, orphans, tableVars, reg, paramVars, diskVars,
                   queueVars, shareVars>>

PublishCount(r) ==
    /\ rpc[r] = "count"
    /\ host_count' = host_count + 1
    /\ RegGoto(r, "idle")
    /\ reg' = [reg EXCEPT ![r] = NoHost]
    /\ Reshare
    /\ UNCHANGED <<objectVars, listed, host_list, paramVars, diskVars,
                   queueVars>>

Register(r) == \/ \E o \in Objects : RegBegin(r, o)
               \/ RegStep(r) \/ RegFail(r)
               \/ PublishFirst(r) \/ PublishEntry(r)
               \/ PublishSilbing(r) \/ PublishCount(r)

(***************************************************************************)
(* vsc_do_remove_host, by ioctl.  The host loses everything, the table     *)
(* nothing.  scsi_remove_host takes its disks away, and waits for their    *)
(* commands that are in queuecommand.                                      *)
(***************************************************************************)

RemoveHost(i) ==
    LET o == Lookup(i) IN
    /\ Live(o) /\ ListLockFree
    /\ disk = o => \A q \in Queuers : qpc[q] = "idle"
    /\ have' = [have EXCEPT ![o] = {}]
    /\ freed' = freed \union {o}
    /\ disk' = IF disk = o THEN NoHost ELSE disk
    /\ UNCHANGED <<silbing, orphans, tableVars, regVars, paramVars, named, sn,
                   queueVars, shareVars>>

(***************************************************************************)
(* vsc_scsi_queue_command, as far as the choice of the host.               *)
(***************************************************************************)

QueueGoto(q, p) == qpc' = [qpc EXCEPT ![q] = p]

\* A disk on a host found by number.  Commands that come before
\* vsc_add_disk_vol has named the volume count from zero, ...
AddDisk(i) ==
    /\ disk = NoHost /\ Live(Lookup(i))
    /\ disk' = Lookup(i) /\ named' = FALSE /\ sn' = 0
    /\ Reshare
    /\ UNCHANGED <<objectVars, tableVars, regVars, paramVars, queueVars>>

\* ... then vsc_add_device_by_vol_name sets the counter to one.
NameVolume ==
    /\ disk # NoHost /\ ~named
    /\ named' = TRUE /\ sn' = 1
    /\ Reshare
    /\ UNCHANGED <<objectVars, tableVars, regVars, paramVars, disk, queueVars>>

\* io_per_host = 0: the host of the disk.  A disk whose silbing_hosts is not
\* set yet is refused (FAILED), which changes nothing.
QueueSingle(q) ==
    /\ qpc[q] = "idle" /\ disk # NoHost
    /\ io_per_host = 0
    /\ host' = [host EXCEPT ![q] = disk]
    /\ QueueGoto(q, "send")
    /\ UNCHANGED <<objectVars, tableVars, regVars, paramVars, diskVars, mine,
                   index, shareVars>>

QueueReadWrite(q) ==
    /\ qpc[q] = "idle" /\ disk \in silbing
    /\ io_per_host > 0 /\ sn < MaxSn
    /\ sn' = sn + 1
    /\ mine' = [mine EXCEPT ![q] = sn + 1]
    /\ QueueGoto(q, "index")
    /\ UNCHANGED <<objectVars, tableVars, regVars, paramVars, disk, named,
                   index, host, shareVars>>

QueueOther(q) ==
    /\ qpc[q] = "idle" /\ disk \in silbing
    /\ io_per_host > 0
    /\ index' = [index EXCEPT ![q] = 0]
    /\ QueueGoto(q, "pick")
    /\ UNCHANGED <<objectVars, tableVars, regVars, paramVars, diskVars, mine,
                   host, shareVars>>

\* 2 ^ io_per_host_shift: how many commands in a row go to one host.
Batch == CASE io_per_host_shift = 0 -> 1 [] io_per_host_shift = 1 -> 2
           [] io_per_host_shift = 2 -> 4

\* mutant: the modulo is taken first.
HostIndex_ShiftLast(n) == ((n % SnMod) % host_count) \div Batch
\* mutant: dealt over as many hosts as the table has room for.
HostIndex_Room(n) == ((n % SnMod) \div Batch) % MaxHosts

\* ((__u32)sn >> io_per_host_shift) % host_count
HostIndex(n) == ((n % SnMod) \div Batch) % host_count

Index(q) ==
    /\ qpc[q] = "index"
    /\ index' = [index EXCEPT ![q] = HostIndex(mine[q])]
    /\ QueueGoto(q, "pick")
    /\ hits' = IF q \in stale THEN hits
               ELSE [hits EXCEPT ![HostIndex(mine[q])] = @ + 1]
    /\ stale' = stale \ {q}
    /\ mine' = [mine EXCEPT ![q] = 0]
    /\ UNCHANGED <<objectVars, tableVars, regVars, paramVars, diskVars, host>>

\* An empty entry is refused (FAILED), and the midlayer tries again.
Pick(q) ==
    /\ qpc[q] = "pick"
    /\ host' = [host EXCEPT ![q] = host_list[index[q]]]
    /\ QueueGoto(q, IF host_list[index[q]] = NoHost THEN "idle" ELSE "send")
    /\ index' = [index EXCEPT ![q] = 0]
    /\ UNCHANGED <<objectVars, tableVars, regVars, paramVars, diskVars, mine,
                   shareVars>>

\* The command is queued on the host (VscCmd), or finds its pool empty.
Send(q) ==
    /\ qpc[q] = "send" /\ Live(host[q])
    /\ host' = [host EXCEPT ![q] = NoHost]
    /\ QueueGoto(q, "idle")
    /\ UNCHANGED <<objectVars, tableVars, regVars, paramVars, diskVars, mine,
                   index, shareVars>>

Queue(q) == \/ QueueSingle(q) \/ QueueReadWrite(q) \/ QueueOther(q)
            \/ Index(q) \/ Pick(q) \/ Send(q)

(***************************************************************************)
(* The parameters: the /proc file sets io_per_host and then the shift (one *)
(* writer at a time here), the module parameter only io_per_host.          *)
(***************************************************************************)

ShiftOf(n) == CASE n = 1 -> 0 [] n = 2 -> 1 [] n = 4 -> 2

WriteIoPerHost(n) ==
    /\ wr = 0 /\ io_per_host' = n
    /\ wr' = n
    /\ UNCHANGED <<objectVars, tableVars, regVars, io_per_host_shift, diskVars,
                   queueVars, shareVars>>

WriteShift ==
    /\ wr # 0
    /\ io_per_host_shift' = ShiftOf(wr) /\ wr' = 0
    /\ Reshare
    /\ UNCHANGED <<objectVars, tableVars, regVars, io_per_host, diskVars,
                   queueVars>>

SetParameter(n) ==
    /\ io_per_host' = n
    /\ UNCHANGED <<objectVars, tableVars, regVars, io_per_host_shift, wr,
                   diskVars, queueVars, shareVars>>

(***************************************************************************)
(* vsc_remove_all_host, when the module is unloaded: every file is closed, *)
(* no disk is open.  It goes by the count: an empty entry below it does    *)
(* nothing, an entry beyond it is forgotten with the table.                *)
(***************************************************************************)

AtExit == {host_list[i] : i \in {j \in Numbers : j < host_count}} \ {NoHost}

RemoveAll ==
    /\ RegLockFree /\ wr = 0 /\ \A q \in Queuers : qpc[q] = "idle"
    /\ \A o \in AtExit : Live(o)
    /\ have' = [o \in Objects |-> IF o \in AtExit THEN {} ELSE have[o]]
    /\ listed' = FALSE /\ host_count' = 0
    /\ host_list' = [i \in Numbers |-> NoHost]
    /\ disk' = IF disk \in AtExit THEN NoHost ELSE disk
    /\ gone' = TRUE /\ holes' = {i \in Numbers : Hole(i)}
    /\ UNCHANGED <<freed, silbing, orphans, regVars, paramVars, named, sn,
                   queueVars, shareVars, wild>>

\* A look-up, a registration, a second removal or the unloading follows an
\* entry that rmv_host has left, or queuecommand goes on with a host it had
\* picked: whatever happens then is not described here.
UseFreed ==
    /\ \/ \E i \in Numbers : Lookup(i) \in freed
       \/ \E q \in Queuers : qpc[q] = "send" /\ host[q] \in freed
    /\ wild' = TRUE
    /\ UNCHANGED <<objectVars, tableVars, regVars, paramVars, diskVars,
                   queueVars, shareVars, gone, holes>>

Running == \/ \E r \in Registrars : Register(r)
           \/ \E i \in Numbers : RemoveHost(i) \/ AddDisk(i)
           \/ \E q \in Queuers : Queue(q)
           \/ NameVolume \/ WriteShift
           \/ \E n \in IoPerHost : WriteIoPerHost(n) \/ SetParameter(n)

Next == /\ ~gone /\ ~wild
        /\ \/ Running /\ UNCHANGED <<gone, wild, holes>>
           \/ RemoveAll
           \/ UseFreed

Spec == Init /\ [][Next]_vars

-----------------------------------------------------------------------------
(***************************************************************************)
(* Properties.                                                             *)
(***************************************************************************)

\* The variables are well typed.
TypeOK ==
    /\ have \in [Objects -> SUBSET Parts]
    /\ freed \subseteq Objects /\ silbing \subseteq Objects
    /\ orphans \subseteq Objects
    /\ listed \in BOOLEAN
    /\ host_list \in [Numbers -> Objects \union {NoHost}]
    /\ host_count \in 0 .. MaxHosts
    /\ rpc \in [Registrars -> {"idle", "alloc", "init", "add", "file",
                               "publish", "silbing", "count"}]
    /\ reg \in [Registrars -> Objects \union {NoHost}]
    /\ io_per_host \in IoPerHost \union {2} /\ io_per_host_shift \in {0, 1, 2}
    /\ wr \in IoPerHost \union {0}
    /\ disk \in Objects \union {NoHost} /\ named \in BOOLEAN
    /\ sn \in Nat /\ mine \in [Queuers -> Nat]
    /\ qpc \in [Queuers -> {"idle", "index", "pick", "send"}]
    /\ index \in [Queuers -> Numbers]
    /\ host \in [Queuers -> Objects \union {NoHost}]
    /\ hits \in [Numbers -> Nat] /\ stale \subseteq Queuers
    /\ gone \in BOOLEAN /\ wild \in BOOLEAN /\ holes \subseteq Numbers

\* However registrations, failures and removals follow each other, the midlayer
\* never has two hosts for one number, but for hosts whose table could not be
\* allocated.
OnePerNumber == \A o, p \in Objects \ orphans :
    /\ o[1] = p[1]
    /\ "midlayer" \in have[o] /\ "midlayer" \in have[p]
    => o = p

\* A host no registration is at work on is complete or gone, whichever step
\* failed; whoever finds a host by its number finds a complete one; and the
\* unloaded module leaves none behind, but those in no table and those above a
\* number that was missing, which the count does not reach.
WholeOrNothing == \A o \in Objects :
    /\ o \notin {reg[r] : r \in Registrars} => have[o] \in {{}, Parts}
    /\ (\E i \in Numbers : host_list[i] = o) /\ Live(o) => have[o] = Parts
    /\ gone /\ o \notin orphans /\ have[o] # {} => \E i \in holes : i < o[1]

\* queuecommand reads the count and the entry without a lock while hosts are
\* being added.  Whatever it interleaves with, an empty entry it picks is a hole:
\* a number that has not been registered although a higher one has.
NoEmptySlot == \A q \in Queuers :
    qpc[q] = "pick" /\ host_list[index[q]] = NoHost => Hole(index[q])

\* A batch for each host divides the range of the counter, or the counter has not
\* run through it since the disk was added.
Seamless == sn < SnMod \/ SnMod % (host_count * Batch) = 0

\* The read and write commands of a volume are shared out evenly over the numbers
\* below the count: as long as neither the table nor the shift changes, none is a
\* batch ahead of another, except that the wrap of the 32-bit counter breaks the
\* round where the hosts do not divide it.
Balanced ==
    (\A q \in Queuers : qpc[q] # "index") =>
        \A i, j \in Numbers : i < host_count /\ j < host_count /\ Seamless
            => hits[i] <= hits[j] + Batch
=============================================================================
