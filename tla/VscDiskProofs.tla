---------------------------- MODULE VscDiskProofs -----------------------------
(***************************************************************************)
(* The references and the marks of disks, for any number of threads, disks   *)
(* and addresses.                                                          *)
(***************************************************************************)
EXTENDS VscDisk, VscListTheorems, FiniteSetTheorems

\* Where a thread works on a device.
Working  == {"name", "state", "put", "mark", "remove", "flush", "flushing", "delete"}
            \union Stats
Removing == {"flush", "flushing", "delete"}

Types ==
    /\ st \in [Disks -> {"created", "running", "offline", "block", "cancel", "del"}]
    /\ mark \in [Disks -> {"none", "running", "prepare"}]
    /\ name \in [Disks -> Names \union {NoName}]
    /\ addr \in [Disks -> Addrs \union {NoAddr}]
    /\ refs \in [Disks -> Int]
    /\ devices \in Seq(Disks) /\ opened \subseteq Disks /\ promised \subseteq Disks
    /\ pc \in [Threads -> Working \union {"idle", "scan", "probe", "found"}]
    /\ want \in [Threads -> Addrs \union {NoAddr}]
    /\ vol \in [Threads -> Names \union {NoName}]
    /\ dev \in [Threads -> Disks \union {NoDisk}]
    /\ late \in [Threads -> SUBSET Disks]

\* The references of a device, and the list.
Midlayer(o) == IF st[o] = "del" THEN 0 ELSE 1
Opener(o)   == IF o \in opened THEN 1 ELSE 0
Counted(o)  == refs[o] = Midlayer(o) + Opener(o) + Cardinality(Holders(o))
Counts == /\ \A o \in Disks : Counted(o) /\ (o \in Listed <=> refs[o] > 0)
          /\ NoDup(devices)

\* What a thread has in hand: scan_mutex lets one thread make or remove a disk.
Position(t) ==
    /\ dev[t] # NoDisk <=> pc[t] \in Working \union {"probe"}
    /\ pc[t] \in Removing \union {"probe"} => scanner = t
    /\ pc[t] = "probe" => st[dev[t]] \notin {"del", "cancel"}
    /\ pc[t] \in Removing => st[dev[t]] = "cancel"
    /\ pc[t] \in {"scan", "probe", "found"} => want[t] \in Addrs

\* An adder knows of every promise that it may break.
Aware(t) ==
    /\ \A o \in promised : want[t] = addr[o] /\ st[o] # "del" => o \in late[t]
    /\ pc[t] \in {"name", "state"} =>
          addr[dev[t]] = want[t] /\ (dev[t] \in promised => dev[t] \in late[t])

Marks == /\ \A o \in Listed : addr[o] \in Addrs
         /\ promised \subseteq Listed
         /\ MarkSticks

IInv == /\ Types /\ Counts /\ Marks
        /\ \A t \in Threads : Position(t) /\ Aware(t)

LEMMA ToSetOf == \A q \in Seq(Disks) : ToSet(q) \subseteq Disks
  BY DEF ToSet

LEMMA InitInv == Init => IInv
<1> SUFFICES ASSUME Init PROVE IInv
  OBVIOUS
<1>1. Types
  BY DEF Init, Types
<1>2. Listed = {} /\ NoDup(devices)
  BY EmptyFacts DEF Init, Listed
<1>3. \A o \in Disks : Holders(o) = {}
  BY DiskAssumption DEF Init, Holders
<1>4. Counts
  <2>1. \A o \in Disks : Cardinality(Holders(o)) = 0
    BY <1>3, FS_EmptySet
  <2>2. \A o \in Disks : refs[o] = 0 /\ Midlayer(o) = 0 /\ Opener(o) = 0
    BY DEF Init, Midlayer, Opener
  <2> QED
    BY <1>2, <2>1, <2>2 DEF Counts, Counted
<1>5. Marks /\ \A t \in Threads : Position(t) /\ Aware(t)
  BY <1>2, StatAssumption DEF Init, Marks, MarkSticks, Position, Aware, Working, Removing
<1> QED
  BY <1>1, <1>4, <1>5 DEF IInv

-----------------------------------------------------------------------------
\* The references.

LEMMA HoldersFinite ==
    ASSUME NEW o
    PROVE  IsFiniteSet(Holders(o)) /\ Cardinality(Holders(o)) \in Nat
BY FS_Subset, FS_CardinalityType, DiskAssumption DEF Holders

\* A device somebody holds is on the list.
LEMMA HeldListed ==
    ASSUME Types, Counts, NEW t \in Threads, dev[t] \in Disks, pc[t] # "probe"
    PROVE  dev[t] \in Listed /\ refs[dev[t]] > 0 /\ Cardinality(Holders(dev[t])) > 0
<1>1. t \in Holders(dev[t])
  BY DEF Holders
<1>2. Cardinality(Holders(dev[t])) > 0
  BY <1>1, HoldersFinite, FS_EmptySet
<1>3. Counted(dev[t]) /\ (dev[t] \in Listed <=> refs[dev[t]] > 0)
  BY DEF Counts
<1>4. Cardinality(Holders(dev[t])) \in Nat
  BY HoldersFinite
<1> QED
  BY <1>2, <1>3, <1>4 DEF Counted, Midlayer, Opener

\* Nobody gains or loses a device.
LEMMA CountsKept ==
    ASSUME Counts, UNCHANGED <<refs, devices, opened>>,
           \A o \in Disks : (st'[o] = "del" <=> st[o] = "del") /\ Holders(o)' = Holders(o)
    PROVE  Counts'
BY DEF Counts, Counted, Midlayer, Opener, Listed

\* A thread takes a device that is on the list.
LEMMA CountsTaken ==
    ASSUME Types, Counts, UNCHANGED <<st, devices, opened>>,
           NEW t \in Threads, NEW o \in Listed, Get(o), dev[t] = NoDisk,
           dev' = [dev EXCEPT ![t] = o], pc'[t] # "probe",
           \A u \in Threads \ {t} : pc'[u] = pc[u]
    PROVE  Counts'
<1>1. o \in Disks /\ NoDisk \notin Disks
  BY DiskAssumption, ToSetOf DEF Types, Listed
<1>2. Holders(o)' = Holders(o) \union {t} /\ t \notin Holders(o)
  BY <1>1 DEF Holders, Types
<1>3. Cardinality(Holders(o)') = Cardinality(Holders(o)) + 1
  BY <1>2, HoldersFinite, FS_AddElement
<1>4. \A p \in Disks \ {o} : Holders(p)' = Holders(p)
  BY <1>1 DEF Holders, Types
<1>5. \A p \in Disks : refs'[p] = IF p = o THEN refs[p] + 1 ELSE refs[p]
  BY DEF Get, Types
<1>6. ASSUME NEW p \in Disks
      PROVE  Counted(p)' /\ (p \in Listed' <=> refs'[p] > 0)
  <2>1. /\ Counted(p) /\ (p \in Listed <=> refs[p] > 0)
        /\ Midlayer(p)' = Midlayer(p) /\ Opener(p)' = Opener(p) /\ Listed' = Listed
    BY DEF Counts, Midlayer, Opener, Listed
  <2>2. Midlayer(p) \in Nat /\ Opener(p) \in Nat /\ Cardinality(Holders(p)) \in Nat
    BY HoldersFinite DEF Midlayer, Opener
  <2>3. CASE p = o
    BY <1>3, <1>5, <2>1, <2>2, <2>3 DEF Counted
  <2>4. CASE p # o
    BY <1>4, <1>5, <2>1, <2>4 DEF Counted
  <2> QED
    BY <2>3, <2>4
<1>7. NoDup(devices)'
  BY DEF Counts
<1> QED
  BY <1>6, <1>7 DEF Counts

\* A reference is put: by the thread that holds the device, or by an opener.
LEMMA CountsPut ==
    ASSUME Types, Counts, NEW o \in Disks, Put(o), refs[o] > 0,
           \/ /\ Cardinality(Holders(o)') = Cardinality(Holders(o)) - 1
              /\ opened' = opened
           \/ /\ Holders(o)' = Holders(o)
              /\ o \in opened /\ opened' = opened \ {o},
           \A p \in Disks \ {o} : Holders(p)' = Holders(p)
    PROVE  Counts' /\ Listed' = (IF refs[o] = 1 THEN Listed \ {o} ELSE Listed)
<1>1. \A p \in Disks : refs'[p] = IF p = o THEN refs[p] - 1 ELSE refs[p]
  BY DEF Put, Types
<1>2. Listed' = (IF refs[o] = 1 THEN Listed \ {o} ELSE Listed) /\ NoDup(devices)'
  <2>1. NoDup(devices) /\ devices \in Seq(Disks)
    BY DEF Counts, Types
  <2>2. devices' = IF refs[o] = 1 THEN Del(devices, o) ELSE devices
    BY DEF Put
  <2> QED
    BY <2>1, <2>2, DelFacts DEF Listed
<1>3. ASSUME NEW p \in Disks
      PROVE  Counted(p)' /\ (p \in Listed' <=> refs'[p] > 0)
  <2>1. /\ Counted(p) /\ (p \in Listed <=> refs[p] > 0) /\ refs[p] \in Int
        /\ Midlayer(p)' = Midlayer(p)
    BY DEF Counts, Midlayer, Put, Types
  <2>2. Midlayer(p) \in Nat /\ Opener(p) \in Nat /\ Cardinality(Holders(p)) \in Nat
    BY HoldersFinite DEF Midlayer, Opener
  <2>3. CASE p = o
    <3>1. Opener(p)' + Cardinality(Holders(p)') = Opener(p) + Cardinality(Holders(p)) - 1
      BY <2>2, <2>3 DEF Opener
    <3>2. Opener(p)' \in Nat /\ Cardinality(Holders(p)') \in Int
      BY <2>2, <2>3 DEF Opener
    <3>3. Counted(p)'
      BY <1>1, <2>1, <2>2, <2>3, <3>1, <3>2 DEF Counted
    <3> QED
      BY <1>1, <1>2, <2>1, <2>3, <3>3
  <2>4. CASE p # o
    BY <1>1, <1>2, <2>1, <2>4 DEF Counted, Opener
  <2> QED
    BY <2>3, <2>4
<1> QED
  BY <1>2, <1>3 DEF Counts

-----------------------------------------------------------------------------
\* The threads.

\* What the other threads have in hand is not touched: only who has scan_mutex
\* makes or removes a disk, and a device that is held keeps its address.
LEMMA OthersKeep ==
    ASSUME IInv, NEW u \in Threads,
           UNCHANGED <<pc[u], dev[u], want[u], late[u]>>,
           \/ UNCHANGED <<scanner, st>>
           \/ pc[u] \notin Removing \union {"probe"}
           \/ /\ UNCHANGED scanner
              /\ dev[u] \in Disks
              /\ st[dev[u]] # "cancel" => st'[dev[u]] \notin {"del", "cancel"}
              /\ st[dev[u]] = "cancel" => st'[dev[u]] = "cancel",
           promised' \subseteq promised,
           \A o \in Listed \intersect Listed' :
              addr'[o] = addr[o] /\ (st'[o] # "del" => st[o] # "del"),
           promised' \subseteq Listed',
           dev[u] \in Listed => dev[u] \in Listed'
    PROVE  Position(u)' /\ Aware(u)'
<1>1. Position(u) /\ Aware(u) /\ Marks /\ Types /\ Counts
  BY DEF IInv
<1>2. Position(u)'
  <2>1. dev'[u] # NoDisk <=> pc'[u] \in Working \union {"probe"}
    BY <1>1 DEF Position
  <2>2. pc'[u] \in {"scan", "probe", "found"} => want'[u] \in Addrs
    BY <1>1 DEF Position
  <2>3. ASSUME pc'[u] \in Removing \union {"probe"}
        PROVE  /\ scanner' = u
               /\ pc'[u] = "probe" => st'[dev'[u]] \notin {"del", "cancel"}
               /\ pc'[u] \in Removing => st'[dev'[u]] = "cancel"
    BY <1>1, <2>3 DEF Position
  <2> QED
    BY <2>1, <2>2, <2>3 DEF Position, Working, Removing
<1>3. ASSUME NEW o \in promised', want'[u] = addr'[o], st'[o] # "del"
      PROVE  o \in late'[u]
  BY <1>1, <1>3 DEF Aware, Marks
<1>4. ASSUME pc'[u] \in {"name", "state"}
      PROVE  addr'[dev'[u]] = want'[u] /\ (dev'[u] \in promised' => dev'[u] \in late'[u])
  <2>1. dev[u] # NoDisk /\ dev[u] \in Disks /\ pc[u] # "probe"
    BY <1>1, <1>4 DEF Position, Working, Types
  <2>2. dev[u] \in Listed
    BY <1>1, <2>1, HeldListed
  <2> QED
    BY <1>1, <1>4, <2>2 DEF Aware
<1> QED
  BY <1>2, <1>3, <1>4 DEF Aware

\* A step of t that leaves the list, the marks and the promises alone.
LEMMA ThreadKeeps ==
    ASSUME IInv, Types', Counts', UNCHANGED <<addr, mark, devices, promised, late>>,
           NEW t \in Threads,
           \A u \in Threads \ {t} : UNCHANGED <<pc[u], dev[u], want[u]>>,
           \/ UNCHANGED <<scanner, st>>
           \/ \A u \in Threads \ {t} : pc[u] \notin Removing \union {"probe"},
           \A o \in Disks : st'[o] # "del" => st[o] # "del",
           Position(t)', Aware(t)'
    PROVE  IInv'
<1>1. Marks /\ Listed' = Listed /\ Listed \subseteq Disks
  BY ToSetOf DEF IInv, Listed, Types
<1>2. Marks'
  BY <1>1 DEF Marks, MarkSticks
<1>3. ASSUME NEW u \in Threads \ {t}
      PROVE  Position(u)' /\ Aware(u)'
  BY <1>1, <1>3, OthersKeep DEF Marks
<1> QED
  BY <1>2, <1>3 DEF IInv

\* A thread that enters or leaves an ioctl, and one that goes on, with the
\* promises it knows of.
LEMMA AwareKept ==
    ASSUME IInv, UNCHANGED <<addr, promised, late>>, NEW t \in Threads, want'[t] = want[t],
           \A o \in Disks : st'[o] # "del" => st[o] # "del",
           \/ pc'[t] \notin {"name", "state"}
           \/ pc[t] = "name" /\ dev'[t] = dev[t]
    PROVE  Aware(t)'
BY DEF IInv, Aware, Types

\* A thread takes a device (scsi_device_get) and works on it.
LEMMA TakeKeeps ==
    ASSUME IInv, NEW t \in Threads, NEW o \in Listed, dev[t] = NoDisk,
           NEW p \in {"put", "mark", "remove"} \union Stats,
           Take(t, o, p),
           UNCHANGED <<diskVars, scanner, opened, promised, late, want, vol>>
    PROVE  IInv'
<1>1. Types /\ Counts /\ o \in Disks /\ NoDisk \notin Disks /\ Position(t)
  BY ToSetOf, DiskAssumption DEF IInv, Listed, Types
<1>2. /\ dev' = [dev EXCEPT ![t] = o] /\ pc' = [pc EXCEPT ![t] = p]
      /\ refs' = [refs EXCEPT ![o] = @ + 1]
  BY DEF Take, Goto, Get
<1>3. Types'
  BY <1>1, <1>2 DEF Types, diskVars, Working
<1>4. p \notin {"probe", "name", "state", "idle", "scan", "found"} \union Removing
  BY StatAssumption DEF Removing
<1>5. Counts'
  <2>1. pc'[t] # "probe" /\ \A u \in Threads \ {t} : pc'[u] = pc[u]
    BY <1>1, <1>2, <1>4 DEF Types
  <2> QED
    BY <1>1, <1>2, <2>1, CountsTaken DEF Take, diskVars
<1>6. Position(t)'
  BY <1>1, <1>2, <1>4 DEF Position, Types, Working
<1>7. Aware(t)'
  BY <1>1, <1>2, <1>4, AwareKept DEF Types, diskVars
<1>8. \A u \in Threads \ {t} : UNCHANGED <<pc[u], dev[u], want[u]>>
  BY <1>1, <1>2 DEF Types
<1> QED
  BY <1>3, <1>5, <1>6, <1>7, <1>8, ThreadKeeps DEF diskVars

\* A thread goes on with the device it has, or without one.
LEMMA GoOnKeeps ==
    ASSUME IInv, NEW t \in Threads, NEW p,
           pc' = [pc EXCEPT ![t] = p],
           UNCHANGED <<addr, mark, devices, refs, opened, promised, late, dev, want, vol>>,
           Types', Position(t)', p \notin {"name", "probe"}, pc[t] # "probe",
           p = "state" => pc[t] = "name",
           \/ UNCHANGED <<scanner, st>>
           \/ \A u \in Threads \ {t} : pc[u] \notin Removing \union {"probe"},
           \A o \in Disks : st'[o] = "del" <=> st[o] = "del"
    PROVE  IInv'
<1>1. Types /\ Counts
  BY DEF IInv
<1>2. \A u \in Threads \ {t} : UNCHANGED <<pc[u], dev[u], want[u]>>
  BY <1>1 DEF Types
<1>3. pc'[t] = p
  BY <1>1 DEF Types
<1>4. \A o \in Disks : Holders(o)' = Holders(o)
  BY <1>1, <1>2, <1>3 DEF Holders
<1>5. Counts'
  BY <1>1, <1>4, CountsKept
<1>6. Aware(t)'
  BY <1>3, AwareKept
<1> QED
  BY <1>2, <1>5, <1>6, ThreadKeeps

-----------------------------------------------------------------------------
\* The ioctls, step by step.

LEMMA BeginKeeps ==
    ASSUME IInv, NEW t \in Threads,
           RmvDisk(t) \/ RmvVol(t) \/ SetStat(t) \/ Inspect(t)
    PROVE  IInv'
<1>1. Types /\ Position(t)
  BY DEF IInv
<1>2. PICK o \in Listed, p \in {"put", "mark", "remove"} \union Stats :
        pc[t] = "idle" /\ Take(t, o, p)
  <2>1. \A a \in Addrs : At(a) \subseteq Listed
    BY DEF At
  <2>2. \A n \in Names : Named(n) \subseteq Listed
    BY DEF Named, Listed, ToSet, Types
  <2> QED
    BY <2>1, <2>2 DEF RmvDisk, RmvBegin, RmvVol, MarkBegin, SetStat, StatBegin, Inspect,
       Peek
<1>3. UNCHANGED <<diskVars, scanner, opened, promised, late, want, vol>>
  BY DEF RmvDisk, RmvBegin, RmvVol, MarkBegin, SetStat, StatBegin, Inspect, Peek
<1>4. dev[t] = NoDisk
  BY <1>1, <1>2, StatAssumption DEF Position, Working
<1> QED
  BY <1>2, <1>3, <1>4, TakeKeeps

LEMMA AddBeginKeeps ==
    ASSUME IInv, NEW t \in Threads, AddDisk(t)
    PROVE  IInv'
<1>1. Types /\ Counts /\ Marks /\ Position(t)
  BY DEF IInv
<1>2. PICK a \in Addrs, n \in Names \union {NoName} : AddBegin(t, a, n)
  BY DEF AddDisk
<1>3. dev[t] = NoDisk /\ pc[t] = "idle"
  BY <1>1, <1>2, StatAssumption DEF AddBegin, Position, Working
<1>4. CASE \E o \in At(a) : Take(t, o, "put") /\ UNCHANGED <<want, vol>>
  BY <1>2, <1>3, <1>4, TakeKeeps DEF At, AddBegin
<1>5. CASE At(a) = {} /\ Goto(t, "scan") /\ want' = [want EXCEPT ![t] = a]
           /\ vol' = [vol EXCEPT ![t] = n] /\ UNCHANGED <<refs, dev>>
  <2>1. UNCHANGED <<diskVars, scanner, opened, promised, late, refs, dev>>
    BY <1>2, <1>5 DEF AddBegin
  <2>2. Types'
    BY <1>1, <1>5, <2>1 DEF Types, Goto, diskVars
  <2>3. /\ \A u \in Threads \ {t} : UNCHANGED <<pc[u], dev[u], want[u]>>
        /\ pc'[t] = "scan" /\ want'[t] = a
    BY <1>1, <1>5 DEF Goto, Types
  <2>4. \A o \in Disks : Holders(o)' = Holders(o)
    BY <1>3, <2>1, <2>3 DEF Holders
  <2>5. Counts'
    BY <1>1, <2>1, <2>4, CountsKept DEF diskVars
  <2>6. Position(t)'
    BY <1>3, <2>1, <2>3, StatAssumption DEF Position, Working, Removing
  <2>7. Aware(t)'
    BY <1>1, <1>5, <2>1, <2>3 DEF Aware, At, Marks, diskVars
  <2> QED
    BY <2>1, <2>2, <2>3, <2>5, <2>6, <2>7, ThreadKeeps DEF diskVars
<1> QED
  BY <1>2, <1>4, <1>5 DEF AddBegin

\* Removal, up to the deletion.
LEMMA RmvKeeps ==
    ASSUME IInv, NEW t \in Threads, RmvCancel(t) \/ RmvFlush(t) \/ RmvFlushed(t)
    PROVE  IInv'
<1>1. Types /\ Position(t)
  BY DEF IInv
<1>2. pc[t] \in {"remove", "flush", "flushing"} /\ dev[t] \in Disks
  BY <1>1, DiskAssumption DEF RmvCancel, RmvFlush, RmvFlushed, Position, Types, Working
<1>3. UNCHANGED <<addr, mark, name, devices, refs, opened, promised, late, dev, want, vol>>
  BY DEF RmvCancel, RmvFlush, RmvFlushed, diskVars, callVars
<1>4. CASE RmvCancel(t) /\ st[dev[t]] # "del"
  <2>1. /\ pc' = [pc EXCEPT ![t] = "flush"] /\ scanner' = t
        /\ st' = [st EXCEPT ![dev[t]] = "cancel"]
    BY <1>4 DEF RmvCancel, Goto
  <2>2. Types'
    BY <1>1, <1>2, <1>3, <2>1 DEF Types, Working
  <2>3. Position(t)'
    BY <1>1, <1>2, <1>3, <2>1 DEF Position, Types, Working, Removing
  <2>4. \A u \in Threads \ {t} : pc[u] \notin Removing \union {"probe"}
    BY <1>4, DiskAssumption DEF RmvCancel, IInv, Position
  <2>5. \A o \in Disks : st'[o] = "del" <=> st[o] = "del"
    BY <1>1, <1>2, <1>4, <2>1 DEF Types
  <2>6. pc[t] # "probe"
    BY <1>2
  <2>7. UNCHANGED <<addr, mark, devices, refs, opened, promised, late, dev, want, vol>>
    BY <1>3
  <2>8. PICK p \in {"flush"} : pc' = [pc EXCEPT ![t] = p]
    BY <2>1
  <2> QED
    BY <2>2, <2>3, <2>4, <2>5, <2>6, <2>7, <2>8, GoOnKeeps
<1>5. CASE ~ (RmvCancel(t) /\ st[dev[t]] # "del")
  <2>1. PICK p \in {"put", "delete", "flushing"} :
          pc' = [pc EXCEPT ![t] = p] /\ (p # "put" => pc[t] \in Removing)
    BY <1>5 DEF RmvCancel, RmvFlush, RmvFlushed, Goto, Removing
  <2>2. UNCHANGED <<scanner, st>>
    BY <1>5 DEF RmvCancel, RmvFlush, RmvFlushed, diskVars
  <2>3. Types'
    BY <1>1, <1>3, <2>1, <2>2 DEF Types, Working
  <2>4. Position(t)'
    BY <1>1, <1>2, <1>3, <2>1, <2>2 DEF Position, Types, Working, Removing
  <2> QED
    BY <1>2, <1>3, <2>1, <2>2, <2>3, <2>4, GoOnKeeps
<1> QED
  BY <1>4, <1>5

\* scsi_device_set_state never revives a deleted device.
LEMMA StatKeeps ==
    ASSUME IInv, NEW t \in Threads, StatSet(t)
    PROVE  IInv'
<1>1. Types /\ Position(t) /\ Counts
  BY DEF IInv
<1>2. dev[t] \in Disks /\ pc[t] \notin {"probe", "name", "state"} \union Removing
  BY <1>1, StatAssumption DEF StatSet, Position, Types, Working, Removing
<1>3. UNCHANGED <<addr, mark, name, devices, refs, opened, promised, late, dev, want, vol,
                  scanner>>
  BY DEF StatSet, callVars
<1>4. PICK p \in {"put"} : pc' = [pc EXCEPT ![t] = p]
  BY DEF StatSet, Goto
<1>5. \/ UNCHANGED st
      \/ \E s \in {"running", "offline", "block"} :
            st[dev[t]] \notin {"del", "cancel"} /\ st' = [st EXCEPT ![dev[t]] = s]
  BY StatAssumption DEF StatSet, StatFrom
<1>6. Types'
  BY <1>1, <1>2, <1>3, <1>4, <1>5 DEF Types, Working
<1>7. \A o \in Disks : st'[o] = "del" <=> st[o] = "del"
  BY <1>1, <1>2, <1>5 DEF Types
<1>8. \A o \in Disks : (st[o] # "cancel" => st'[o] # "cancel")
                       /\ (st[o] = "cancel" => st'[o] = "cancel")
  BY <1>1, <1>2, <1>5 DEF Types
<1>9. \A u \in Threads \ {t} : UNCHANGED <<pc[u], dev[u], want[u], late[u]>>
  BY <1>1, <1>3, <1>4 DEF Types
<1>10. Position(t)' /\ Aware(t)'
  <2>1. Position(t)'
    BY <1>1, <1>2, <1>3, <1>4, DiskAssumption DEF Position, Types, Working, Removing
  <2> QED
    BY <1>1, <1>3, <1>4, <1>7, <2>1, AwareKept DEF Types
<1>11. ASSUME NEW u \in Threads \ {t}
       PROVE  Position(u)' /\ Aware(u)'
  <2>1. Listed' = Listed /\ Listed \subseteq Disks /\ Marks
    BY <1>1, <1>3, ToSetOf DEF Listed, Types, IInv
  <2>2. CASE pc[u] \notin Removing \union {"probe"}
    BY <1>3, <1>7, <1>9, <2>1, <2>2, OthersKeep DEF Marks
  <2>3. CASE pc[u] \in Removing \union {"probe"}
    <3>1. dev[u] \in Disks
      BY <1>1, <2>3 DEF IInv, Position, Types, Working, Removing
    <3>2. Position(u) /\ st[dev[u]] # "del"
      BY <2>3 DEF IInv, Position
    <3> QED
      BY <1>3, <1>7, <1>8, <1>9, <2>1, <3>1, <3>2, OthersKeep DEF Marks
  <2> QED
    BY <2>2, <2>3
<1>12. Counts'
  <2>1. \A o \in Disks : Holders(o)' = Holders(o)
    BY <1>1, <1>2, <1>3, <1>4, <1>9 DEF Holders, Types
  <2> QED
    BY <1>1, <1>3, <1>7, <2>1, CountsKept
<1>13. Marks'
  BY <1>3 DEF IInv, Marks, MarkSticks, Listed
<1> QED
  BY <1>6, <1>10, <1>11, <1>12, <1>13 DEF IInv

LEMMA AddNameKeeps ==
    ASSUME IInv, NEW t \in Threads, AddName(t)
    PROVE  IInv'
<1>1. Types /\ Position(t)
  BY DEF IInv
<1>2. pc[t] = "name" /\ dev[t] \in Disks
  BY <1>1 DEF AddName, Position, Types, Working
<1>3. UNCHANGED <<addr, mark, devices, refs, opened, promised, late, dev, want, vol, st,
                  scanner>>
  BY DEF AddName, callVars
<1>4. PICK p \in {"state"} : pc' = [pc EXCEPT ![t] = p]
  BY DEF AddName, Goto
<1>5. Types'
  BY <1>1, <1>2, <1>3, <1>4 DEF AddName, Types, Working
<1>6. Position(t)'
  BY <1>1, <1>2, <1>3, <1>4, StatAssumption DEF Position, Types, Working, Removing
<1> QED
  BY <1>2, <1>3, <1>4, <1>5, <1>6, GoOnKeeps

\* scsi_add_device: found, or a new device, which nobody has seen yet.
LEMMA ScanBeginKeeps ==
    ASSUME IInv, NEW t \in Threads, ScanBegin(t)
    PROVE  IInv'
<1>1. Types /\ Counts /\ Marks /\ Position(t) /\ Listed \subseteq Disks
  BY ToSetOf DEF IInv, Types, Listed
<1>2. pc[t] = "scan" /\ scanner = NoThread /\ dev[t] = NoDisk /\ want[t] \in Addrs
  BY <1>1, StatAssumption DEF ScanBegin, Position, Working
<1>3. \A u \in Threads \ {t} : pc[u] \notin Removing \union {"probe"}
  BY <1>2, DiskAssumption DEF IInv, Position
<1>4. UNCHANGED <<opened, promised, late, want, vol>>
  BY DEF ScanBegin
<1>5. CASE At(want[t]) # {}
  <2>1. PICK p \in {"found"} : pc' = [pc EXCEPT ![t] = p]
    BY <1>5 DEF ScanBegin, Goto
  <2>2. UNCHANGED <<addr, mark, name, devices, refs, dev, scanner, st>>
    BY <1>5 DEF ScanBegin, diskVars
  <2>3. Types'
    BY <1>1, <1>4, <2>1, <2>2 DEF Types
  <2>4. Position(t)'
    BY <1>1, <1>2, <1>4, <2>1, <2>2, StatAssumption DEF Position, Types, Working, Removing
  <2> QED
    BY <1>2, <1>4, <2>1, <2>2, <2>3, <2>4, GoOnKeeps
<1>6. ASSUME NEW o \in Disks \ Listed,
             /\ addr' = [addr EXCEPT ![o] = want[t]]
             /\ st'   = [st EXCEPT ![o] = "created"]
             /\ refs' = [refs EXCEPT ![o] = 1]
             /\ devices' = AddTail(devices, o)
             /\ scanner' = t
             /\ dev' = [dev EXCEPT ![t] = o]
             /\ Goto(t, "probe")
             /\ UNCHANGED <<name, mark>>
      PROVE  IInv'
  <2>1. Listed' = Listed \union {o} /\ devices' \in Seq(Disks) /\ NoDup(devices')
    BY <1>1, <1>6, AddTailFacts DEF Types, Counts, Listed
  <2>2. Types'
    BY <1>1, <1>4, <1>6, <2>1 DEF Types, Goto
  <2>3. /\ refs[o] = 0 /\ Opener(o) = 0 /\ Cardinality(Holders(o)) = 0 /\ o \notin promised
    <3>1. Counted(o) /\ ~ (refs[o] > 0) /\ refs[o] \in Int
      BY <1>1 DEF Counts, Types
    <3>2. Cardinality(Holders(o)) \in Nat
      BY HoldersFinite
    <3> QED
      BY <1>1, <3>1, <3>2 DEF Counted, Midlayer, Opener, Marks
  <2>4. /\ pc'[t] = "probe" /\ dev'[t] = o
        /\ \A u \in Threads \ {t} : UNCHANGED <<pc[u], dev[u], want[u], late[u]>>
    BY <1>1, <1>4, <1>6 DEF Types, Goto
  <2>5. \A p \in Disks : Holders(p)' = Holders(p)
    BY <1>1, <1>2, <2>4, DiskAssumption DEF Holders
  <2>6. Counts'
    <3>1. ASSUME NEW p \in Disks
          PROVE  Counted(p)' /\ (p \in Listed' <=> refs'[p] > 0)
      <4>1. CASE p = o
        BY <1>1, <1>4, <1>6, <2>1, <2>3, <2>5, <4>1
           DEF Counted, Midlayer, Opener, Types
      <4>2. CASE p # o
        BY <1>1, <1>4, <1>6, <2>1, <2>5, <4>2
           DEF Counts, Counted, Midlayer, Opener, Types
      <4> QED
        BY <4>1, <4>2
    <3> QED
      BY <2>1, <3>1 DEF Counts
  <2>7. Marks'
    BY <1>1, <1>2, <1>4, <1>6, <2>1 DEF Marks, MarkSticks, Types
  <2>8. Position(t)'
    BY <1>1, <1>2, <1>4, <1>6, <2>4, DiskAssumption, StatAssumption
       DEF Position, Types, Working, Removing
  <2>9. Aware(t)'
    BY <1>1, <1>4, <1>6, <2>3, <2>4 DEF IInv, Aware, Types, Marks
  <2>10. ASSUME NEW u \in Threads \ {t}
         PROVE  Position(u)' /\ Aware(u)'
    <3>1. \A p \in Listed \intersect Listed' :
             addr'[p] = addr[p] /\ (st'[p] # "del" => st[p] # "del")
      BY <1>1, <1>6 DEF Types
    <3>2. promised' \subseteq Listed' /\ promised' \subseteq promised
      BY <1>1, <1>4, <2>1 DEF Marks
    <3> QED
      BY <1>3, <2>1, <2>4, <3>1, <3>2, OthersKeep
  <2> QED
    BY <2>2, <2>6, <2>7, <2>8, <2>9, <2>10 DEF IInv
<1> QED
  BY <1>5, <1>6 DEF ScanBegin

\* The thread with scan_mutex makes its device a disk, or destroys one: the
\* midlayer's reference goes, and the thread keeps its own.
LEMMA MakeKeeps ==
    ASSUME IInv, NEW t \in Threads, ScanEnd(t) \/ ScanFail(t) \/ RmvDelete(t)
    PROVE  IInv'
<1>1. Types /\ Counts /\ Marks /\ Position(t) /\ Listed \subseteq Disks
  BY ToSetOf DEF IInv, Types, Listed
<1>2. /\ pc[t] \in {"probe", "delete"} /\ scanner = t
      /\ dev[t] \in Disks /\ st[dev[t]] # "del" /\ NoDisk \notin Disks
  BY <1>1, DiskAssumption
     DEF ScanEnd, ScanFail, RmvDelete, Position, Removing, Types, Working
<1>3. UNCHANGED <<addr, mark, name, devices, opened, promised, late, want, vol>>
  BY DEF ScanEnd, ScanFail, RmvDelete, callVars
<1>4. /\ \A u \in Threads \ {t} : UNCHANGED <<pc[u], dev[u], want[u], late[u]>>
      /\ \A o \in Disks \ {dev[t]} : st'[o] = st[o] /\ refs'[o] = refs[o]
      /\ \/ pc'[t] = "put" /\ dev'[t] = dev[t]
         \/ pc'[t] = "found" /\ dev'[t] = NoDisk /\ pc[t] = "probe"
  <2>1. CASE ScanEnd(t)
    BY <1>1, <1>2, <1>3, <2>1 DEF ScanEnd, Goto, Types
  <2>2. CASE ScanFail(t)
    BY <1>1, <1>2, <1>3, <2>2 DEF ScanFail, Goto, Types, callVars
  <2>3. CASE RmvDelete(t)
    BY <1>1, <1>2, <1>3, <2>3 DEF RmvDelete, Goto, Types, callVars
  <2> QED
    BY <2>1, <2>2, <2>3
<1>5. Types'
  <2>1. CASE ScanEnd(t)
    BY <1>1, <1>2, <1>3, <2>1 DEF ScanEnd, Goto, Types
  <2>2. CASE ScanFail(t)
    BY <1>1, <1>2, <1>3, <2>2 DEF ScanFail, Goto, Types, callVars, Working
  <2>3. CASE RmvDelete(t)
    BY <1>1, <1>2, <1>3, <2>3 DEF RmvDelete, Goto, Types, callVars, Working
  <2> QED
    BY <2>1, <2>2, <2>3
<1>6. \A u \in Threads \ {t} : pc[u] \notin Removing \union {"probe"}
  BY <1>2 DEF IInv, Position
<1>7. Counts'
  <2>1. \A o \in Disks \ {dev[t]} : Holders(o)' = Holders(o)
    BY <1>2, <1>4 DEF Holders
  <2>2. ASSUME NEW o \in Disks, o = dev[t]
        PROVE  Counted(o)' /\ (refs'[o] > 0 <=> o \in Listed)
    <3>1. Counted(o) /\ (o \in Listed <=> refs[o] > 0) /\ refs[o] \in Int
      BY <1>1 DEF Counts, Types
    <3>2. Cardinality(Holders(o)) \in Nat /\ Opener(o) \in Nat /\ Opener(o)' = Opener(o)
      BY <1>3, HoldersFinite DEF Opener
    <3>3. CASE ScanEnd(t)
      <4>1. Holders(o)' = Holders(o)
        BY <1>1, <1>2, <1>4, <2>2, <3>3 DEF Holders, ScanEnd, Types
      <4>2. Midlayer(o)' = 1 /\ Midlayer(o) = 1 /\ refs'[o] = refs[o]
        BY <1>1, <1>2, <2>2, <3>3 DEF Midlayer, ScanEnd, Types
      <4> QED
        BY <3>1, <3>2, <4>1, <4>2 DEF Counted
    <3>4. CASE ScanFail(t)
      <4>1. Holders(o)' = Holders(o) \union {t} /\ t \notin Holders(o)
        BY <1>1, <1>2, <1>4, <2>2, <3>4 DEF Holders, ScanFail, callVars, Types
      <4>2. Cardinality(Holders(o)') = Cardinality(Holders(o)) + 1
        BY <4>1, HoldersFinite, FS_AddElement
      <4>3. Midlayer(o)' = 0 /\ Midlayer(o) = 1 /\ refs'[o] = refs[o]
        BY <1>1, <1>2, <2>2, <3>4 DEF Midlayer, ScanFail, Types
      <4> QED
        BY <3>1, <3>2, <4>2, <4>3 DEF Counted
    <3>5. CASE RmvDelete(t)
      <4>1. Holders(o)' = Holders(o) /\ t \in Holders(o)
        BY <1>1, <1>2, <1>4, <2>2, <3>5 DEF Holders, RmvDelete, callVars, Types
      <4>2. Midlayer(o)' = 0 /\ Midlayer(o) = 1 /\ refs'[o] = refs[o] - 1
        BY <1>1, <1>2, <2>2, <3>5 DEF Midlayer, RmvDelete, Types
      <4>3. Cardinality(Holders(o)) > 0
        BY <3>2, <4>1, HoldersFinite, FS_EmptySet
      <4> QED
        BY <3>1, <3>2, <4>1, <4>2, <4>3 DEF Counted
    <3> QED
      BY <3>3, <3>4, <3>5
  <2>3. Listed' = Listed /\ NoDup(devices)'
    BY <1>1, <1>3 DEF Listed, Counts
  <2>4. \A o \in Disks \ {dev[t]} : Counted(o)' /\ (o \in Listed <=> refs'[o] > 0)
    BY <1>1, <1>3, <1>4, <2>1 DEF Counts, Counted, Midlayer, Opener
  <2> QED
    BY <2>2, <2>3, <2>4 DEF Counts
<1>8. Position(t)'
  BY <1>1, <1>2, <1>3, <1>4, StatAssumption DEF Position, Working, Removing
<1>9. \A o \in Disks : st'[o] # "del" => st[o] # "del"
  BY <1>2, <1>4
<1>10. Aware(t)'
  BY <1>3, <1>4, <1>9, AwareKept
<1> QED
  BY <1>3, <1>4, <1>5, <1>6, <1>7, <1>8, <1>9, <1>10, ThreadKeeps

\* Names and marks: the promise that a late adder breaks is one it knows of.
LEMMA AddStateKeeps ==
    ASSUME IInv, NEW t \in Threads, AddState(t)
    PROVE  IInv'
<1>1. Types /\ Counts /\ Marks /\ Position(t) /\ Aware(t) /\ Listed \subseteq Disks
  BY ToSetOf DEF IInv, Types, Listed
<1>2. pc[t] = "state" /\ dev[t] \in Disks /\ NoDisk \notin Disks
  BY <1>1, DiskAssumption DEF AddState, Position, Types, Working
<1>3. UNCHANGED <<addr, st, name, devices, refs, scanner, dev, want, vol, opened, late>>
  BY DEF AddState, callVars
<1>4. /\ pc'[t] = "put" /\ pc' \in [Threads -> Working \union {"idle", "scan", "probe", "found"}]
      /\ \A u \in Threads \ {t} : UNCHANGED <<pc[u], dev[u], want[u], late[u]>>
  BY <1>1, <1>3 DEF AddState, Goto, Types, Working
<1>5. promised' = promised \ {dev[t]} /\ mark' = [mark EXCEPT ![dev[t]] = "running"]
  BY <1>1, <1>2 DEF AddState, Aware
<1>6. Types'
  BY <1>1, <1>3, <1>4, <1>5 DEF Types
<1>7. \A o \in Disks : Holders(o)' = Holders(o)
  BY <1>2, <1>3, <1>4 DEF Holders
<1>8. Counts'
  BY <1>1, <1>3, <1>7, CountsKept
<1>9. Marks' /\ Listed' = Listed
  BY <1>1, <1>3, <1>5 DEF Marks, MarkSticks, Listed, Types
<1>10. Position(t)'
  BY <1>1, <1>2, <1>3, <1>4, StatAssumption DEF Position, Working, Removing
<1>11. Aware(t)'
  BY <1>1, <1>3, <1>4, <1>5 DEF Aware
<1>12. ASSUME NEW u \in Threads \ {t}
       PROVE  Position(u)' /\ Aware(u)'
  BY <1>1, <1>3, <1>4, <1>5, <1>9, OthersKeep DEF Marks
<1> QED
  BY <1>6, <1>8, <1>9, <1>10, <1>11, <1>12 DEF IInv

\* The second look-up takes the device at the address, whichever it is by now.
LEMMA AddFindKeeps ==
    ASSUME IInv, NEW t \in Threads, AddFind(t)
    PROVE  IInv'
<1>1. Types /\ Counts /\ Marks /\ Position(t) /\ Aware(t) /\ Listed \subseteq Disks
  BY ToSetOf DEF IInv, Types, Listed
<1>2. pc[t] = "found" /\ dev[t] = NoDisk /\ NoDisk \notin Disks
  BY <1>1, StatAssumption, DiskAssumption DEF AddFind, Position, Working
<1>3. UNCHANGED <<addr, st, name, mark, devices, scanner, opened, promised>>
  BY DEF AddFind, diskVars
<1>4. Marks' /\ Listed' = Listed
  BY <1>1, <1>3 DEF Marks, MarkSticks, Listed
<1>5. CASE Return(t) /\ UNCHANGED refs
  <2>1. /\ \A u \in Threads \ {t} : UNCHANGED <<pc[u], dev[u], want[u], late[u]>>
        /\ pc'[t] = "idle" /\ dev'[t] = NoDisk /\ want'[t] = NoAddr
    BY <1>1, <1>5 DEF Return, Goto, Types
  <2>2. Types'
    BY <1>1, <1>3, <1>5 DEF Return, Goto, Types
  <2>3. \A o \in Disks : Holders(o)' = Holders(o)
    BY <1>2, <2>1 DEF Holders
  <2>4. Counts'
    BY <1>1, <1>3, <1>5, <2>3, CountsKept
  <2>5. Position(t)' /\ Aware(t)'
    BY <1>1, <1>3, <2>1, StatAssumption, DiskAssumption
       DEF Position, Aware, Working, Removing, Marks
  <2>6. ASSUME NEW u \in Threads \ {t}
        PROVE  Position(u)' /\ Aware(u)'
    BY <1>1, <1>3, <1>4, <2>1, OthersKeep DEF Marks
  <2> QED
    BY <1>4, <2>2, <2>4, <2>5, <2>6 DEF IInv
<1>6. ASSUME NEW o \in At(want[t]), Take(t, o, "name"), UNCHANGED <<want, vol, late>>
      PROVE  IInv'
  <2>1. o \in Listed /\ o \in Disks /\ addr[o] = want[t] /\ st[o] # "del"
    BY <1>1, <1>6 DEF At
  <2>2. /\ \A u \in Threads \ {t} : UNCHANGED <<pc[u], dev[u], want[u], late[u]>>
        /\ pc'[t] = "name" /\ dev'[t] = o /\ dev' = [dev EXCEPT ![t] = o]
        /\ refs' = [refs EXCEPT ![o] = @ + 1]
    BY <1>1, <1>6 DEF Take, Goto, Get, Types
  <2>3. Types'
    BY <1>1, <1>3, <1>6, <2>1, <2>2 DEF Take, Goto, Types, Working
  <2>4. Counts'
    <3>1. pc'[t] # "probe" /\ Get(o) /\ \A u \in Threads \ {t} : pc'[u] = pc[u]
      BY <1>6, <2>2 DEF Take
    <3> QED
      BY <1>1, <1>2, <1>3, <2>1, <2>2, <3>1, CountsTaken
  <2>5. Position(t)'
    BY <1>2, <2>1, <2>2 DEF Position, Working, Removing
  <2>6. Aware(t)'
    BY <1>1, <1>3, <1>6, <2>1, <2>2 DEF Aware
  <2>7. ASSUME NEW u \in Threads \ {t}
        PROVE  Position(u)' /\ Aware(u)'
    BY <1>1, <1>3, <1>4, <2>2, OthersKeep DEF Marks
  <2> QED
    BY <1>4, <2>3, <2>4, <2>5, <2>6, <2>7 DEF IInv
<1> QED
  BY <1>5, <1>6 DEF AddFind

\* A promise is made known to those it concerns (vsc_set_delete_by_vol_name).
LEMMA MarkSetKeeps ==
    ASSUME IInv, NEW t \in Threads, MarkSet(t)
    PROVE  IInv'
<1>1. Types /\ Counts /\ Marks /\ Position(t) /\ Listed \subseteq Disks
  BY ToSetOf DEF IInv, Types, Listed
<1>2. pc[t] = "mark" /\ dev[t] \in Disks /\ dev[t] \in Listed /\ NoDisk \notin Disks
  <2>1. pc[t] = "mark" /\ dev[t] \in Disks
    BY <1>1 DEF MarkSet, Position, Types, Working
  <2> QED
    BY <1>1, <2>1, HeldListed, DiskAssumption
<1>3. UNCHANGED <<addr, st, name, devices, refs, scanner, want, vol, dev, opened>>
  BY DEF MarkSet, callVars
<1>4. /\ \A u \in Threads \ {t} : pc'[u] = pc[u]
      /\ pc'[t] = "put" /\ promised' = promised \union {dev[t]}
      /\ mark' = [mark EXCEPT ![dev[t]] = "prepare"]
  BY <1>1 DEF MarkSet, Goto, Types
<1>5. \A u \in Threads :
        late'[u] = IF want[u] = addr[dev[t]] THEN late[u] \union {dev[t]} ELSE late[u]
  BY <1>1 DEF MarkSet, Adding
<1>6. Types'
  BY <1>1, <1>2, <1>3, <1>4 DEF MarkSet, Goto, Types, Working
<1>7. \A o \in Disks : Holders(o)' = Holders(o)
  BY <1>1, <1>2, <1>3, <1>4 DEF Holders
<1>8. Counts'
  BY <1>1, <1>3, <1>7, CountsKept
<1>9. Marks'
  BY <1>1, <1>2, <1>3, <1>4 DEF Marks, MarkSticks, Listed, Types
<1>10. ASSUME NEW u \in Threads
       PROVE  Position(u)' /\ Aware(u)'
  <2>1. Position(u) /\ Aware(u)
    BY DEF IInv
  <2>2. u = t \/ pc'[u] = pc[u]
    BY <1>4
  <2>3. Position(u)'
    BY <1>2, <1>3, <1>4, <2>1, <2>2, StatAssumption DEF Position, Working, Removing
  <2>4. Aware(u)'
    BY <1>2, <1>3, <1>4, <1>5, <2>1, <2>2 DEF Aware
  <2> QED
    BY <2>3, <2>4
<1> QED
  BY <1>6, <1>8, <1>9, <1>10 DEF IInv

\* A put that brings the count to zero forgets the device, which then nobody
\* holds, and the promise made of it.
LEMMA PutMarks ==
    ASSUME IInv, NEW o \in Listed, Put(o),
           Listed' = IF refs[o] = 1 THEN Listed \ {o} ELSE Listed
    PROVE  Marks' /\ \A p \in Listed' : addr'[p] = addr[p]
<1>1. Types /\ Marks /\ Listed \subseteq Disks
  BY ToSetOf DEF IInv, Types, Listed
<1>2. CASE refs[o] = 1
  <2>1. /\ addr' = [addr EXCEPT ![o] = NoAddr] /\ mark' = [mark EXCEPT ![o] = "none"]
        /\ promised' = promised \ {o}
    BY <1>2 DEF Put
  <2> QED
    BY <1>1, <1>2, <2>1 DEF Marks, MarkSticks, Types
<1>3. CASE refs[o] # 1
  BY <1>1, <1>3 DEF Put, Marks, MarkSticks
<1> QED
  BY <1>2, <1>3

LEMMA PutTypes ==
    ASSUME Types, NEW o \in Disks, Put(o)
    PROVE  /\ st' = st /\ promised' \subseteq promised
           /\ refs' \in [Disks -> Int] /\ devices' \in Seq(Disks)
           /\ name' \in [Disks -> Names \union {NoName}]
           /\ addr' \in [Disks -> Addrs \union {NoAddr}]
           /\ mark' \in [Disks -> {"none", "running", "prepare"}]
<1>1. Del(devices, o) \in Seq(Disks)
  BY DelFacts DEF Types
<1>2. CASE refs[o] = 1
  <2>1. /\ refs' = [refs EXCEPT ![o] = @ - 1] /\ devices' = Del(devices, o)
        /\ addr' = [addr EXCEPT ![o] = NoAddr] /\ name' = [name EXCEPT ![o] = NoName]
        /\ mark' = [mark EXCEPT ![o] = "none"] /\ promised' = promised \ {o} /\ st' = st
    BY <1>2 DEF Put
  <2> QED
    BY <1>1, <2>1 DEF Types
<1>3. CASE refs[o] # 1
  BY <1>3 DEF Put, Types
<1> QED
  BY <1>2, <1>3

\* A device that a thread has in hand stays.
LEMMA HeldStays ==
    ASSUME IInv, Counts', UNCHANGED st, NEW u \in Threads, UNCHANGED <<pc[u], dev[u]>>,
           dev[u] \in Disks
    PROVE  dev[u] \in Listed'
<1>1. PICK o \in Disks : o = dev[u] /\ o = dev'[u]
  OBVIOUS
<1>2. Counted(o)' /\ (o \in Listed' <=> refs'[o] > 0)
  BY DEF Counts
<1>3. IsFiniteSet(Holders(o)') /\ Cardinality(Holders(o)') \in Nat
  BY FS_Subset, FS_CardinalityType, DiskAssumption DEF Holders
<1>4. Midlayer(o)' \in Nat /\ Opener(o)' \in Nat
  BY DEF Midlayer, Opener
<1>5. CASE pc[u] # "probe"
  <2>1. u \in Holders(o)'
    BY <1>1, <1>5 DEF Holders
  <2>2. Cardinality(Holders(o)') > 0
    BY <1>3, <2>1, FS_EmptySet
  <2> QED
    BY <1>1, <1>2, <1>3, <1>4, <2>2 DEF Counted
<1>6. CASE pc[u] = "probe"
  <2>1. Midlayer(o)' = 1
    BY <1>1, <1>6 DEF IInv, Position, Midlayer
  <2> QED
    BY <1>1, <1>2, <1>3, <1>4, <2>1 DEF Counted
<1> QED
  BY <1>5, <1>6

LEMMA FinishKeeps ==
    ASSUME IInv, NEW t \in Threads, Finish(t)
    PROVE  IInv'
<1>1. Types /\ Counts /\ Marks /\ Position(t) /\ Listed \subseteq Disks
  BY ToSetOf DEF IInv, Types, Listed
<1>2. PICK o \in Disks :
        /\ o = dev[t] /\ o \in Listed /\ refs[o] > 0
        /\ pc[t] = "put" /\ NoDisk \notin Disks
  <2>1. pc[t] = "put" /\ dev[t] \in Disks
    BY <1>1 DEF Finish, Position, Types, Working
  <2> QED
    BY <1>1, <2>1, HeldListed, DiskAssumption
<1>3. Put(o) /\ UNCHANGED <<scanner, opened>>
  BY <1>2 DEF Finish
<1>4. /\ \A u \in Threads \ {t} : UNCHANGED <<pc[u], dev[u], want[u], late[u]>>
      /\ pc'[t] = "idle" /\ dev'[t] = NoDisk /\ want'[t] = NoAddr
  BY <1>1 DEF Finish, Return, Goto, Types
<1>5. Types'
  BY <1>1, <1>2, <1>3, PutTypes DEF Finish, Return, Goto, Types
<1>6. st' = st /\ promised' \subseteq promised
  BY <1>1, <1>2, <1>3, PutTypes
<1>7. Cardinality(Holders(o)') = Cardinality(Holders(o)) - 1
  <2>1. Holders(o)' = Holders(o) \ {t} /\ t \in Holders(o)
    BY <1>2, <1>4 DEF Holders
  <2> QED
    BY <2>1, HoldersFinite, FS_RemoveElement
<1>8. \A p \in Disks \ {o} : Holders(p)' = Holders(p)
  BY <1>2, <1>4 DEF Holders
<1>9. Counts' /\ Listed' = (IF refs[o] = 1 THEN Listed \ {o} ELSE Listed)
  BY <1>1, <1>2, <1>3, <1>7, <1>8, CountsPut
<1>10. Marks' /\ \A p \in Listed' : addr'[p] = addr[p]
  BY <1>2, <1>3, <1>9, PutMarks
<1>11. Position(t)' /\ Aware(t)'
  BY <1>4, <1>10, StatAssumption, DiskAssumption DEF Position, Aware, Working, Removing, Marks
<1>12. ASSUME NEW u \in Threads \ {t}
       PROVE  Position(u)' /\ Aware(u)'
  <2>1. dev[u] \in Listed => dev[u] \in Listed'
    BY <1>1, <1>4, <1>6, <1>9, HeldStays
  <2> QED
    BY <1>3, <1>4, <1>6, <1>10, <2>1, OthersKeep DEF Marks
<1> QED
  BY <1>5, <1>9, <1>10, <1>11, <1>12 DEF IInv

LEMMA CloseKeeps ==
    ASSUME IInv, NEW o \in Disks, Close(o)
    PROVE  IInv'
<1>1. Types /\ Counts /\ Marks /\ Listed \subseteq Disks
  BY ToSetOf DEF IInv, Types, Listed
<1>2. /\ Put(o) /\ o \in opened /\ opened' = opened \ {o}
      /\ UNCHANGED <<scanner, pc, want, vol, dev, late>>
  BY DEF Close, callVars
<1>3. o \in Listed /\ refs[o] > 0
  <2>1. Counted(o) /\ (o \in Listed <=> refs[o] > 0)
    BY <1>1 DEF Counts
  <2>2. Midlayer(o) \in Nat /\ Opener(o) = 1 /\ Cardinality(Holders(o)) \in Nat
    BY <1>2, HoldersFinite DEF Midlayer, Opener
  <2> QED
    BY <2>1, <2>2 DEF Counted
<1>4. Types' /\ st' = st /\ promised' \subseteq promised
  BY <1>1, <1>2, PutTypes DEF Types
<1>5. \A p \in Disks : Holders(p)' = Holders(p)
  BY <1>2 DEF Holders
<1>6. Counts' /\ Listed' = (IF refs[o] = 1 THEN Listed \ {o} ELSE Listed)
  BY <1>1, <1>2, <1>3, <1>5, CountsPut
<1>7. Marks' /\ \A p \in Listed' : addr'[p] = addr[p]
  BY <1>2, <1>3, <1>6, PutMarks
<1>8. ASSUME NEW u \in Threads
      PROVE  Position(u)' /\ Aware(u)'
  <2>1. dev[u] \in Listed => dev[u] \in Listed'
    BY <1>1, <1>2, <1>4, <1>6, HeldStays
  <2> QED
    BY <1>2, <1>4, <1>7, <2>1, OthersKeep DEF Marks
<1> QED
  BY <1>4, <1>6, <1>7, <1>8 DEF IInv

\* A program opens a disk; the host is suspended and resumed.
LEMMA OpenKeeps ==
    ASSUME IInv, (\E o \in Disks : Open(o)) \/ Block \/ Unblock
    PROVE  IInv'
<1>1. Types /\ Counts /\ Marks /\ Listed \subseteq Disks
  BY ToSetOf DEF IInv, Types, Listed
<1>2. UNCHANGED <<diskVars, scanner, pc, callVars, promised, late>>
  BY DEF Open, Block, Unblock
<1>3. \A p \in Disks : Holders(p)' = Holders(p)
  BY <1>2 DEF Holders, callVars
<1>4. Listed' = Listed /\ NoDup(devices)'
  BY <1>1, <1>2 DEF Listed, diskVars, Counts
<1>5. ASSUME \E o \in Disks : Open(o)
      PROVE  Counts' /\ refs' \in [Disks -> Int] /\ opened' \subseteq Disks
  <2>1. PICK o \in Disks : Open(o)
    BY <1>5
  <2>2. /\ o \in Listed /\ o \notin opened /\ opened' = opened \union {o}
        /\ refs' = [refs EXCEPT ![o] = @ + 1]
    BY <2>1 DEF Open, Get
  <2>3. refs' \in [Disks -> Int] /\ opened' \subseteq Disks
    BY <1>1, <2>2 DEF Types
  <2>4. ASSUME NEW p \in Disks
        PROVE  Counted(p)' /\ (p \in Listed' <=> refs'[p] > 0)
    <3>1. /\ Counted(p) /\ (p \in Listed <=> refs[p] > 0) /\ refs[p] \in Int
          /\ Midlayer(p)' = Midlayer(p)
      BY <1>1, <1>2 DEF Counts, Midlayer, diskVars, Types
    <3>2. Midlayer(p) \in Nat /\ Cardinality(Holders(p)) \in Nat
      BY HoldersFinite DEF Midlayer
    <3> QED
      BY <1>1, <1>3, <1>4, <2>2, <3>1, <3>2 DEF Counted, Opener, Types
  <2> QED
    BY <1>4, <2>3, <2>4 DEF Counts
<1>6. ASSUME Block \/ Unblock
      PROVE  Counts' /\ refs' \in [Disks -> Int] /\ opened' \subseteq Disks
  <2>1. UNCHANGED <<refs, opened>>
    BY <1>6 DEF Block, Unblock
  <2> QED
    BY <1>1, <1>2, <1>3, <2>1, CountsKept DEF Types, diskVars
<1>7. Types'
  BY <1>1, <1>2, <1>5, <1>6 DEF Types, diskVars, callVars
<1>8. Marks'
  BY <1>1, <1>2, <1>4 DEF Marks, MarkSticks, diskVars
<1>9. \A u \in Threads : Position(u)' /\ Aware(u)'
  BY <1>2 DEF IInv, Position, Aware, diskVars, callVars
<1> QED
  BY <1>5, <1>6, <1>7, <1>8, <1>9 DEF IInv

LEMMA Unchanged == IInv /\ UNCHANGED vars => IInv'
<1> SUFFICES ASSUME IInv, UNCHANGED vars PROVE IInv'
  OBVIOUS
<1>1. Types' /\ Marks' /\ \A t \in Threads : Position(t)' /\ Aware(t)'
  BY DEF vars, diskVars, callVars, IInv, Types, Marks, MarkSticks, Listed, Position, Aware
<1>2. Counts'
  BY DEF vars, diskVars, callVars, IInv, Counts, Counted, Midlayer, Opener, Holders, Listed
<1> QED
  BY <1>1, <1>2 DEF IInv

LEMMA Inductive == IInv /\ [Next]_vars => IInv'
<1> SUFFICES ASSUME IInv, [Next]_vars PROVE IInv'
  OBVIOUS
<1>1. ASSUME NEW t \in Threads,
             AddDisk(t) \/ RmvDisk(t) \/ RmvVol(t) \/ SetStat(t) \/ Inspect(t)
      PROVE  IInv'
  BY <1>1, AddBeginKeeps, BeginKeeps
<1>2. ASSUME NEW t \in Threads, Go(t)
      PROVE  IInv'
  BY <1>2, ScanBeginKeeps, AddFindKeeps, AddNameKeeps, AddStateKeeps, FinishKeeps,
     MarkSetKeeps, RmvKeeps, MakeKeeps, StatKeeps DEF Go
<1>3. ASSUME NEW t \in Threads, RmvFlush(t) \/ RmvFlushed(t) \/ ScanEnd(t) \/ ScanFail(t)
      PROVE  IInv'
  BY <1>3, RmvKeeps, MakeKeeps
<1>4. CASE (\E o \in Disks : Open(o) \/ Close(o)) \/ Block \/ Unblock
  BY <1>4, OpenKeeps, CloseKeeps
<1>5. CASE UNCHANGED vars
  BY <1>5, Unchanged
<1> QED
  BY <1>1, <1>2, <1>3, <1>4, <1>5 DEF Next

-----------------------------------------------------------------------------

\* Every ioctl puts the device it has got, on every way out, and the midlayer's
\* reference goes once: no scsi_device leaks, and none is used after it is freed
\* (vsc_add_device, vsc_rmv_device, vsc_set_device_stat).
THEOREM ReferencesCounted == Spec => []TypeOK
<1>1. IInv => TypeOK
  BY DEF IInv, Types, Counts, Counted, Midlayer, Opener, TypeOK
<1> QED
  BY InitInv, Inductive, <1>1, PTL DEF Spec

\* A disk reported as marked stays so until it is gone, unless an add of its
\* address was at work when it was marked (vsc_set_delete_by_vol_name).
THEOREM PromiseKept == Spec => []MarkSticks
<1>1. IInv => MarkSticks
  BY DEF IInv, Marks
<1> QED
  BY InitInv, Inductive, <1>1, PTL DEF Spec
=============================================================================
