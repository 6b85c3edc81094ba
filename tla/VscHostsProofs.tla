--------------------------- MODULE VscHostsProofs ---------------------------
(***************************************************************************)
(* Proofs about VscHosts, for any number of hosts and of threads.          *)
(*                                                                         *)
(* The invariant says that at most one registration is at work, that the   *)
(* entry of its number is empty until it publishes its host and that it has *)
(* exactly the parts it would give back if it failed now, that the count is *)
(* the number of entries but for the one being published, in whatever order *)
(* they were filled, and that whatever exists is being registered, in the   *)
(* table, or an orphan.  A second invariant says what share of the commands *)
(* of a volume each host has had.                                           *)
(***************************************************************************)
EXTENDS VscHosts, Integers, FiniteSetTheorems, TLAPS

Publishing(r) == rpc[r] \in {"silbing", "count"}

\* What a registration has got when it is at p.
Got(p) == IF p \in {"alloc", "init", "add", "file"} THEN GivesBack(p) ELSE Parts

OneRegistrar == \A r, s \in Registrars :
    rpc[r] # "idle" /\ rpc[s] # "idle" => r = s

AtWork == \A r \in Registrars :
    /\ rpc[r] = "idle" <=> reg[r] = NoHost
    /\ rpc[r] # "idle" =>
          /\ reg[r] \notin freed \union orphans
          /\ have[reg[r]] = Got(rpc[r])
          /\ host_list[reg[r][1]] = IF Publishing(r) THEN reg[r] ELSE NoHost
    /\ Publishing(r) => listed

\* The numbers whose entry the count includes.
Entered == {i \in Numbers : /\ host_list[i] # NoHost
                            /\ \A r \in Registrars : Publishing(r) => reg[r][1] # i}

Filled == host_count = Cardinality(Entered)

Entries == \A i \in Numbers : host_list[i] # NoHost =>
    /\ host_list[i][1] = i
    /\ host_list[i] \notin orphans
    /\ host_list[i] \notin freed => have[host_list[i]] = Parts

Owned == \A o \in Objects : have[o] # {} =>
    \/ \E r \in Registrars : reg[r] = o
    \/ /\ have[o] = Parts
       /\ \/ o \in orphans \/ host_list[o[1]] = o
          \/ gone /\ \E i \in holes : i < o[1]

Emptied == /\ \A o \in orphans : have[o] # {}
           /\ \A o \in freed : have[o] = {}

Counted == IF listed THEN host_count > 0
           ELSE host_count = 0 /\ \A i \in Numbers : host_list[i] = NoHost

Ended == gone => ~listed /\ RegLockFree /\ OnePerNumber

HostInv == /\ OneRegistrar /\ AtWork /\ Filled /\ Entries /\ Owned /\ Emptied
           /\ Counted /\ Ended

Dispatch == /\ disk # NoHost /\ ~gone => listed
            /\ \A q \in Queuers :
                  /\ qpc[q] = "index" => host_count > 0
                  /\ qpc[q] = "pick"  => index[q] < host_count

IInv == TypeOK /\ HostInv /\ Dispatch

-----------------------------------------------------------------------------
(***************************************************************************)
(* Arithmetic and typing.                                                  *)
(***************************************************************************)

\* The number queuecommand computes from the counter is below the count of hosts
\* it has read.
LEMMA IndexBelowCount ==
    ASSUME TypeOK, host_count > 0, NEW n \in Nat
    PROVE  HostIndex(n) \in Numbers /\ HostIndex(n) < host_count
<1>1. Batch \in Nat \ {0}
    BY DEF TypeOK, Batch
<1>2. host_count \in Nat \ {0} /\ host_count <= MaxHosts /\ SnMod \in Nat \ {0}
    BY HostAssumption, BoundAssumption DEF TypeOK
<1>3. (n % SnMod) \div Batch \in Nat
    BY <1>1, <1>2
<1>4. HostIndex(n) \in 0 .. host_count - 1
    BY <1>2, <1>3 DEF HostIndex
<1> QED BY <1>2, <1>4, HostAssumption DEF Numbers

\* A host has the number of its object.
LEMMA NumberOf == \A o \in Objects : o[1] \in Numbers
BY DEF Objects

LEMMA Initial == Init => IInv
<1> SUFFICES ASSUME Init PROVE IInv
    OBVIOUS
<1>1. TypeOK
  <2>1. 0 \in Numbers /\ 0 \in 0 .. MaxHosts
    BY HostAssumption DEF Numbers
  <2>2. /\ have \in [Objects -> SUBSET Parts]
        /\ host_list \in [Numbers -> Objects \union {NoHost}]
        /\ host \in [Queuers -> Objects \union {NoHost}]
        /\ reg \in [Registrars -> Objects \union {NoHost}]
    BY DEF Init
  <2>3. /\ hits \in [Numbers -> Nat] /\ mine \in [Queuers -> Nat]
        /\ index \in [Queuers -> Numbers]
    BY <2>1 DEF Init
  <2> QED BY <2>1, <2>2, <2>3 DEF Init, TypeOK
<1>2. HostInv
  <2>1. Entered = {}
    BY DEF Init, Entered
  <2> QED BY <2>1, FS_EmptySet DEF Init, HostInv, OneRegistrar, AtWork, Filled,
          Entries, Owned, Emptied, Counted, Ended, Publishing
<1>3. Dispatch
    BY DEF Init, Dispatch
<1> QED BY <1>1, <1>2, <1>3 DEF IInv

\* The functions, written out.
LEMMA Mapped ==
    ASSUME IInv
    PROVE  /\ rpc = [s \in Registrars |-> rpc[s]]
           /\ reg = [s \in Registrars |-> reg[s]]
           /\ have = [o \in Objects |-> have[o]]
           /\ host_list = [i \in Numbers |-> host_list[i]]
<1>1. /\ rpc \in [Registrars -> {"idle", "alloc", "init", "add", "file",
                               "publish", "silbing", "count"}]
      /\ reg \in [Registrars -> Objects \union {NoHost}]
      /\ have \in [Objects -> SUBSET Parts]
      /\ host_list \in [Numbers -> Objects \union {NoHost}]
    BY DEF IInv, TypeOK
<1> QED BY <1>1

LEMMA NumbersFinite == IsFiniteSet(Numbers) /\ Cardinality(Numbers) = MaxHosts
<1>1. 0 \in Int /\ MaxHosts - 1 \in Int
    BY HostAssumption
<1>2. /\ IsFiniteSet(0 .. MaxHosts - 1)
      /\ Cardinality(0 .. MaxHosts - 1)
            = IF 0 > MaxHosts - 1 THEN 0 ELSE (MaxHosts - 1) - 0 + 1
    BY <1>1, FS_Interval
<1> QED BY <1>2, HostAssumption DEF Numbers

LEMMA EnteredFinite == IsFiniteSet(Entered) /\ Cardinality(Entered) \in Nat
<1>1. Entered \in SUBSET Numbers
    BY DEF Entered
<1>2. IsFiniteSet(Entered)
    BY <1>1, NumbersFinite, FS_Subset
<1> QED BY <1>2, FS_CardinalityType

\* There is room in the count for a number that is not entered.
LEMMA TableRoom ==
    ASSUME Filled, NEW n \in Numbers, n \notin Entered
    PROVE  /\ host_count + 1 \in 0 .. MaxHosts
           /\ Cardinality(Entered \union {n}) = host_count + 1
<1>1. Entered \union {n} \in SUBSET Numbers
    BY DEF Entered
<1>2. Cardinality(Entered \union {n}) <= MaxHosts
    BY <1>1, NumbersFinite, FS_Subset
<1>3. Cardinality(Entered \union {n}) = Cardinality(Entered) + 1
    BY EnteredFinite, FS_AddElement
<1> QED BY <1>2, <1>3, EnteredFinite, HostAssumption DEF Filled

\* An empty entry that the count reaches is a hole.
LEMMA EmptyIsHole ==
    ASSUME Filled, NEW n \in Numbers, n < host_count, host_list[n] = NoHost
    PROVE  Hole(n)
<1> SUFFICES ASSUME ~ Hole(n) PROVE FALSE
    OBVIOUS
<1>0. n \in Nat
    BY HostAssumption DEF Numbers
<1>1. Entered \in SUBSET (0 .. n - 1)
    BY <1>0, HostAssumption DEF Entered, Hole, Numbers
<1>2. IsFiniteSet(0 .. n - 1) /\ Cardinality(0 .. n - 1) = n
  <2>1. 0 \in Int /\ n - 1 \in Int
    BY <1>0
  <2>2. /\ IsFiniteSet(0 .. n - 1)
        /\ Cardinality(0 .. n - 1) = IF 0 > n - 1 THEN 0 ELSE (n - 1) - 0 + 1
    BY <2>1, FS_Interval
  <2> QED BY <1>0, <2>2
<1>3. Cardinality(Entered) <= n
    BY <1>1, <1>2, FS_Subset
<1> QED BY <1>0, <1>3, EnteredFinite DEF Filled

\* A host that the count does not reach is above a hole.
LEMMA BeyondIsAboveHole ==
    ASSUME Filled, \A r \in Registrars : ~ Publishing(r),
           NEW n \in Numbers, host_list[n] # NoHost, ~ (n < host_count)
    PROVE  \E i \in Numbers : Hole(i) /\ i < n
<1> SUFFICES ASSUME \A i \in Numbers : i < n => ~ Hole(i) PROVE FALSE
    OBVIOUS
<1>0. n \in Nat
    BY HostAssumption DEF Numbers
<1>1. 0 .. n \in SUBSET Entered
  <2> SUFFICES ASSUME NEW i \in 0 .. n PROVE i \in Entered
    OBVIOUS
  <2>1. i \in Numbers
    BY <1>0, HostAssumption DEF Numbers
  <2>2. i < n \/ i = n
    BY <1>0
  <2>3. host_list[i] # NoHost
    BY <2>1, <2>2 DEF Hole
  <2> QED BY <2>1, <2>3 DEF Entered
<1>2. Cardinality(0 .. n) = n + 1
  <2>1. 0 \in Int /\ n \in Int
    BY <1>0
  <2>2. Cardinality(0 .. n) = IF 0 > n THEN 0 ELSE n - 0 + 1
    BY <2>1, FS_Interval
  <2> QED BY <1>0, <2>2
<1>3. n + 1 <= Cardinality(Entered)
    BY <1>1, <1>2, EnteredFinite, FS_Subset
<1> QED BY <1>0, <1>3, EnteredFinite DEF Filled

\* What a registration at work knows of its host.
LEMMA Working ==
    ASSUME IInv, NEW r \in Registrars, rpc[r] # "idle"
    PROVE  /\ reg[r] \in Objects /\ reg[r][1] \in Numbers
           /\ reg[r][1] \notin Entered
           /\ host_list[reg[r][1]] = IF Publishing(r) THEN reg[r] ELSE NoHost
           /\ reg[r] \notin freed \union orphans
           /\ have[reg[r]] = Got(rpc[r])
           /\ \A s \in Registrars : s # r => rpc[s] = "idle" /\ reg[s] = NoHost
<1>1. reg[r] \in Objects
    BY DEF IInv, HostInv, AtWork, TypeOK
<1>2. reg[r][1] \in Numbers
    BY <1>1, NumberOf
<1>3. host_list[reg[r][1]] = IF Publishing(r) THEN reg[r] ELSE NoHost
    BY DEF IInv, HostInv, AtWork
<1>4. reg[r][1] \notin Entered
    BY <1>3 DEF Entered
<1> QED BY <1>1, <1>2, <1>3, <1>4 DEF IInv, HostInv, AtWork, OneRegistrar, TypeOK

LEMMA TypesKept == IInv /\ [Next]_vars => TypeOK'
<1> SUFFICES ASSUME IInv, [Next]_vars PROVE TypeOK'
    OBVIOUS
<1>0. TypeOK
    BY DEF IInv
<1>1. Reshare => hits' \in [Numbers -> Nat] /\ stale' \subseteq Queuers
    BY DEF Reshare
<1>2. ASSUME NEW r \in Registrars, Register(r), UNCHANGED <<gone, wild, holes>>
      PROVE  TypeOK'
  <2>1. ASSUME NEW o \in Objects, RegBegin(r, o) PROVE TypeOK'
    BY <1>0, <1>2, <2>1 DEF TypeOK, RegBegin, RegGoto, objectVars, tableVars,
       paramVars, diskVars, queueVars, shareVars
  <2>2. CASE RegStep(r)
    <3>1. reg[r] \in Objects
      BY <2>2, Working DEF RegStep
    <3>2. PartOf(rpc[r]) \in Parts /\ After(rpc[r]) \in {"init", "add", "file", "publish"}
      BY <2>2 DEF RegStep, PartOf, After, Parts
    <3>3. have' \in [Objects -> SUBSET Parts]
      BY <1>0, <2>2, <3>1, <3>2 DEF TypeOK, RegStep
    <3> QED BY <1>0, <1>2, <2>2, <3>2, <3>3 DEF TypeOK, RegStep, RegGoto,
            tableVars, paramVars, diskVars, queueVars, shareVars
  <2>3. CASE RegFail(r)
    <3>1. reg[r] \in Objects
      BY <2>3, Working DEF RegFail
    <3>2. have' \in [Objects -> SUBSET Parts]
      BY <1>0, <2>3, <3>1 DEF TypeOK, RegFail
    <3> QED BY <1>0, <1>2, <2>3, <3>2 DEF TypeOK, RegFail, RegGoto,
            tableVars, paramVars, diskVars, queueVars, shareVars
  <2>4. CASE PublishFirst(r)
    <3>1. reg[r] \in Objects /\ reg[r][1] \in Numbers
      BY <2>4, Working DEF PublishFirst
    <3>2. 1 \in 0 .. MaxHosts
      BY HostAssumption
    <3>3. /\ host_list' \in [Numbers -> Objects \union {NoHost}]
          /\ host_count' \in 0 .. MaxHosts /\ listed' \in BOOLEAN
          /\ silbing' \subseteq Objects /\ orphans' \subseteq Objects
      BY <1>0, <2>4, <3>1, <3>2 DEF TypeOK, PublishFirst, tableVars
    <3> QED BY <1>0, <1>1, <1>2, <2>4, <3>3 DEF TypeOK, PublishFirst, RegGoto,
            paramVars, diskVars, queueVars
  <2>5. CASE PublishEntry(r)
    <3>1. reg[r] \in Objects /\ reg[r][1] \in Numbers
      BY <2>5, Working DEF PublishEntry
    <3>2. host_list' \in [Numbers -> Objects \union {NoHost}]
      BY <1>0, <2>5, <3>1 DEF TypeOK, PublishEntry
    <3> QED BY <1>0, <1>2, <2>5, <3>2 DEF TypeOK, PublishEntry, RegGoto,
            objectVars, paramVars, diskVars, queueVars, shareVars
  <2>6. CASE PublishSilbing(r)
    <3>1. reg[r] \in Objects
      BY <2>6, Working DEF PublishSilbing
    <3> QED BY <1>0, <1>2, <2>6, <3>1 DEF TypeOK, PublishSilbing, RegGoto,
            tableVars, paramVars, diskVars, queueVars, shareVars
  <2>7. CASE PublishCount(r)
    <3>1. host_count' \in 0 .. MaxHosts
      <4>1. reg[r][1] \in Numbers /\ reg[r][1] \notin Entered
        BY <2>7, Working DEF PublishCount
      <4> QED BY <2>7, <4>1, TableRoom DEF IInv, HostInv, PublishCount
    <3> QED BY <1>0, <1>1, <1>2, <2>7, <3>1 DEF TypeOK, PublishCount, RegGoto,
            objectVars, paramVars, diskVars, queueVars
  <2> QED BY <1>2, <2>1, <2>2, <2>3, <2>4, <2>5, <2>6, <2>7 DEF Register
<1>3. ASSUME NEW i \in Numbers, RemoveHost(i), UNCHANGED <<gone, wild, holes>>
      PROVE  TypeOK'
  <2>1. Lookup(i) \in Objects
    BY <1>0, <1>3 DEF TypeOK, RemoveHost, Lookup, Live
  <2>2. /\ have' \in [Objects -> SUBSET Parts]
        /\ freed' \subseteq Objects /\ disk' \in Objects \union {NoHost}
    BY <1>0, <1>3, <2>1 DEF TypeOK, RemoveHost
  <2> QED BY <1>0, <1>3, <2>2 DEF TypeOK, RemoveHost, tableVars, regVars,
          paramVars, queueVars, shareVars
<1>4. ASSUME NEW i \in Numbers, AddDisk(i), UNCHANGED <<gone, wild, holes>>
      PROVE  TypeOK'
  BY <1>0, <1>1, <1>4 DEF TypeOK, AddDisk, Lookup, objectVars, tableVars,
     regVars, paramVars, queueVars
<1>5. ASSUME NEW q \in Queuers, Queue(q), UNCHANGED <<gone, wild, holes>>
      PROVE  TypeOK'
  <2> USE DEF objectVars, tableVars, regVars, paramVars, diskVars, shareVars
  <2>1. CASE QueueSingle(q)
    BY <1>0, <1>5, <2>1 DEF TypeOK, QueueSingle, QueueGoto
  <2>2. CASE QueueReadWrite(q)
    BY <1>0, <1>5, <2>2 DEF TypeOK, QueueReadWrite, QueueGoto
  <2>3. CASE QueueOther(q)
    <3>1. 0 \in Numbers
      BY HostAssumption DEF Numbers
    <3> QED BY <1>0, <1>5, <2>3, <3>1 DEF TypeOK, QueueOther, QueueGoto
  <2>4. CASE Index(q)
    <3>1. HostIndex(mine[q]) \in Numbers
      BY <1>0, <2>4, IndexBelowCount DEF IInv, Dispatch, TypeOK, Index
    <3>2. hits' \in [Numbers -> Nat] /\ index' \in [Queuers -> Numbers]
      BY <1>0, <2>4, <3>1 DEF TypeOK, Index
    <3> QED BY <1>0, <1>5, <2>4, <3>2 DEF TypeOK, Index, QueueGoto
  <2>5. CASE Pick(q)
    <3>1. 0 \in Numbers
      BY HostAssumption DEF Numbers
    <3> QED BY <1>0, <1>5, <2>5, <3>1 DEF TypeOK, Pick, QueueGoto
  <2>6. CASE Send(q)
    BY <1>0, <1>5, <2>6 DEF TypeOK, Send, QueueGoto
  <2> QED BY <1>5, <2>1, <2>2, <2>3, <2>4, <2>5, <2>6 DEF Queue
<1>6. ASSUME NameVolume \/ WriteShift, UNCHANGED <<gone, wild, holes>> PROVE TypeOK'
  <2>1. CASE NameVolume
    BY <1>0, <1>1, <1>6, <2>1 DEF TypeOK, NameVolume, objectVars, tableVars,
       regVars, paramVars, queueVars
  <2>2. CASE WriteShift
    <3>1. wr \in {1, 2, 4}
      BY <1>0, <2>2, BoundAssumption DEF TypeOK, WriteShift
    <3> QED BY <1>0, <1>1, <1>6, <2>2, <3>1 DEF TypeOK, WriteShift, ShiftOf,
            objectVars, tableVars, regVars, diskVars, queueVars
  <2> QED BY <1>6, <2>1, <2>2
<1>7. ASSUME NEW n \in IoPerHost, WriteIoPerHost(n) \/ SetParameter(n),
             UNCHANGED <<gone, wild, holes>>
      PROVE  TypeOK'
  BY <1>0, <1>7 DEF TypeOK, WriteIoPerHost, SetParameter, objectVars, tableVars,
     regVars, diskVars, queueVars, shareVars
<1>8. CASE RemoveAll
  <2>1. 0 \in 0 .. MaxHosts
    BY HostAssumption
  <2>2. have' \in [Objects -> SUBSET Parts] /\ holes' \subseteq Numbers
    BY <1>0, <1>8 DEF TypeOK, RemoveAll
  <2> QED BY <1>0, <1>8, <2>1, <2>2 DEF TypeOK, RemoveAll, regVars, paramVars,
          queueVars, shareVars
<1>9. CASE UseFreed
  BY <1>0, <1>9 DEF TypeOK, UseFreed, objectVars, tableVars, regVars, paramVars,
     diskVars, queueVars, shareVars
<1>10. CASE UNCHANGED vars
  BY <1>0, <1>10 DEF TypeOK, vars, objectVars, tableVars, regVars, paramVars,
     diskVars, queueVars, shareVars
<1> QED BY <1>2, <1>3, <1>4, <1>5, <1>6, <1>7, <1>8, <1>9, <1>10 DEF Next, Running

-----------------------------------------------------------------------------
(***************************************************************************)
(* Hosts, table and registrations.                                         *)
(***************************************************************************)

\* Whatever leaves them alone keeps their invariant.
LEMMA HostFrame ==
    ASSUME HostInv, UNCHANGED <<objectVars, tableVars, regVars, gone, holes>>
    PROVE  HostInv'
<1> USE DEF objectVars, tableVars, regVars
<1>1. OneRegistrar' /\ AtWork' /\ Entries' /\ Emptied' /\ Counted'
    BY DEF HostInv, OneRegistrar, AtWork, Entries, Emptied, Counted, Publishing
<1>2. Filled'
    BY DEF HostInv, Filled, Entered, Publishing
<1>3. Owned' /\ Ended'
    BY DEF HostInv, Owned, Ended, RegLockFree, OnePerNumber
<1> QED BY <1>1, <1>2, <1>3 DEF HostInv

\* The entries the count includes stay the same when the table does and nobody
\* begins or ends to publish.
LEMMA FilledFrame ==
    ASSUME Filled, UNCHANGED <<host_list, host_count>>,
           \A s \in Registrars : Publishing(s) => Publishing(s)' /\ reg'[s] = reg[s],
           \A s \in Registrars : Publishing(s)' => Publishing(s)
    PROVE  Filled'
<1>1. Entered' = Entered
    BY DEF Entered
<1> QED BY <1>1 DEF Filled

\* A registration begins on a number whose entry is empty.
LEMMA BeginKept ==
    ASSUME IInv, NEW r \in Registrars, NEW o \in Objects, RegBegin(r, o), ~gone, ~gone'
    PROVE  HostInv'
<1> USE DEF RegBegin, RegGoto, objectVars, tableVars
<1>1. /\ \A s \in Registrars : rpc[s] = "idle" /\ reg[s] = NoHost /\ ~Publishing(s)
      /\ o[1] \in Numbers
    BY NumberOf DEF RegLockFree, IInv, HostInv, AtWork, Publishing
<1>2. host_list[o[1]] = NoHost
    BY <1>1 DEF IInv, HostInv, Counted, Lookup
<1>3. ~ Publishing(r)' /\ have[o] = {} /\ o \notin freed
    BY <1>1, Mapped DEF Publishing, Unused
<1>4. o \notin freed /\ o \notin orphans /\ have[o] = {} /\ o # NoHost
    BY <1>3, HostAssumption DEF IInv, HostInv, Emptied
<1>5. /\ rpc' = [s \in Registrars |-> IF s = r THEN "alloc" ELSE "idle"]
      /\ reg' = [s \in Registrars |-> IF s = r THEN o ELSE NoHost]
    BY <1>1, Mapped
<1>6. OneRegistrar'
    BY <1>5 DEF OneRegistrar
<1>7. \A s \in Registrars : ~Publishing(s)'
    BY <1>5 DEF Publishing
<1>8. Got("alloc") = {}
    BY DEF Got, GivesBack
<1>9. AtWork'
    BY <1>2, <1>4, <1>5, <1>7, <1>8 DEF AtWork
<1>10. Filled' /\ Entries' /\ Emptied' /\ Counted'
    BY <1>1, <1>7, FilledFrame DEF IInv, HostInv, Entries, Emptied, Counted
<1>11. Owned'
    BY <1>1, <1>4, <1>5, HostAssumption DEF IInv, HostInv, Owned
<1> QED BY <1>6, <1>9, <1>10, <1>11 DEF HostInv, Ended

\* A registration at work changes or gives back the parts of its own host only.
LEMMA StepKept ==
    ASSUME IInv, NEW r \in Registrars, RegStep(r), ~gone, ~gone'
    PROVE  HostInv'
<1> USE DEF RegStep, RegGoto, tableVars
<1>1. /\ rpc[r] \in {"alloc", "init", "add", "file"}
      /\ reg[r] \in Objects /\ reg[r] # NoHost
      /\ reg[r][1] \in Numbers /\ host_list[reg[r][1]] = NoHost
      /\ reg[r] \notin freed \union orphans
      /\ have[reg[r]] = GivesBack(rpc[r])
      /\ \A s \in Registrars : s # r => rpc[s] = "idle" /\ reg[s] = NoHost
    BY Working, HostAssumption DEF Got, Publishing
<1>2. /\ After(rpc[r]) \in {"init", "add", "file", "publish"}
      /\ GivesBack(rpc[r]) \union {PartOf(rpc[r])} = Got(After(rpc[r]))
    BY <1>1 DEF After, PartOf, GivesBack, Got, Parts
<1>3. /\ rpc' = [s \in Registrars |-> IF s = r THEN After(rpc[r]) ELSE "idle"]
      /\ have' = [o \in Objects |-> IF o = reg[r] THEN Got(After(rpc[r])) ELSE have[o]]
    BY <1>1, <1>2, Mapped
<1>4. \A s \in Registrars : ~Publishing(s) /\ ~Publishing(s)'
    BY <1>1, <1>2, <1>3 DEF Publishing
<1>5. \A i \in Numbers : host_list[i] # reg[r]
    BY <1>1 DEF IInv, HostInv, Entries
<1>6. OneRegistrar'
    BY <1>3 DEF OneRegistrar
<1>7. AtWork'
    BY <1>1, <1>2, <1>3, <1>4 DEF AtWork
<1>8. Filled' /\ Counted'
    BY <1>4, FilledFrame DEF IInv, HostInv, Counted
<1>9. Entries'
    BY <1>3, <1>5 DEF IInv, HostInv, Entries, TypeOK
<1>10. Owned'
    BY <1>1, <1>3 DEF IInv, HostInv, Owned
<1>11. Emptied'
    BY <1>1, <1>3 DEF IInv, HostInv, Emptied, TypeOK
<1> QED BY <1>6, <1>7, <1>8, <1>9, <1>10, <1>11 DEF HostInv, Ended

LEMMA FailKept ==
    ASSUME IInv, NEW r \in Registrars, RegFail(r), ~gone, ~gone'
    PROVE  HostInv'
<1> USE DEF RegFail, RegGoto, tableVars
<1>1. /\ rpc[r] \in {"alloc", "init", "add", "file"}
      /\ reg[r] \in Objects /\ reg[r] # NoHost
      /\ reg[r][1] \in Numbers /\ host_list[reg[r][1]] = NoHost
      /\ reg[r] \notin freed \union orphans
      /\ have[reg[r]] = GivesBack(rpc[r])
      /\ \A s \in Registrars : s # r => rpc[s] = "idle" /\ reg[s] = NoHost
    BY Working, HostAssumption DEF Got, Publishing
<1>2. /\ rpc' = [s \in Registrars |-> "idle"]
      /\ reg' = [s \in Registrars |-> NoHost]
      /\ have' = [o \in Objects |-> IF o = reg[r] THEN {} ELSE have[o]]
  <2>1. have[reg[r]] \ GivesBack(rpc[r]) = {}
    BY <1>1
  <2> QED BY <1>1, <2>1, Mapped
<1>3. \A s \in Registrars : ~Publishing(s) /\ ~Publishing(s)'
    BY <1>1, <1>2 DEF Publishing
<1>4. \A i \in Numbers : host_list[i] # reg[r]
    BY <1>1 DEF IInv, HostInv, Entries
<1>5. OneRegistrar' /\ AtWork'
    BY <1>2, <1>3 DEF OneRegistrar, AtWork
<1>6. Filled' /\ Counted'
    BY <1>3, FilledFrame DEF IInv, HostInv, Counted
<1>7. Entries'
    BY <1>2, <1>4 DEF IInv, HostInv, Entries, TypeOK
<1>8. Owned'
    BY <1>1, <1>2 DEF IInv, HostInv, Owned
<1>9. Emptied'
    BY <1>1, <1>2 DEF IInv, HostInv, Emptied, TypeOK
<1> QED BY <1>5, <1>6, <1>7, <1>8, <1>9 DEF HostInv, Ended

\* Publishing moves a complete host into the table, entry first, count last.
LEMMA FirstKept ==
    ASSUME IInv, NEW r \in Registrars, PublishFirst(r), ~gone, ~gone'
    PROVE  HostInv'
<1> USE DEF PublishFirst, RegGoto, tableVars
<1>1. /\ rpc[r] = "publish"
      /\ reg[r] \in Objects /\ reg[r] # NoHost /\ reg[r][1] \in Numbers
      /\ reg[r] \notin freed \union orphans
      /\ have[reg[r]] = Parts /\ Parts # {}
      /\ \A s \in Registrars : s # r => rpc[s] = "idle" /\ reg[s] = NoHost
    BY Working, HostAssumption DEF Got, Parts
<1>2. /\ rpc' = [s \in Registrars |-> "idle"]
      /\ reg' = [s \in Registrars |-> NoHost]
    BY <1>1, Mapped
<1>3. \A s \in Registrars : ~Publishing(s) /\ ~Publishing(s)'
    BY <1>1, <1>2 DEF Publishing
<1>4. host_count = 0 /\ \A i \in Numbers : host_list[i] = NoHost
    BY DEF IInv, HostInv, Counted
<1>5. OneRegistrar' /\ AtWork'
    BY <1>2, <1>3 DEF OneRegistrar, AtWork
<1>6. CASE UNCHANGED tableVars /\ orphans' = orphans \union {reg[r]}
  <2>1. Filled' /\ Entries' /\ Counted'
    BY <1>3, <1>4, <1>6, FilledFrame DEF IInv, HostInv, Entries, Counted
  <2>2. Owned' /\ Emptied'
    BY <1>1, <1>2, <1>6 DEF IInv, HostInv, Owned, Emptied
  <2> QED BY <1>5, <2>1, <2>2 DEF HostInv, Ended
<1>7. CASE /\ listed' = TRUE /\ host_count' = 1 /\ UNCHANGED orphans
           /\ host_list' = [host_list EXCEPT ![reg[r][1]] = reg[r]]
  <2>1. host_list' = [i \in Numbers |-> IF i = reg[r][1] THEN reg[r] ELSE NoHost]
    BY <1>1, <1>4, <1>7, Mapped
  <2>2. Entries' /\ Counted'
    BY <1>1, <1>7, <2>1 DEF Entries, Counted
  <2>3. Filled'
    <3>1. Entered' = {reg[r][1]}
      BY <1>1, <1>3, <2>1 DEF Entered
    <3> QED BY <1>7, <3>1, FS_Singleton DEF Filled
  <2>4. Owned' /\ Emptied'
    BY <1>1, <1>2, <1>4, <1>7, <2>1, NumberOf, HostAssumption
       DEF IInv, HostInv, Owned, Emptied
  <2> QED BY <1>5, <1>7, <2>2, <2>3, <2>4 DEF HostInv, Ended
<1> QED BY <1>6, <1>7

LEMMA EntryKept ==
    ASSUME IInv, NEW r \in Registrars, PublishEntry(r), ~gone, ~gone'
    PROVE  HostInv'
<1> USE DEF PublishEntry, RegGoto, objectVars
<1>1. /\ rpc[r] = "publish"
      /\ reg[r] \in Objects /\ reg[r] # NoHost /\ reg[r][1] \in Numbers
      /\ host_list[reg[r][1]] = NoHost
      /\ reg[r] \notin freed \union orphans
      /\ have[reg[r]] = Parts
      /\ \A s \in Registrars : s # r => rpc[s] = "idle" /\ reg[s] = NoHost
    BY Working, HostAssumption DEF Got, Publishing
<1>2. /\ rpc' = [s \in Registrars |-> IF s = r THEN "silbing" ELSE "idle"]
      /\ host_list' = [i \in Numbers |-> IF i = reg[r][1] THEN reg[r]
                                         ELSE host_list[i]]
    BY <1>1, Mapped
<1>3. \A s \in Registrars : ~Publishing(s) /\ (Publishing(s)' <=> s = r)
    BY <1>1, <1>2 DEF Publishing
<1>5. OneRegistrar'
    BY <1>2 DEF OneRegistrar
<1>6. AtWork'
  <2>1. Got("silbing") = Parts
    BY DEF Got
  <2> QED BY <1>1, <1>2, <1>3, <2>1 DEF AtWork
<1>7. Filled'
  <2>1. Entered' = Entered
    BY <1>1, <1>2, <1>3 DEF Entered
  <2> QED BY <2>1 DEF IInv, HostInv, Filled
<1>8. Entries' /\ Counted'
    BY <1>1, <1>2 DEF IInv, HostInv, Entries, Counted
<1>9. Owned' /\ Emptied'
    BY <1>1, <1>2, NumberOf, HostAssumption
       DEF IInv, HostInv, Owned, Emptied
<1> QED BY <1>5, <1>6, <1>7, <1>8, <1>9 DEF HostInv, Ended

LEMMA SilbingKept ==
    ASSUME IInv, NEW r \in Registrars, PublishSilbing(r), ~gone, ~gone'
    PROVE  HostInv'
<1> USE DEF PublishSilbing, RegGoto, tableVars
<1>1. rpc' = [s \in Registrars |-> IF s = r THEN "count" ELSE rpc[s]]
    BY DEF IInv, TypeOK
<1>2. \A s \in Registrars : /\ Publishing(s)' <=> Publishing(s)
                            /\ rpc'[s] = "idle" <=> rpc[s] = "idle"
                            /\ Got(rpc'[s]) = Got(rpc[s])
    BY <1>1 DEF Publishing, Got
<1>3. OneRegistrar' /\ AtWork'
    BY <1>2 DEF IInv, HostInv, OneRegistrar, AtWork
<1>4. Filled' /\ Entries' /\ Owned' /\ Emptied' /\ Counted'
    BY <1>2, FilledFrame DEF IInv, HostInv, Entries, Owned, Emptied, Counted
<1> QED BY <1>3, <1>4 DEF HostInv, Ended

LEMMA CountKept ==
    ASSUME IInv, NEW r \in Registrars, PublishCount(r), ~gone, ~gone'
    PROVE  HostInv'
<1> USE DEF PublishCount, RegGoto, objectVars
<1>1. /\ rpc[r] = "count"
      /\ reg[r] \in Objects /\ reg[r] # NoHost
      /\ reg[r][1] \in Numbers /\ reg[r][1] \notin Entered
      /\ have[reg[r]] = Parts
      /\ \A s \in Registrars : s # r => rpc[s] = "idle" /\ reg[s] = NoHost
    BY Working, HostAssumption DEF Got
<1>2. listed /\ host_list[reg[r][1]] = reg[r]
    BY <1>1 DEF IInv, HostInv, AtWork, Publishing
<1>3. /\ rpc' = [s \in Registrars |-> "idle"]
      /\ reg' = [s \in Registrars |-> NoHost]
    BY <1>1, Mapped
<1>4. \A s \in Registrars : (Publishing(s) <=> s = r) /\ ~Publishing(s)'
    BY <1>1, <1>3 DEF Publishing
<1>5. OneRegistrar' /\ AtWork'
    BY <1>3, <1>4 DEF OneRegistrar, AtWork
<1>6. Filled' /\ Counted'
  <2>1. Entered' = Entered \union {reg[r][1]}
    BY <1>1, <1>2, <1>4 DEF Entered
  <2>2. host_count' = Cardinality(Entered \union {reg[r][1]})
    BY <1>1, TableRoom DEF IInv, HostInv
  <2>3. host_count' > 0 /\ listed'
    BY <1>2, HostAssumption DEF IInv, TypeOK
  <2> QED BY <2>1, <2>2, <2>3 DEF Filled, Counted
<1>7. Entries' /\ Emptied'
    BY DEF IInv, HostInv, Entries, Emptied
<1>8. Owned'
    BY <1>1, <1>2, <1>3 DEF IInv, HostInv, Owned
<1> QED BY <1>5, <1>6, <1>7, <1>8 DEF HostInv, Ended

\* A removed host keeps its entry and loses everything else.
LEMMA RemoveKept ==
    ASSUME IInv, NEW i \in Numbers, RemoveHost(i), ~gone, ~gone'
    PROVE  HostInv'
<1> DEFINE o == Lookup(i)
<1> USE DEF RemoveHost, tableVars, regVars
<1>1. /\ o = host_list[i] /\ o \in Objects /\ o \notin freed
      /\ \A r \in Registrars : ~Publishing(r)
    BY DEF IInv, TypeOK, Lookup, Live, ListLockFree, Publishing
<1>2. o \notin orphans /\ \A r \in Registrars : reg[r] # o
  <2>1. o[1] = i /\ o \notin orphans /\ o # NoHost
    BY <1>1, HostAssumption DEF IInv, HostInv, Entries
  <2>2. \A r \in Registrars : reg[r] = o => host_list[o[1]] = NoHost
    BY <1>1, <2>1 DEF IInv, HostInv, AtWork
  <2> QED BY <1>1, <2>1, <2>2
<1>3. have' = [p \in Objects |-> IF p = o THEN {} ELSE have[p]]
    BY <1>1, Mapped
<1>4. AtWork' /\ OneRegistrar'
  <2>1. \A r \in Registrars : reg[r] \in Objects \union {NoHost}
    BY DEF IInv, TypeOK
  <2>2. \A r \in Registrars : rpc[r] # "idle" => have'[reg[r]] = have[reg[r]]
    BY <1>2, <1>3, <2>1 DEF IInv, HostInv, AtWork
  <2> QED BY <1>1, <1>2, <2>2 DEF IInv, HostInv, AtWork, OneRegistrar, Publishing
<1>5. Filled' /\ Counted'
    BY FilledFrame DEF IInv, HostInv, Counted, Publishing
<1>6. Entries'
    BY <1>1, <1>3 DEF IInv, HostInv, Entries, TypeOK
<1>7. Owned' /\ Emptied'
    BY <1>1, <1>2, <1>3 DEF IInv, HostInv, Owned, Emptied, TypeOK
<1> QED BY <1>4, <1>5, <1>6, <1>7 DEF HostInv, Ended

\* The unloading reaches the entries below the count: a host it leaves is above a
\* hole.
LEMMA RemoveAllKept ==
    ASSUME IInv, ~gone, RemoveAll, OnePerNumber
    PROVE  HostInv'
<1> USE DEF RemoveAll, regVars
<1>1. \A r \in Registrars : rpc[r] = "idle" /\ reg[r] = NoHost /\ ~Publishing(r)
    BY DEF RegLockFree, IInv, HostInv, AtWork, Publishing
<1>2. \A r \in Registrars : ~Publishing(r)'
    BY <1>1 DEF Publishing
<1>3. OneRegistrar' /\ AtWork'
    BY <1>1, <1>2 DEF OneRegistrar, AtWork
<1>4. Filled' /\ Entries' /\ Counted'
  <2>1. Entered' = {}
    BY DEF Entered
  <2> QED BY <2>1, FS_EmptySet DEF Filled, Entries, Counted
<1>5. Ended'
    BY DEF Ended, RegLockFree, OnePerNumber
<1>6. Owned'
  <2> SUFFICES ASSUME NEW o \in Objects, have'[o] # {}
               PROVE  /\ have'[o] = Parts
                      /\ o \in orphans \/ (gone' /\ \E i \in holes' : i < o[1])
    BY DEF Owned
  <2>1. have'[o] = have[o] /\ o \notin AtExit
    OBVIOUS
  <2>2. ~ gone /\ have[o] = Parts /\ (o \in orphans \/ host_list[o[1]] = o)
    BY <1>1, <2>1, HostAssumption DEF IInv, HostInv, Owned
  <2>3. ASSUME host_list[o[1]] = o PROVE \E i \in holes' : i < o[1]
    <3>1. o[1] \in Numbers /\ o # NoHost
      BY NumberOf, HostAssumption
    <3>2. ~ (o[1] < host_count)
      BY <2>1, <2>3, <3>1 DEF AtExit
    <3>3. \E i \in Numbers : Hole(i) /\ i < o[1]
      BY <1>1, <2>3, <3>1, <3>2, BeyondIsAboveHole DEF IInv, HostInv
    <3> QED BY <3>3
  <2> QED BY <2>1, <2>2, <2>3
<1>7. Emptied'
  <2>1. \A o \in AtExit : o \notin orphans
    BY DEF AtExit, IInv, HostInv, Entries
  <2>2. orphans \subseteq Objects /\ freed \subseteq Objects
    BY DEF IInv, TypeOK
  <2> QED BY <2>1, <2>2 DEF IInv, HostInv, Emptied
<1> QED BY <1>3, <1>4, <1>5, <1>6, <1>7 DEF HostInv

\* Every host is at work, in the table or an orphan, and these exclude each other
\* for hosts of one number.
LEMMA OneOfEach == IInv => OnePerNumber
<1> SUFFICES ASSUME IInv, ~ gone,
                    NEW o \in Objects \ orphans, NEW p \in Objects \ orphans,
                    o[1] = p[1], "midlayer" \in have[o], "midlayer" \in have[p]
             PROVE  o = p
    BY DEF OnePerNumber, IInv, HostInv, Ended
<1>1. /\ (\E r \in Registrars : reg[r] = o) \/ host_list[o[1]] = o
      /\ (\E r \in Registrars : reg[r] = p) \/ host_list[p[1]] = p
    BY DEF IInv, HostInv, Owned
<1>2. ASSUME NEW r \in Registrars, NEW a \in Objects, NEW b \in Objects, reg[r] = a,
             a[1] = b[1], host_list[b[1]] = b
      PROVE  a = b
    BY <1>2, HostAssumption DEF IInv, HostInv, AtWork
<1>3. ASSUME NEW r \in Registrars, NEW s \in Registrars, reg[r] = o, reg[s] = p
      PROVE  o = p
    BY <1>3, HostAssumption DEF IInv, HostInv, AtWork, OneRegistrar
<1> QED BY <1>1, <1>2, <1>3

LEMMA HostsKept == IInv /\ [Next]_vars => HostInv'
<1> SUFFICES ASSUME IInv, [Next]_vars PROVE HostInv'
    OBVIOUS
<1>0. HostInv
    BY DEF IInv
<1>1. ASSUME NEW r \in Registrars, Register(r), ~gone, UNCHANGED <<gone, wild, holes>>
      PROVE  HostInv'
    BY <1>1, BeginKept, StepKept, FailKept, FirstKept, EntryKept, SilbingKept,
       CountKept DEF Register
<1>2. ASSUME NEW i \in Numbers, RemoveHost(i), ~gone, UNCHANGED <<gone, wild, holes>>
      PROVE  HostInv'
    BY <1>2, RemoveKept
<1>3. ASSUME NEW i \in Numbers, AddDisk(i), UNCHANGED <<gone, wild, holes>>
      PROVE  HostInv'
    BY <1>0, <1>3, HostFrame DEF AddDisk
<1>4. ASSUME NEW q \in Queuers, Queue(q), UNCHANGED <<gone, wild, holes>>
      PROVE  HostInv'
    BY <1>0, <1>4, HostFrame DEF Queue, QueueSingle, QueueReadWrite, QueueOther,
       Index, Pick, Send
<1>5. ASSUME NameVolume \/ WriteShift, UNCHANGED <<gone, wild, holes>> PROVE HostInv'
    BY <1>0, <1>5, HostFrame DEF NameVolume, WriteShift
<1>6. ASSUME NEW n \in IoPerHost, WriteIoPerHost(n) \/ SetParameter(n),
             UNCHANGED <<gone, wild, holes>>
      PROVE  HostInv'
    BY <1>0, <1>6, HostFrame DEF WriteIoPerHost, SetParameter
<1>7. CASE RemoveAll /\ ~gone
    BY <1>7, RemoveAllKept, OneOfEach
<1>8. CASE UseFreed
    BY <1>0, <1>8, HostFrame DEF UseFreed
<1>9. CASE UNCHANGED vars
    BY <1>0, <1>9, HostFrame DEF vars
<1> QED BY <1>1, <1>2, <1>3, <1>4, <1>5, <1>6, <1>7, <1>8, <1>9
        DEF Next, Running

-----------------------------------------------------------------------------
(***************************************************************************)
(* Dispatch.                                                               *)
(***************************************************************************)

\* The count never falls while commands are dealt.
LEMMA DispatchFrame ==
    ASSUME IInv, UNCHANGED <<qpc, index>>, host_count' \in Nat,
           host_count <= host_count', disk' # NoHost /\ ~gone' => listed'
    PROVE  Dispatch'
<1>1. host_count \in Nat /\ \A q \in Queuers : index[q] \in Nat
    BY DEF IInv, TypeOK, Numbers
<1> QED BY <1>1 DEF IInv, Dispatch

LEMMA DispatchKept == IInv /\ [Next]_vars => Dispatch'
<1> SUFFICES ASSUME IInv, [Next]_vars PROVE Dispatch'
    OBVIOUS
<1>0. host_count \in Nat /\ (disk # NoHost /\ ~gone => listed)
    BY DEF IInv, TypeOK, Dispatch
<1>1. ASSUME NEW r \in Registrars, Register(r), ~gone PROVE Dispatch'
  <2>1. UNCHANGED <<disk, qpc, index>>
    BY <1>1 DEF Register, RegBegin, RegStep, RegFail, PublishFirst,
       PublishEntry, PublishSilbing, PublishCount, diskVars, queueVars
  <2>2. listed => listed'
    BY <1>1 DEF Register, RegBegin, RegStep, RegFail, PublishFirst,
       PublishEntry, PublishSilbing, PublishCount, tableVars
  <2>3. host_count' \in Nat /\ host_count <= host_count'
    <3>1. ~listed => host_count = 0
      BY DEF IInv, HostInv, Counted
    <3> QED BY <1>0, <1>1, <3>1 DEF Register, RegBegin, RegStep, RegFail,
            PublishFirst, PublishEntry, PublishSilbing, PublishCount, tableVars
  <2> QED BY <1>0, <1>1, <2>1, <2>2, <2>3, DispatchFrame
<1>2. ASSUME NEW i \in Numbers, RemoveHost(i), ~gone PROVE Dispatch'
    BY <1>0, <1>2, DispatchFrame DEF RemoveHost, tableVars, queueVars
<1>3. ASSUME NEW i \in Numbers, AddDisk(i), ~gone PROVE Dispatch'
    BY <1>0, <1>3, DispatchFrame DEF AddDisk, Live, Lookup, tableVars, queueVars
<1>4. ASSUME NEW q \in Queuers, Queue(q), ~gone PROVE Dispatch'
  <2> USE DEF tableVars, diskVars
  <2>1. Dispatch /\ TypeOK
    BY DEF IInv
  <2>2. disk # NoHost => host_count > 0
    BY <1>4 DEF IInv, HostInv, Counted, Dispatch
  <2>3. NoHost \notin silbing
    BY HostAssumption DEF IInv, TypeOK
  <2>4. CASE QueueSingle(q) \/ Send(q)
    BY <1>4, <2>1, <2>4 DEF QueueSingle, Send, QueueGoto, Dispatch, TypeOK
  <2>5. CASE QueueReadWrite(q)
    BY <1>4, <2>1, <2>2, <2>3, <2>5 DEF QueueReadWrite, QueueGoto, Dispatch, TypeOK
  <2>6. CASE QueueOther(q)
    BY <1>4, <2>1, <2>2, <2>3, <2>6 DEF QueueOther, QueueGoto, Dispatch, TypeOK
  <2>7. CASE Index(q)
    <3>1. HostIndex(mine[q]) < host_count
      BY <1>4, <2>1, <2>7, IndexBelowCount DEF Index, Dispatch, TypeOK
    <3> QED BY <1>4, <2>1, <2>7, <3>1 DEF Index, QueueGoto, Dispatch, TypeOK
  <2>8. CASE Pick(q)
    BY <1>4, <2>1, <2>8 DEF Pick, QueueGoto, Dispatch, TypeOK
  <2> QED BY <1>4, <2>4, <2>5, <2>6, <2>7, <2>8 DEF Queue
<1>5. ASSUME NameVolume \/ WriteShift, ~gone PROVE Dispatch'
    BY <1>0, <1>5, DispatchFrame DEF NameVolume, WriteShift, tableVars, diskVars,
       queueVars
<1>6. ASSUME NEW n \in IoPerHost, WriteIoPerHost(n) \/ SetParameter(n), ~gone
      PROVE  Dispatch'
    BY <1>0, <1>6, DispatchFrame DEF WriteIoPerHost, SetParameter, tableVars,
       diskVars, queueVars
<1>7. CASE RemoveAll
    BY <1>7 DEF RemoveAll, Dispatch, queueVars
<1>8. CASE UseFreed
    BY <1>0, <1>8, DispatchFrame DEF UseFreed, tableVars, diskVars, queueVars
<1>9. CASE UNCHANGED vars
    BY <1>0, <1>9, DispatchFrame DEF vars, tableVars, diskVars, queueVars
<1> QED BY <1>1, <1>2, <1>3, <1>4, <1>5, <1>6, <1>7, <1>8, <1>9
        DEF Next, Running

-----------------------------------------------------------------------------
(***************************************************************************)
(* The theorems.                                                           *)
(***************************************************************************)

LEMMA Invariance == Spec => []IInv
<1>1. IInv /\ [Next]_vars => IInv'
    BY TypesKept, HostsKept, DispatchKept DEF IInv
<1> QED BY Initial, <1>1, PTL DEF Spec

\* The variables keep their types; the count of hosts never passes the room of the
\* table, in whatever order the numbers are registered.
THEOREM HostsTyped == Spec => []TypeOK
<1>1. IInv => TypeOK
    BY DEF IInv
<1> QED BY Invariance, <1>1, PTL

\* ctrl_host_reg_lock, held over look-up, registration and publication, keeps the
\* midlayer from ever having two hosts for one number.
THEOREM OneHostPerNumber == Spec => []OnePerNumber
BY Invariance, OneOfEach, PTL

\* Whatever step of a registration fails, and whoever looks a host up meanwhile:
\* a host is complete or gone, and a host that is left when the module is unloaded
\* is an orphan or above a number that was not registered.
THEOREM NoHalfHosts == Spec => []WholeOrNothing
<1>1. IInv => WholeOrNothing
  <2> SUFFICES ASSUME IInv, NEW o \in Objects
               PROVE  /\ o \notin {reg[r] : r \in Registrars} => have[o] \in {{}, Parts}
                      /\ (\E i \in Numbers : host_list[i] = o) /\ Live(o)
                            => have[o] = Parts
                      /\ gone /\ o \notin orphans /\ have[o] # {}
                            => \E i \in holes : i < o[1]
    BY DEF WholeOrNothing
  <2>1. o \notin {reg[r] : r \in Registrars} => have[o] \in {{}, Parts}
    BY DEF IInv, HostInv, Owned
  <2>2. (\E i \in Numbers : host_list[i] = o) /\ Live(o) => have[o] = Parts
    BY DEF IInv, HostInv, Entries, Live
  <2>3. gone /\ o \notin orphans /\ have[o] # {} => \E i \in holes : i < o[1]
    <3> SUFFICES ASSUME gone, o \notin orphans, have[o] # {}
                 PROVE  \E i \in holes : i < o[1]
      OBVIOUS
    <3>1. /\ \A r \in Registrars : reg[r] = NoHost
          /\ \A i \in Numbers : host_list[i] = NoHost
      BY DEF IInv, HostInv, Ended, Counted, RegLockFree, AtWork
    <3> QED BY <3>1, NumberOf, HostAssumption DEF IInv, HostInv, Owned
  <2> QED BY <2>1, <2>2, <2>3
<1> QED BY Invariance, <1>1, PTL

\* queuecommand, which takes no lock, picks an empty entry only if it is a hole of
\* the table, in whatever order the numbers are registered meanwhile: the entry is
\* written before the count, which is never more than the entries.
THEOREM NeverEmptySlot == Spec => []NoEmptySlot
<1>1. IInv => NoEmptySlot
  <2> SUFFICES ASSUME IInv, NEW q \in Queuers, qpc[q] = "pick",
                      host_list[index[q]] = NoHost
               PROVE  Hole(index[q])
    BY DEF NoEmptySlot
  <2>1. index[q] \in Numbers /\ index[q] < host_count
    BY DEF IInv, TypeOK, Dispatch
  <2> QED BY <2>1, EmptyIsHole DEF IInv, HostInv
<1> QED BY Invariance, <1>1, PTL

-----------------------------------------------------------------------------
(***************************************************************************)
(* The shares of the hosts.  The counter walks over the hosts, Batch numbers *)
(* each, round after round.  What the commands since the last change of the *)
(* table have brought a host is a whole number of rounds, more by what the  *)
(* present round has dealt it and less by what the first round had dealt    *)
(* before.                                                                 *)
(***************************************************************************)

\* Commands counted to host i that have not been noted in hits yet.
Dealt(i) == {q \in Queuers \ stale : qpc[q] = "index" /\ HostIndex(mine[q]) = i}

\* The place of a number in its batch.
Place(n) == (n % SnMod) % Batch

\* What a round has dealt to host i when it is at the number o of host p.
InRound(i, p, o) == IF i < p THEN Batch ELSE IF i = p THEN o + 1 ELSE 0

Rounds(a, p, o) == \A i \in Numbers : i < host_count =>
    hits[i] + Cardinality(Dealt(i))
        = a + InRound(i, HostIndex(sn), Place(sn)) - InRound(i, p, o)

Shares ==
    /\ IsFiniteSet({q \in Queuers : qpc[q] = "index"})
    /\ \A q \in stale : qpc[q] = "index"
    /\ host_count > 0 /\ Seamless =>
          \E a \in Int, p \in Nat : \E o \in 0 .. Batch - 1 : Rounds(a, p, o)

LEMMA Division ==
    ASSUME NEW k \in Nat, NEW h \in Nat \ {0}
    PROVE  /\ k = h * (k \div h) + (k % h)
           /\ k % h \in 0 .. h - 1 /\ k \div h \in Nat
OBVIOUS

LEMMA DivisionUnique ==
    ASSUME NEW h \in Nat \ {0}, NEW q \in Int, NEW p \in Int,
           NEW r \in 0 .. h - 1, NEW s \in 0 .. h - 1, h * q + r = h * p + s
    PROVE  r = s /\ q = p
<1>1. h * (q - p) = s - r
    OBVIOUS
<1>2. CASE q - p >= 1
  <2>1. h * (q - p) >= h
    BY <1>2
  <2> QED BY <1>1, <2>1
<1>3. CASE q - p <= -1
  <2>1. h * (q - p) <= -h
    BY <1>3
  <2> QED BY <1>1, <2>1
<1> QED BY <1>1, <1>2, <1>3

\* The next number has the next remainder, and zero follows the last.
LEMMA NextMod ==
    ASSUME NEW k \in Nat, NEW h \in Nat \ {0}
    PROVE  (k + 1) % h = IF (k % h) + 1 < h THEN (k % h) + 1 ELSE 0
<1>0. PICK n \in Nat : n = k + 1
    OBVIOUS
<1>1. PICK q \in Nat, r \in 0 .. h - 1 : k = h * q + r /\ r = k % h
    BY Division
<1>2. PICK u \in Nat, v \in 0 .. h - 1 : n = h * u + v /\ v = n % h
    BY Division
<1>3. CASE r + 1 < h
  <2>1. h * q + (r + 1) = h * u + v /\ r + 1 \in 0 .. h - 1
    BY <1>0, <1>1, <1>2, <1>3
  <2>2. r + 1 = v
    BY <2>1, DivisionUnique
  <2> QED BY <1>0, <1>1, <1>2, <1>3, <2>2
<1>4. CASE ~ (r + 1 < h)
  <2>1. h * (q + 1) + 0 = h * u + v
    <3>1. r + 1 = h
      BY <1>1, <1>4
    <3>2. h * (q + 1) = h * q + h
      BY <1>1
    <3> QED BY <1>0, <1>1, <1>2, <3>1, <3>2
  <2>2. v = 0
    BY <2>1, DivisionUnique
  <2> QED BY <1>0, <1>1, <1>2, <1>4, <2>2
<1> QED BY <1>3, <1>4

\* The same within a batch and over the batches.
LEMMA NextBatch ==
    ASSUME NEW m \in Nat, NEW b \in {1, 2, 4}, NEW h \in Nat \ {0}
    PROVE  /\ (m \div b) % h \in 0 .. h - 1 /\ m % b \in 0 .. b - 1
           /\ (m % b) + 1 < b => /\ ((m + 1) \div b) % h = (m \div b) % h
                                 /\ (m + 1) % b = (m % b) + 1
           /\ ~ ((m % b) + 1 < b) =>
                 /\ ((m + 1) \div b) % h = IF ((m \div b) % h) + 1 < h
                                          THEN ((m \div b) % h) + 1 ELSE 0
                 /\ (m + 1) % b = 0 /\ m % b = b - 1
<1>1. PICK k \in Nat : k = m \div b
    OBVIOUS
<1>2. /\ (m % b) + 1 < b => (m + 1) \div b = k /\ (m + 1) % b = (m % b) + 1
      /\ ~ ((m % b) + 1 < b) => /\ (m + 1) \div b = k + 1 /\ (m + 1) % b = 0
                                /\ m % b = b - 1
      /\ m % b \in 0 .. b - 1
  <2>1. CASE b = 1
    BY <1>1, <2>1
  <2>2. CASE b = 2
    BY <1>1, <2>2
  <2>3. CASE b = 4
    BY <1>1, <2>3
  <2> QED BY <2>1, <2>2, <2>3
<1>3. (k + 1) % h = IF (k % h) + 1 < h THEN (k % h) + 1 ELSE 0
    BY NextMod
<1>4. k % h \in 0 .. h - 1
    BY Division
<1> QED BY <1>1, <1>2, <1>3, <1>4

\* If a batch for each host divides the range, its last number ends a round.
LEMMA LastOfRange ==
    ASSUME NEW s \in Nat \ {0}, NEW b \in {1, 2, 4}, NEW h \in Nat \ {0},
           s % (h * b) = 0, NEW m \in Nat, m + 1 = s
    PROVE  (m \div b) % h = h - 1 /\ m % b = b - 1
<1>1. PICK g \in Nat \ {0} : g = h * b
    OBVIOUS
<1>2. PICK k \in Nat : s = g * k
    BY <1>1, Division
<1>3. k >= 1
    BY <1>1, <1>2
<1>4. PICK w \in Nat : w = h * k
    BY <1>3
<1>5. s = b * w
    BY <1>1, <1>2, <1>4
<1>6. m \div b = w - 1 /\ m % b = b - 1
  <2>1. CASE b = 1
    BY <1>5, <2>1
  <2>2. CASE b = 2
    BY <1>5, <2>2
  <2>3. CASE b = 4
    BY <1>5, <2>3
  <2> QED BY <2>1, <2>2, <2>3
<1>7. PICK u \in Nat : u = w - 1
    BY <1>5
<1>8. PICK q \in Nat, r \in 0 .. h - 1 : u = h * q + r /\ r = u % h
    BY Division, ZenonT(40)
<1>9. PICK p \in Int, t \in 0 .. h - 1 : p = k - 1 /\ t = h - 1
    BY <1>3
<1>10. h * q + r = h * p + t
  <2>1. h * (p + 1) = h * p + h
    BY <1>9
  <2> QED BY <1>4, <1>7, <1>8, <1>9, <2>1
<1>11. r = t
    BY <1>8, <1>9, <1>10, DivisionUnique
<1> QED BY <1>6, <1>7, <1>8, <1>9, <1>11

\* How the choice of queuecommand moves with the counter: batch by batch, host
\* by host, and over the wrap of the counter if the hosts divide its range.
LEMMA NextIndex ==
    ASSUME TypeOK, host_count > 0, NEW n \in Nat,
           n + 1 < SnMod \/ SnMod % (host_count * Batch) = 0
    PROVE  /\ HostIndex(n) \in 0 .. host_count - 1 /\ Place(n) \in 0 .. Batch - 1
           /\ Place(n) + 1 < Batch =>
                 /\ HostIndex(n + 1) = HostIndex(n)
                 /\ Place(n + 1) = Place(n) + 1
           /\ ~ (Place(n) + 1 < Batch) =>
                 /\ HostIndex(n + 1) = IF HostIndex(n) + 1 < host_count
                                       THEN HostIndex(n) + 1 ELSE 0
                 /\ Place(n + 1) = 0 /\ Place(n) = Batch - 1
<1>1. PICK b \in {1, 2, 4} : b = Batch
    BY DEF TypeOK, Batch
<1>2. PICK h \in Nat \ {0} : h = host_count
    BY HostAssumption DEF TypeOK
<1>3. PICK m \in Nat : m = n % SnMod /\ m < SnMod
    BY BoundAssumption, Division
<1>4. (n + 1) % SnMod = IF m + 1 < SnMod THEN m + 1 ELSE 0
    BY <1>3, BoundAssumption, NextMod
<1>5. HostIndex(n) = (m \div b) % h /\ Place(n) = m % b
    BY <1>1, <1>2, <1>3 DEF HostIndex, Place
<1>6. /\ HostIndex(n + 1) = (((n + 1) % SnMod) \div b) % h
      /\ Place(n + 1) = ((n + 1) % SnMod) % b
    BY <1>1, <1>2 DEF HostIndex, Place
<1>7. CASE m + 1 < SnMod
  <2>1. HostIndex(n + 1) = ((m + 1) \div b) % h /\ Place(n + 1) = (m + 1) % b
    BY <1>4, <1>6, <1>7
  <2>2. PICK x, y, u, v : /\ x = (m \div b) % h /\ y = m % b
                          /\ u = ((m + 1) \div b) % h /\ v = (m + 1) % b
    OBVIOUS
  <2>3. /\ x \in 0 .. h - 1 /\ y \in 0 .. b - 1
        /\ y + 1 < b => u = x /\ v = y + 1
        /\ ~ (y + 1 < b) => /\ u = IF x + 1 < h THEN x + 1 ELSE 0
                            /\ v = 0 /\ y = b - 1
    BY <2>2, NextBatch, ZenonT(40)
  <2>4. HostIndex(n) = x /\ Place(n) = y /\ HostIndex(n + 1) = u /\ Place(n + 1) = v
    BY <1>5, <2>1, <2>2
  <2> QED BY <1>1, <1>2, <2>3, <2>4
<1>8. CASE ~ (m + 1 < SnMod)
  <2>1. m + 1 = SnMod /\ ~ (n + 1 < SnMod)
    BY <1>3, <1>8, BoundAssumption
  <2>2. SnMod % (h * b) = 0 /\ SnMod \in Nat \ {0}
    BY <1>1, <1>2, <2>1, BoundAssumption
  <2>3. (m \div b) % h = h - 1 /\ m % b = b - 1
    BY <2>1, <2>2, LastOfRange, ZenonT(40)
  <2>4. HostIndex(n) = h - 1 /\ Place(n) = b - 1
    BY <1>5, <2>3
  <2>5. (n + 1) % SnMod = 0
    BY <1>4, <1>8
  <2>6. 0 \div b = 0 /\ 0 % b = 0
    OBVIOUS
  <2>7. 0 % h = 0
    <3>1. PICK q \in Nat, r \in 0 .. h - 1 : 0 = h * q + r /\ r = 0 % h
      BY Division
    <3>2. h * q >= 0
      OBVIOUS
    <3> QED BY <3>1, <3>2
  <2>8. HostIndex(n + 1) = 0 /\ Place(n + 1) = 0
    BY <1>6, <2>5, <2>6, <2>7
  <2> QED BY <1>1, <1>2, <2>4, <2>8
<1> QED BY <1>7, <1>8

LEMMA SharesInit == Init => Shares
<1> SUFFICES ASSUME Init PROVE Shares
    OBVIOUS
<1>1. {q \in Queuers : qpc[q] = "index"} = {}
    BY DEF Init
<1>2. stale = {} /\ host_count = 0
    BY DEF Init
<1> QED BY <1>1, <1>2, FS_EmptySet DEF Shares

\* Nothing the shares depend on changes.
LEMMA SharesFrame ==
    ASSUME Shares, UNCHANGED <<hits, stale, qpc, mine, sn, host_count,
                               io_per_host_shift>>
    PROVE  Shares'
<1>1. \A i : Dealt(i)' = Dealt(i)
    BY DEF Dealt, HostIndex, Batch
<1>2. \A i, p, o : InRound(i, p, o)' = InRound(i, p, o)
    BY DEF InRound, Batch
<1>3. /\ HostIndex(sn)' = HostIndex(sn) /\ Batch' = Batch
      /\ Place(sn)' = Place(sn) /\ Seamless' = Seamless
    BY DEF HostIndex, Batch, Place, Seamless
<1>4. \A a, p, o : Rounds(a, p, o) => Rounds(a, p, o)'
    BY <1>1, <1>2, <1>3 DEF Rounds
<1> QED BY <1>3, <1>4 DEF Shares

\* The shares start anew: the commands on their way are not counted.
LEMMA SharesAnew ==
    ASSUME Shares, TypeOK', Reshare, UNCHANGED qpc
    PROVE  Shares'
<1>1. \A i : Dealt(i)' = {}
    BY DEF Reshare, Dealt
<1>2. \A i \in Numbers : hits'[i] = 0
    BY DEF Reshare
<1>3. ASSUME host_count' > 0
      PROVE  \E a \in Int, p \in Nat : \E o \in 0 .. Batch' - 1 : Rounds(a, p, o)'
  <2>1. HostIndex(sn)' \in Nat /\ Place(sn)' \in 0 .. Batch' - 1
    <3>1. PICK n \in Nat, b \in {1, 2, 4}, h \in Nat \ {0} :
              n = sn' /\ b = Batch' /\ h = host_count'
      BY <1>3, HostAssumption DEF TypeOK, Batch
    <3>2. PICK m \in Nat : m = n % SnMod
      BY BoundAssumption, Division
    <3>3. (m \div b) % h \in 0 .. h - 1 /\ m % b \in 0 .. b - 1
      BY NextBatch
    <3> QED BY <3>1, <3>2, <3>3 DEF HostIndex, Place
  <2>2. PICK p, o : p = HostIndex(sn)' /\ o = Place(sn)'
    OBVIOUS
  <2>3. \A i \in Numbers : InRound(i, p, o)' \in Int
    BY <2>1, <2>2 DEF InRound, Numbers, TypeOK, Batch
  <2>4. Rounds(0, p, o)'
    <3> SUFFICES ASSUME NEW i \in Numbers, i < host_count'
                 PROVE  hits'[i] + Cardinality(Dealt(i)')
                          = 0 + InRound(i, HostIndex(sn), Place(sn))' - InRound(i, p, o)'
      BY DEF Rounds
    <3>1. hits'[i] + Cardinality(Dealt(i)') = 0
      BY <1>1, <1>2, FS_EmptySet
    <3>2. InRound(i, HostIndex(sn), Place(sn))' = InRound(i, p, o)'
      BY <2>2
    <3> QED BY <2>3, <3>1, <3>2
  <2> QED BY <2>1, <2>2, <2>4
<1> QED BY <1>3 DEF Reshare, Shares

\* The sum of what a host was dealt and what is on its way to it is kept.
LEMMA SharesKept ==
    ASSUME Shares, TypeOK, UNCHANGED <<sn, host_count, io_per_host_shift>>,
           IsFiniteSet({q \in Queuers : qpc[q] = "index"})',
           (\A q \in stale : qpc[q] = "index")',
           host_count > 0 => \A i \in Numbers :
              hits'[i] + Cardinality(Dealt(i)') = hits[i] + Cardinality(Dealt(i))
    PROVE  Shares'
<1>1. \A i, p, o : InRound(i, p, o)' = InRound(i, p, o)
    BY DEF InRound, Batch
<1>2. /\ HostIndex(sn)' = HostIndex(sn) /\ Batch' = Batch
      /\ Place(sn)' = Place(sn) /\ Seamless' = Seamless
    BY DEF HostIndex, Batch, Place, Seamless
<1>3. host_count > 0 => \A a, p, o : Rounds(a, p, o) => Rounds(a, p, o)'
    BY <1>1, <1>2 DEF Rounds
<1> QED BY <1>2, <1>3 DEF Shares

\* A command is noted on the host it goes to.
LEMMA SharesOfIndex ==
    ASSUME Shares, IInv, NEW q \in Queuers, Index(q)
    PROVE  Shares'
<1>1. TypeOK /\ host_count > 0 /\ qpc[q] = "index"
    BY DEF IInv, Dispatch, Index
<1>2. PICK k : k = HostIndex(mine[q])
    OBVIOUS
<1>3. k \in Numbers
    BY <1>1, <1>2, IndexBelowCount DEF TypeOK
<1>4. /\ qpc' = [qpc EXCEPT ![q] = "pick"] /\ mine' = [mine EXCEPT ![q] = 0]
      /\ hits' = IF q \in stale THEN hits ELSE [hits EXCEPT ![k] = @ + 1]
      /\ stale' = stale \ {q}
      /\ UNCHANGED <<sn, host_count, io_per_host_shift>>
    BY <1>2 DEF Index, QueueGoto, tableVars, paramVars, diskVars
<1>5. /\ qpc'[q] = "pick"
      /\ \A x \in Queuers : x # q => qpc'[x] = qpc[x] /\ mine'[x] = mine[x]
    BY <1>1, <1>4 DEF TypeOK
<1>6. \A n : HostIndex(n)' = HostIndex(n)
    BY <1>4 DEF HostIndex, Batch
<1>7. IsFiniteSet({x \in Queuers : qpc[x] = "index"})'
  <2>1. {x \in Queuers : qpc[x] = "index"}' = {x \in Queuers : qpc[x] = "index"} \ {q}
    BY <1>5
  <2> QED BY <2>1, FS_RemoveElement DEF Shares
<1>8. (\A x \in stale : qpc[x] = "index")'
    BY <1>4, <1>5, <1>1 DEF Shares, TypeOK
<1>9. ASSUME NEW i \in Numbers
      PROVE  hits'[i] + Cardinality(Dealt(i)') = hits[i] + Cardinality(Dealt(i))
  <2>1. CASE q \in stale \/ i # k
    <3>1. Dealt(i)' = Dealt(i)
      BY <1>2, <1>4, <1>5, <1>6, <2>1 DEF Dealt
    <3>2. hits'[i] = hits[i]
      BY <1>1, <1>3, <1>4, <2>1 DEF TypeOK
    <3> QED BY <3>1, <3>2
  <2>2. CASE q \notin stale /\ i = k
    <3>1. Dealt(i)' = Dealt(i) \ {q} /\ q \in Dealt(i)
      BY <1>1, <1>2, <1>4, <1>5, <1>6, <2>2 DEF Dealt
    <3>2. hits'[i] = hits[i] + 1 /\ hits[i] \in Nat
      BY <1>1, <1>3, <1>4, <2>2 DEF TypeOK
    <3>3. IsFiniteSet(Dealt(i))
      <4>1. Dealt(i) \subseteq {x \in Queuers : qpc[x] = "index"}
        BY DEF Dealt
      <4> QED BY <4>1, FS_Subset DEF Shares
    <3>4. Cardinality(Dealt(i)') = Cardinality(Dealt(i)) - 1 /\ Cardinality(Dealt(i)) \in Nat
      BY <3>1, <3>3, FS_RemoveElement, FS_CardinalityType
    <3> QED BY <3>2, <3>4
  <2> QED BY <2>1, <2>2
<1> QED BY <1>1, <1>4, <1>7, <1>8, <1>9, SharesKept

\* A command takes the next number: the host it goes to is the next of the round.
LEMMA SharesOfCount ==
    ASSUME Shares, IInv, ~gone, NEW q \in Queuers, QueueReadWrite(q)
    PROVE  Shares'
<1>1. /\ TypeOK /\ sn \in Nat /\ sn + 1 \in Nat
    BY DEF IInv, TypeOK, QueueReadWrite
<1>2. host_count > 0
  <2>1. disk # NoHost
    BY HostAssumption DEF IInv, TypeOK, QueueReadWrite
  <2> QED BY <2>1, HostAssumption DEF IInv, HostInv, Counted, Dispatch
<1>3. /\ qpc[q] = "idle" /\ qpc' = [qpc EXCEPT ![q] = "index"]
      /\ mine' = [mine EXCEPT ![q] = sn + 1] /\ sn' = sn + 1
      /\ UNCHANGED <<hits, stale, host_count, io_per_host_shift>>
    BY DEF QueueReadWrite, QueueGoto, tableVars, paramVars, shareVars
<1>4. /\ qpc'[q] = "index" /\ mine'[q] = sn + 1
      /\ \A x \in Queuers : x # q => qpc'[x] = qpc[x] /\ mine'[x] = mine[x]
    BY <1>1, <1>3 DEF TypeOK
<1>5. \A n : HostIndex(n)' = HostIndex(n)
    BY <1>3 DEF HostIndex, Batch
<1>6. IsFiniteSet({x \in Queuers : qpc[x] = "index"})'
  <2>1. {x \in Queuers : qpc[x] = "index"}'
          = {x \in Queuers : qpc[x] = "index"} \union {q}
    BY <1>4
  <2> QED BY <2>1, FS_AddElement DEF Shares
<1>7. q \notin stale /\ (\A x \in stale : qpc[x] = "index")'
    BY <1>3, <1>4 DEF Shares, IInv, TypeOK
<1> SUFFICES ASSUME Seamless' PROVE Shares'
    BY <1>6, <1>7 DEF Shares
<1>0. Seamless /\ (sn + 1 < SnMod \/ SnMod % (host_count * Batch) = 0)
  <2>1. /\ Seamless' <=> sn + 1 < SnMod \/ SnMod % (host_count * Batch) = 0
        /\ Seamless  <=> sn < SnMod \/ SnMod % (host_count * Batch) = 0
    BY <1>3 DEF Seamless, Batch
  <2>2. sn + 1 < SnMod => sn < SnMod
    BY <1>1, BoundAssumption
  <2> QED BY <2>1, <2>2
<1>8. PICK k : k = HostIndex(sn + 1)
    OBVIOUS
<1>9. ASSUME NEW i \in Numbers
      PROVE  hits'[i] + Cardinality(Dealt(i)')
                = hits[i] + Cardinality(Dealt(i)) + IF i = k THEN 1 ELSE 0
  <2>1. IsFiniteSet(Dealt(i)) /\ hits[i] \in Nat /\ hits'[i] = hits[i]
    <3>1. Dealt(i) \subseteq {x \in Queuers : qpc[x] = "index"}
      BY DEF Dealt
    <3> QED BY <1>1, <1>3, <3>1, FS_Subset DEF Shares, TypeOK
  <2>2. Dealt(i)' = IF i = k THEN Dealt(i) \union {q} ELSE Dealt(i)
    BY <1>3, <1>4, <1>5, <1>7, <1>8 DEF Dealt
  <2>3. q \notin Dealt(i)
    BY <1>3 DEF Dealt
  <2>4. /\ Cardinality(Dealt(i)) \in Nat
        /\ Cardinality(Dealt(i) \union {q}) = Cardinality(Dealt(i)) + 1
    BY <2>1, <2>3, FS_AddElement, FS_CardinalityType
  <2> QED BY <2>1, <2>2, <2>4
<1>10. PICK a \in Int, p \in Nat, o \in 0 .. Batch - 1 : Rounds(a, p, o)
    BY <1>0, <1>2 DEF Shares
<1>11. PICK b \in {1, 2, 4} : b = Batch
    BY <1>1 DEF TypeOK, Batch
<1>12. PICK c \in Nat, r \in 0 .. b - 1 : c = HostIndex(sn) /\ r = Place(sn)
                                       /\ c < host_count
  <2>1. HostIndex(sn) \in 0 .. host_count - 1 /\ Place(sn) \in 0 .. b - 1
    BY <1>0, <1>1, <1>2, <1>11, NextIndex
  <2>2. host_count \in Nat
    BY <1>1 DEF TypeOK
  <2> QED BY <2>1, <2>2
<1>13. PICK s \in 0 .. b - 1 : s = Place(sn + 1)
    BY <1>1, <1>11, BoundAssumption DEF Place
<1>14. /\ r + 1 < b => k = c /\ s = r + 1
       /\ ~ (r + 1 < b) => /\ k = IF c + 1 < host_count THEN c + 1 ELSE 0
                           /\ s = 0 /\ r = b - 1
    BY <1>0, <1>1, <1>2, <1>8, <1>11, <1>12, <1>13, NextIndex
<1>15. PICK d \in Int : d = IF r + 1 < b \/ c + 1 < host_count THEN a ELSE a + b
    BY <1>11
<1>16. ASSUME NEW i \in Numbers, i < host_count
       PROVE  d + InRound(i, k, s) = a + InRound(i, c, r) + IF i = k THEN 1 ELSE 0
  <2>1. host_count \in Nat /\ i \in Nat
    BY <1>1 DEF TypeOK, Numbers
  <2>2. CASE r + 1 < b
    BY <1>11, <1>12, <1>14, <1>15, <2>1, <2>2 DEF InRound
  <2>3. CASE ~ (r + 1 < b) /\ c + 1 < host_count
    BY <1>11, <1>12, <1>14, <1>15, <2>1, <2>3 DEF InRound
  <2>4. CASE ~ (r + 1 < b) /\ ~ (c + 1 < host_count)
    BY <1>11, <1>12, <1>14, <1>15, <1>16, <2>1, <2>4 DEF InRound
  <2> QED BY <2>2, <2>3, <2>4
<1>17. ASSUME NEW i \in Numbers, i < host_count
       PROVE  hits'[i] + Cardinality(Dealt(i)')
                 = d + InRound(i, k, s) - InRound(i, p, o)
  <2>1. hits[i] + Cardinality(Dealt(i)) = a + InRound(i, c, r) - InRound(i, p, o)
    BY <1>10, <1>12, <1>17 DEF Rounds
  <2>2. /\ InRound(i, k, s) \in Int /\ InRound(i, c, r) \in Int
        /\ InRound(i, p, o) \in Int
    BY <1>11, <1>12, <1>13, <1>10 DEF InRound
  <2>3. d + InRound(i, k, s) = a + InRound(i, c, r) + IF i = k THEN 1 ELSE 0
    BY <1>16, <1>17
  <2> QED BY <1>9, <2>1, <2>2, <2>3
<1>18. Rounds(d, p, o)'
  <2>1. \A i, x, y : InRound(i, x, y)' = InRound(i, x, y)
    BY <1>3 DEF InRound, Batch
  <2>2. HostIndex(sn)' = k /\ Place(sn)' = s
    BY <1>3, <1>8, <1>13 DEF HostIndex, Place, Batch
  <2> QED BY <1>3, <1>17, <2>1, <2>2 DEF Rounds
<1>19. Batch' = Batch
    BY <1>3 DEF Batch
<1> QED BY <1>6, <1>7, <1>10, <1>18, <1>19 DEF Shares

LEMMA SharesOfQueue ==
    ASSUME Shares, IInv, ~gone, NEW q \in Queuers, Queue(q)
    PROVE  Shares'
<1>1. CASE Index(q)
    BY <1>1, SharesOfIndex
<1>2. CASE QueueReadWrite(q)
    BY <1>2, SharesOfCount
<1>3. CASE QueueSingle(q) \/ QueueOther(q) \/ Pick(q) \/ Send(q)
  <2>1. /\ UNCHANGED <<hits, stale, mine, sn, host_count, io_per_host_shift>>
        /\ qpc[q] # "index"
    BY <1>3 DEF QueueSingle, QueueOther, Pick, Send, tableVars, paramVars, diskVars,
       shareVars
  <2>2. PICK p \in {"idle", "pick", "send"} : qpc' = [qpc EXCEPT ![q] = p]
    BY <1>3 DEF QueueSingle, QueueOther, Pick, Send, QueueGoto
  <2>3. \A x \in Queuers : qpc'[x] = "index" <=> qpc[x] = "index"
    BY <2>1, <2>2 DEF IInv, TypeOK
  <2>4. {x \in Queuers : qpc[x] = "index"}' = {x \in Queuers : qpc[x] = "index"}
    BY <2>3
  <2>5. \A i : Dealt(i)' = Dealt(i)
    BY <2>1, <2>3 DEF Dealt, HostIndex, Batch
  <2>6. (\A x \in stale : qpc[x] = "index")'
    BY <2>1, <2>3 DEF Shares, IInv, TypeOK
  <2>7. TypeOK /\ IsFiniteSet({x \in Queuers : qpc[x] = "index"})
    BY DEF IInv, Shares
  <2> QED BY <2>1, <2>4, <2>5, <2>6, <2>7, SharesKept
<1> QED BY <1>1, <1>2, <1>3 DEF Queue

LEMMA SharesStep ==
    ASSUME Shares, IInv, [Next]_vars
    PROVE  Shares'
<1>0. TypeOK'
    BY TypesKept
<1>1. ASSUME NEW r \in Registrars, Register(r) PROVE Shares'
  <2>1. CASE PublishFirst(r) \/ PublishCount(r)
    BY <1>0, <2>1, SharesAnew DEF PublishFirst, PublishCount, queueVars
  <2>2. CASE (\E o \in Objects : RegBegin(r, o)) \/ RegStep(r) \/ RegFail(r)
    BY <2>2, SharesFrame DEF RegBegin, RegStep, RegFail, tableVars, paramVars,
       diskVars, queueVars, shareVars
  <2>3. CASE PublishEntry(r) \/ PublishSilbing(r)
    BY <2>3, SharesFrame DEF PublishEntry, PublishSilbing, tableVars, paramVars,
       diskVars, queueVars, shareVars
  <2> QED BY <1>1, <2>1, <2>2, <2>3 DEF Register
<1>2. ASSUME NEW i \in Numbers, RemoveHost(i) PROVE Shares'
    BY <1>2, SharesFrame DEF RemoveHost, tableVars, paramVars, queueVars, shareVars
<1>3. ASSUME NEW i \in Numbers, AddDisk(i) PROVE Shares'
    BY <1>0, <1>3, SharesAnew DEF AddDisk, queueVars
<1>4. ASSUME NEW q \in Queuers, Queue(q), ~gone PROVE Shares'
    BY <1>4, SharesOfQueue
<1>5. CASE NameVolume \/ WriteShift
    BY <1>0, <1>5, SharesAnew DEF NameVolume, WriteShift, queueVars
<1>6. ASSUME NEW n \in IoPerHost, WriteIoPerHost(n) \/ SetParameter(n)
      PROVE  Shares'
    BY <1>6, SharesFrame DEF WriteIoPerHost, SetParameter, tableVars, diskVars,
       queueVars, shareVars
<1>7. CASE RemoveAll
    BY <1>7 DEF RemoveAll, Shares, queueVars, shareVars
<1>8. CASE UseFreed
    BY <1>8, SharesFrame DEF UseFreed, tableVars, paramVars, diskVars, queueVars,
       shareVars
<1>9. CASE UNCHANGED vars
    BY <1>9, SharesFrame DEF vars, tableVars, paramVars, diskVars, queueVars, shareVars
<1> QED BY <1>1, <1>2, <1>3, <1>4, <1>5, <1>6, <1>7, <1>8, <1>9
        DEF Next, Running

\* The read and write commands of a volume are shared out evenly over any number of
\* hosts, from whatever number of the round the sharing began: no host is a batch
\* ahead of another, until the counter of the volume has run through a __u32, and
\* beyond that if the hosts divide its range.
THEOREM EvenShares == Spec => []Balanced
<1>1. Init => IInv /\ Shares
    BY Initial, SharesInit
<1>2. IInv /\ Shares /\ [Next]_vars => (IInv /\ Shares)'
    BY TypesKept, HostsKept, DispatchKept, SharesStep DEF IInv
<1>3. IInv /\ Shares => Balanced
  <2> SUFFICES ASSUME IInv, Shares, \A q \in Queuers : qpc[q] # "index",
                      NEW i \in Numbers, NEW j \in Numbers,
                      i < host_count, j < host_count, Seamless
               PROVE  hits[i] <= hits[j] + Batch
    BY DEF Balanced
  <2>1. Dealt(i) = {} /\ Dealt(j) = {} /\ Cardinality({}) = 0
    BY FS_EmptySet DEF Dealt
  <2>2. /\ host_count \in Nat /\ host_count > 0 /\ i \in Nat /\ j \in Nat
        /\ hits[i] \in Nat /\ hits[j] \in Nat /\ sn \in Nat
    <3>1. TypeOK
      BY DEF IInv
    <3>2. host_count \in Nat /\ i \in Nat /\ j \in Nat
      BY <3>1 DEF TypeOK, Numbers
    <3>3. hits[i] \in Nat /\ hits[j] \in Nat /\ sn \in Nat
      BY <3>1 DEF TypeOK
    <3> QED BY <3>2, <3>3
  <2>3. PICK a \in Int, p \in Nat, o \in 0 .. Batch - 1 : Rounds(a, p, o)
    BY <2>2 DEF Shares
  <2>4. PICK b \in {1, 2, 4} : b = Batch
    BY DEF IInv, TypeOK, Batch
  <2>5. PICK c \in Nat, r \in 0 .. b - 1 : c = HostIndex(sn) /\ r = Place(sn)
    <3>1. HostIndex(sn) \in Numbers
      BY <2>2, IndexBelowCount DEF IInv
    <3>2. Place(sn) \in 0 .. b - 1
      BY <2>2, <2>4, BoundAssumption DEF Place
    <3> QED BY <2>2, <2>4, <3>1, <3>2 DEF Numbers
  <2>6. /\ hits[i] = a + InRound(i, c, r) - InRound(i, p, o)
        /\ hits[j] = a + InRound(j, c, r) - InRound(j, p, o)
    BY <2>1, <2>2, <2>3, <2>5 DEF Rounds
  <2>7. ASSUME NEW x \in Nat, NEW y \in Nat, x <= y, NEW m \in Nat,
               NEW n \in 0 .. b - 1
        PROVE  /\ InRound(x, m, n) \in Int /\ InRound(y, m, n) \in Int
               /\ 0 <= InRound(x, m, n) - InRound(y, m, n)
               /\ InRound(x, m, n) - InRound(y, m, n) <= b
    BY <2>4, <2>7 DEF InRound
  <2>8. o \in 0 .. b - 1
    BY <2>3, <2>4
  <2>9. CASE i <= j
    <3>1. /\ InRound(i, c, r) \in Int /\ InRound(j, c, r) \in Int
          /\ InRound(i, c, r) - InRound(j, c, r) <= b
      BY <2>2, <2>5, <2>7, <2>9
    <3>2. /\ InRound(i, p, o) \in Int /\ InRound(j, p, o) \in Int
          /\ 0 <= InRound(i, p, o) - InRound(j, p, o)
      BY <2>2, <2>3, <2>7, <2>8, <2>9
    <3> QED BY <2>2, <2>3, <2>4, <2>6, <3>1, <3>2
  <2>10. CASE j <= i
    <3>1. /\ InRound(i, c, r) \in Int /\ InRound(j, c, r) \in Int
          /\ 0 <= InRound(j, c, r) - InRound(i, c, r)
      BY <2>2, <2>5, <2>7, <2>10
    <3>2. /\ InRound(i, p, o) \in Int /\ InRound(j, p, o) \in Int
          /\ InRound(j, p, o) - InRound(i, p, o) <= b
      BY <2>2, <2>3, <2>7, <2>8, <2>10
    <3> QED BY <2>2, <2>3, <2>4, <2>6, <3>1, <3>2
  <2> QED BY <2>2, <2>9, <2>10
<1> QED BY <1>1, <1>2, <1>3, PTL DEF Spec
=============================================================================
