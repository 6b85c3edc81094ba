---------------------------- MODULE VscCmdProofs ----------------------------
(***************************************************************************)
(* Exactly-once completion, proved for every number of slots, commands and *)
(* threads, and every batch size: whatever answers, duplicate answers,     *)
(* drains and late readers do, a command is completed once, is never lost, *)
(* and no slot is leaked or handed out twice, as long as no failing        *)
(* copy_to_user in read() races with a drain.  And what it rests on or      *)
(* gives: a drain leaves nothing behind, an answer is for its command, and  *)
(* the driver implements the service of VscService.                        *)
(*                                                                         *)
(* The argument follows the slots.  A slot that is taken is at one place   *)
(* only: local to a queuecommand call, linked once into one queue, or      *)
(* local to the one thread that unlinked it (Places).  The live slots, the *)
(* linked ones and those unlinked whose command is still to be completed,  *)
(* stand for the commands of the driver, one for one (Owners).             *)
(*                                                                         *)
(* The last part proves the same of the command path under the error        *)
(* handlers of VscEh.  A handler holds references of its own, so that all   *)
(* the invariants speak of the references that are lent: none in VscCmd.    *)
(***************************************************************************)
EXTENDS VscEh, VscListTheorems

\* No slot is linked twice, into one queue or two.
QueuesOK ==
    /\ NoDup(reqQ) /\ NoDup(cmpQ) /\ NoDup(rspQ)
    /\ ToSet(reqQ) \intersect ToSet(cmpQ) = {}
    /\ ToSet(reqQ) \intersect ToSet(rspQ) = {}
    /\ ToSet(cmpQ) \intersect ToSet(rspQ) = {}

\* What the position of a thread says of its local variables.
Threads ==
    /\ \A a \in Workers : (tag[a] # NoTag) <=> pc[a] \in {"done", "popped", "put"}
    /\ \A w \in Writers : pc[w] # "popped"
    /\ \A m \in Drainers : pc[m] \notin {"done", "copy"}
    /\ \A w \in Writers : pc[w] = "done" => cur[w] = scsi_cmd[tag[w]]
    /\ \A r \in Readers : rd[r].pc \in {"stamp", "fields"}
                              => Len(rd[r].msgs) < Len(rd[r].arr)

\* A slot is owned by a queue, ...
Owned(t) == \/ t \in Queued
            \/ \E s \in Scs : alloc[s] = t
            \/ \E a \in Workers : tag[a] = t

\* ... a slot that is owned is taken and at one place only: linked, ...
QueuedTaken == Queued \subseteq cmd_pool_bits
\* ... or local to one queuecommand call, ...
AllocTaken == \A s \in Scs : alloc[s] # NoTag =>
    alloc[s] \in cmd_pool_bits /\ alloc[s] \notin Queued
AllocOnce == \A s, z \in Scs : alloc[s] # NoTag /\ alloc[s] = alloc[z] => s = z
\* ... or local to one thread that unlinked it.
TagTaken == \A a \in Workers : tag[a] # NoTag =>
    /\ tag[a] \in cmd_pool_bits /\ tag[a] \notin Queued
    /\ \A s \in Scs : alloc[s] # tag[a]
TagOnce == \A a, b \in Workers : tag[a] # NoTag /\ tag[a] = tag[b] => a = b
\* A slot that is taken and not owned is lent.
TakenSomewhere(lent) == \A t \in cmd_pool_bits : Owned(t) \/ lent[t] > 0
Places(lent) == /\ QueuedTaken /\ AllocTaken /\ AllocOnce /\ TagTaken /\ TagOnce
                /\ TakenSomewhere(lent)

\* The live slots stand for commands of the driver, each for another one, and
\* every command of the driver is in a queuecommand call or has a live slot.
LiveOwned == \A t \in Live : scsi_cmd[t] \in Scs /\ mid[scsi_cmd[t]] # "idle"
LiveOnce  == \A t, u \in Live : scsi_cmd[t] = scsi_cmd[u] => t = u
AllocOwned == \A s \in Scs : alloc[s] # NoTag =>
    mid[s] = "driver" /\ \A t \in Live : scsi_cmd[t] # s
DriverHeld == \A s \in Scs : mid[s] = "driver" /\ alloc[s] = NoTag =>
    \E t \in Live : scsi_cmd[t] = s
Owners == LiveOwned /\ LiveOnce /\ AllocOwned /\ DriverHeld

\* A slot has one reference of its owner, and one more between the two halves of
\* a drain's callback, beside those lent to error handlers.
Refs(lent) ==
    /\ \A t \in Tags : Owned(t) /\ (\A m \in Drainers : pc[m] = "put" => tag[m] # t)
                         => refcnt[t] = lent[t] + 1
    /\ \A m \in Drainers : pc[m] = "put" => refcnt[tag[m]] = lent[tag[m]] + 2
    /\ \A t \in Tags : lent[t] > 0 => /\ t \in cmd_pool_bits
                                      /\ Owned(t) \/ refcnt[t] = lent[t]

\* What the driver guarantees while lent[t] references to slot t are in the hands
\* of error handlers.
Inv(lent) == /\ Types /\ QueuesOK /\ Threads /\ Places(lent) /\ Owners /\ Refs(lent)
             /\ NoDoubleDone /\ IoRunningExact

\* Without error handlers nothing is lent, and no command is late.
Nothing == [t \in Tags |-> 0]
IInv    == Inv(Nothing) /\ TypeOK

-----------------------------------------------------------------------------

\* What it means for a slot to be live, without the sets.
LEMMA LiveMember ==
    \A t : t \in Live <=> \/ t \in Queued
                          \/ \E a \in Workers : pc[a] \in {"done", "popped"}
                                                /\ tag[a] = t
  BY DEF Live, Closing

\* The queues, as far as the invariant looks at them: three sequences of slots.
LEMMA QueueTypes ==
    ASSUME Types
    PROVE  /\ reqQ \in Seq(Tags) /\ cmpQ \in Seq(Tags) /\ rspQ \in Seq(Tags)
           /\ Len(reqQ) \in Nat /\ Len(cmpQ) \in Nat /\ Len(rspQ) \in Nat
           /\ Queued \subseteq Tags
  BY LenProperties DEF Types, Queued, ToSet

\* A slot that is linked nowhere is linked at the tail.
LEMMA TagAdded ==
    ASSUME NEW q \in Seq(Tags), NEW c \in Tags, NoDup(q), c \notin ToSet(q)
    PROVE  /\ AddTail(q, c) \in Seq(Tags) /\ Len(AddTail(q, c)) = Len(q) + 1
           /\ ToSet(AddTail(q, c)) = ToSet(q) \union {c} /\ NoDup(AddTail(q, c))
BY AddTailFacts

LEMMA LinkedTail ==
    ASSUME NEW q \in Seq(Tags), NEW c \in Tags
    PROVE  ToSet(AddTail(q, c)) = ToSet(q) \union {c}
BY AddTailFacts

\* The batch of a reader, and what it leaves in the queue.
LEMMA TagBatch ==
    ASSUME NEW q \in Seq(Tags)
    PROVE  /\ Batch(q, MaxBatch) \in Seq(Tags) /\ Rest(q, MaxBatch) \in Seq(Tags)
           /\ ToSet(q) = ToSet(Batch(q, MaxBatch)) \union ToSet(Rest(q, MaxBatch))
           /\ NoDup(q) => /\ NoDup(Batch(q, MaxBatch))
                          /\ ToSet(Batch(q, MaxBatch))
                               \intersect ToSet(Rest(q, MaxBatch)) = {}
<1>1. MaxBatch \in Nat
  BY BatchAssumption
<1> QED BY <1>1, BatchFacts

\* removeQ of a linked slot unlinks it and nothing else.
LEMMA RemoveQFacts ==
    ASSUME Types, QueuesOK, NEW t \in Queued, RemoveQ(t)
    PROVE  /\ reqQ' \in Seq(Tags) /\ cmpQ' \in Seq(Tags) /\ rspQ' \in Seq(Tags)
           /\ QueuesOK'
           /\ Queued' = Queued \ {t}
           /\ Len(reqQ') + Len(cmpQ') + Len(rspQ')
                = Len(reqQ) + Len(cmpQ) + Len(rspQ) - 1
           /\ Len(reqQ') + Len(cmpQ') + Len(rspQ') \in Nat
<1>1. /\ reqQ \in Seq(Tags) /\ cmpQ \in Seq(Tags) /\ rspQ \in Seq(Tags)
      /\ Len(reqQ) \in Nat /\ Len(cmpQ) \in Nat /\ Len(rspQ) \in Nat
  BY QueueTypes
<1>2. /\ reqQ' = Del(reqQ, t) /\ cmpQ' = Del(cmpQ, t) /\ rspQ' = Del(rspQ, t)
  BY DEF RemoveQ
<1>3. /\ reqQ' \in Seq(Tags) /\ NoDup(reqQ') /\ ToSet(reqQ') = ToSet(reqQ) \ {t}
      /\ t \notin ToSet(reqQ) => reqQ' = reqQ
      /\ t \in ToSet(reqQ) => Len(reqQ') = Len(reqQ) - 1
  BY <1>1, <1>2, DelFacts DEF QueuesOK
<1>4. /\ cmpQ' \in Seq(Tags) /\ NoDup(cmpQ') /\ ToSet(cmpQ') = ToSet(cmpQ) \ {t}
      /\ t \notin ToSet(cmpQ) => cmpQ' = cmpQ
      /\ t \in ToSet(cmpQ) => Len(cmpQ') = Len(cmpQ) - 1
  BY <1>1, <1>2, DelFacts DEF QueuesOK
<1>5. /\ rspQ' \in Seq(Tags) /\ NoDup(rspQ') /\ ToSet(rspQ') = ToSet(rspQ) \ {t}
      /\ t \notin ToSet(rspQ) => rspQ' = rspQ
      /\ t \in ToSet(rspQ) => Len(rspQ') = Len(rspQ) - 1
  BY <1>1, <1>2, DelFacts DEF QueuesOK
<1>6. QueuesOK' /\ Queued' = Queued \ {t}
  BY <1>3, <1>4, <1>5 DEF QueuesOK, Queued
<1>7. Len(reqQ') + Len(cmpQ') + Len(rspQ')
        = Len(reqQ) + Len(cmpQ) + Len(rspQ) - 1
  <2>1. CASE t \in ToSet(reqQ)
    <3>1. t \notin ToSet(cmpQ) /\ t \notin ToSet(rspQ)
      BY <2>1 DEF QueuesOK
    <3>2. cmpQ' = cmpQ /\ rspQ' = rspQ /\ Len(reqQ') = Len(reqQ) - 1
      BY <1>3, <1>4, <1>5, <2>1, <3>1
    <3> QED BY <1>1, <3>2
  <2>2. CASE t \in ToSet(cmpQ)
    <3>1. t \notin ToSet(reqQ) /\ t \notin ToSet(rspQ)
      BY <2>2 DEF QueuesOK
    <3>2. reqQ' = reqQ /\ rspQ' = rspQ /\ Len(cmpQ') = Len(cmpQ) - 1
      BY <1>3, <1>4, <1>5, <2>2, <3>1
    <3> QED BY <1>1, <3>2
  <2>3. CASE t \in ToSet(rspQ)
    <3>1. t \notin ToSet(reqQ) /\ t \notin ToSet(cmpQ)
      BY <2>3 DEF QueuesOK
    <3>2. reqQ' = reqQ /\ cmpQ' = cmpQ /\ Len(rspQ') = Len(rspQ) - 1
      BY <1>3, <1>4, <1>5, <2>3, <3>1
    <3> QED BY <1>1, <3>2
  <2> QED BY <2>1, <2>2, <2>3 DEF Queued
<1>8. Len(reqQ') + Len(cmpQ') + Len(rspQ') \in Nat
  BY <1>3, <1>4, <1>5, LenProperties
<1> QED BY <1>3, <1>4, <1>5, <1>6, <1>7, <1>8

\* The slots linked are as many as the three queues are long.
LEMMA QueuedCount ==
    ASSUME NEW p \in Seq(Tags), NEW q \in Seq(Tags), NEW z \in Seq(Tags),
           NoDup(p), NoDup(q), NoDup(z),
           ToSet(p) \intersect ToSet(q) = {}, ToSet(p) \intersect ToSet(z) = {},
           ToSet(q) \intersect ToSet(z) = {}
    PROVE  Len(p) + Len(q) + Len(z)
             = Cardinality(ToSet(p) \union ToSet(q) \union ToSet(z))
<1>1. /\ p \o q \in Seq(Tags) /\ Len(p \o q) = Len(p) + Len(q) /\ NoDup(p \o q)
      /\ ToSet(p \o q) = ToSet(p) \union ToSet(q)
  BY JoinFacts
<1> DEFINE s == p \o q
<1>2. ToSet(s) \intersect ToSet(z) = {} /\ s \in Seq(Tags) /\ NoDup(s)
  BY <1>1
<1> HIDE DEF s
<1>3. /\ s \o z \in Seq(Tags) /\ Len(s \o z) = Len(s) + Len(z) /\ NoDup(s \o z)
      /\ ToSet(s \o z) = ToSet(s) \union ToSet(z)
  BY <1>2, JoinFacts
<1>4. Cardinality(ToSet(s \o z)) = Len(s \o z)
  BY <1>3, LenIsCardinality
<1>5. Len(s) = Len(p) + Len(q) /\ ToSet(s) = ToSet(p) \union ToSet(q)
  BY <1>1 DEF s
<1> QED BY <1>3, <1>4, <1>5

-----------------------------------------------------------------------------

LEMMA InitIInv == Init => IInv
<1> SUFFICES ASSUME Init PROVE IInv
  OBVIOUS
<1> USE DEF Init
<1>1. Queued = {} /\ Live = {} /\ QueuesOK /\ IoRunningExact
  BY EmptyFacts, LiveMember DEF Queued, QueuesOK, IoRunningExact
<1>2. Types /\ mid \in [Scs -> {"idle", "driver"}]
  BY PoolAssumption DEF Types, Reader, IdleReader, NoMsg, Workers
<1>3. Threads /\ Owners /\ NoDoubleDone
  BY <1>1, PoolAssumption DEF Threads, NoDoubleDone, IdleReader, Workers, Owners,
     LiveOwned, LiveOnce, AllocOwned, DriverHeld
<1>4. Places(Nothing)
  BY <1>1, PoolAssumption DEF Workers, Places, QueuedTaken, AllocTaken, AllocOnce,
     TagTaken, TagOnce, TakenSomewhere
<1>5. Refs(Nothing)
  <2>1. \A t \in Tags : ~ Owned(t)
    BY <1>1, PoolAssumption DEF Owned, Workers
  <2>2. \A m \in Drainers : pc[m] # "put"
    BY DEF Workers
  <2> QED BY <2>1, <2>2 DEF Refs, Nothing
<1> QED BY <1>1, <1>2, <1>3, <1>4, <1>5 DEF IInv, Inv, TypeOK

LEMMA QueueAllocStep ==
    ASSUME NEW lent \in [Tags -> Nat], Inv(lent), NEW s \in Scs, QueueAlloc(s)
    PROVE  Inv(lent)'
<1> USE DEF Inv
<1>1. PICK t \in Tags \ cmd_pool_bits :
          /\ cmd_pool_bits' = cmd_pool_bits \union {t}
          /\ stat' = [stat EXCEPT ![t] = "INIT"]
          /\ scsi_cmd' = [scsi_cmd EXCEPT ![t] = NoCmd]
          /\ sn' = [sn EXCEPT ![t] = (cmd_sn + 1) % SnMod]
          /\ refcnt' = [refcnt EXCEPT ![t] = 1]
          /\ alloc' = [alloc EXCEPT ![s] = t]
  BY DEF QueueAlloc, FirstFree
<1>2. /\ mid[s] = "idle" /\ cmd_sn' = cmd_sn + 1
      /\ mid' = [mid EXCEPT ![s] = "driver"]
      /\ UNCHANGED <<reqQ, cmpQ, rspQ, io_running, dup, rd, pc, tag, cur, msg,
                     stage, snap, user>>
  BY DEF QueueAlloc, queueVars, workerVars
<1>3. /\ Queued' = Queued /\ Live' = Live
      /\ t \notin Queued /\ t \notin Live
      /\ \A a \in Workers : tag[a] # t
      /\ \A z \in Scs : alloc[z] # t
  <2>1. Queued' = Queued /\ Live' = Live
    BY <1>2 DEF Queued, Live, Closing
  <2>2. /\ t # NoTag /\ t \notin Queued
        /\ \A a \in Workers : tag[a] # t
        /\ \A z \in Scs : alloc[z] # t
    BY PoolAssumption DEF Places, QueuedTaken, TagTaken, AllocTaken
  <2> QED BY <2>1, <2>2, LiveMember
<1>a. alloc[s] = NoTag
  BY <1>2 DEF Owners, AllocOwned
<1>4. Types'
  <2>1. (cmd_sn + 1) % SnMod \in Nat /\ cmd_sn' \in Nat
    BY <1>2, SerialAssumption DEF Types
  <2>2. /\ stat' \in [Tags -> {"INIT", "REQUEST", "READ_COMP", "RESP"}]
        /\ scsi_cmd' \in [Tags -> Scs \union {NoCmd}]
        /\ cmd_pool_bits' \subseteq Tags
    BY <1>1 DEF Types
  <2>3. /\ sn' \in [Tags -> Nat] /\ refcnt' \in [Tags -> Nat]
        /\ alloc' \in [Scs -> Tags \union {NoTag}]
    BY <1>1, <2>1 DEF Types
  <2>4. mid' \in [Scs -> {"idle", "driver", "late"}]
    BY <1>2 DEF Types
  <2> QED BY <1>2, <2>1, <2>2, <2>3, <2>4 DEF Types
<1>5. QueuesOK' /\ NoDoubleDone' /\ IoRunningExact'
  BY <1>2 DEF QueuesOK, NoDoubleDone, IoRunningExact
<1>6. Threads'
  BY <1>1, <1>2, <1>3, PoolAssumption DEF Threads, Types, Workers
<1>7. Places(lent)'
  <2>1. QueuedTaken'
    BY <1>1, <1>2, <1>3, <1>a, PoolAssumption DEF Types, Places, QueuedTaken
  <2>2. AllocTaken'
    BY <1>1, <1>2, <1>3, <1>a, PoolAssumption DEF Types, Places, AllocTaken
  <2>3. AllocOnce'
    BY <1>1, <1>2, <1>3, <1>a, PoolAssumption DEF Types, Places, AllocOnce
  <2>4. TagTaken'
    BY <1>1, <1>2, <1>3, <1>a, PoolAssumption DEF Types, Places, TagTaken
  <2>5. TagOnce'
    BY <1>1, <1>2, <1>3, <1>a, PoolAssumption DEF Types, Places, TagOnce
  <2>6. TakenSomewhere(lent)'
    <3>1. \A u \in Tags : Owned(u)' <=> Owned(u) \/ u = t
      BY <1>1, <1>2, <1>3, <1>a, PoolAssumption DEF Types, Owned
    <3> QED BY <1>1, <3>1 DEF Types, Places, TakenSomewhere
  <2> QED BY <2>1, <2>2, <2>3, <2>4, <2>5, <2>6 DEF Places
<1>8. Owners'
  <2>1. LiveOwned'
    BY <1>1, <1>2, <1>3, <1>a, PoolAssumption DEF Types, Owners, LiveOwned
  <2>2. LiveOnce'
    BY <1>1, <1>2, <1>3, <1>a, PoolAssumption DEF Types, Owners, LiveOnce
  <2>3. AllocOwned'
    BY <1>1, <1>2, <1>3, <1>a, PoolAssumption DEF Types, Owners, AllocOwned, LiveOwned
  <2>4. DriverHeld'
    <3> SUFFICES ASSUME NEW z \in Scs, mid'[z] = "driver", alloc'[z] = NoTag
                 PROVE  \E u \in Live : scsi_cmd'[u] = z
      BY <1>3 DEF DriverHeld
    <3>1. z # s /\ mid[z] = "driver" /\ alloc[z] = NoTag
      BY <1>1, <1>2, PoolAssumption DEF Types
    <3>2. PICK u \in Live : scsi_cmd[u] = z
      BY <3>1 DEF Owners, DriverHeld
    <3>3. u # t /\ scsi_cmd'[u] = scsi_cmd[u]
      BY <1>1, <1>3 DEF Types
    <3> QED BY <3>2, <3>3
  <2> QED BY <2>1, <2>2, <2>3, <2>4 DEF Owners
<1>9. Refs(lent)'
  <2>1. \A u \in Tags : Owned(u)' <=> Owned(u) \/ u = t
    BY <1>1, <1>2, <1>3, <1>a, PoolAssumption DEF Types, Owned
  <2>2. lent[t] = 0 /\ refcnt'[t] = 1 /\ ~ Owned(t)
    BY <1>1, <1>3 DEF Refs, Types, Owned
  <2>3. \A u \in Tags : u # t => refcnt'[u] = refcnt[u]
    BY <1>1 DEF Types
  <2>4. \A m \in Drainers : pc[m] = "put" => tag[m] \in Tags /\ tag[m] # t
    BY <1>3 DEF Threads, Types, Workers
  <2> QED BY <1>1, <1>2, <2>1, <2>2, <2>3, <2>4 DEF Refs
<1> QED BY <1>4, <1>5, <1>6, <1>7, <1>8, <1>9

LEMMA QueueEnqueueStep ==
    ASSUME NEW lent \in [Tags -> Nat], Inv(lent), NEW s \in Scs, QueueEnqueue(s)
    PROVE  Inv(lent)'
<1> USE DEF Inv
<1> DEFINE t == alloc[s]
<1>1. /\ t # NoTag /\ t \in Tags /\ t \in cmd_pool_bits /\ t \notin Queued
      /\ scsi_cmd' = [scsi_cmd EXCEPT ![t] = s]
      /\ reqQ' = AddTail(reqQ, t)
      /\ io_running' = io_running + 1
      /\ alloc' = [alloc EXCEPT ![s] = NoTag]
      /\ UNCHANGED <<stat, sn, refcnt, cmd_pool_bits, cmpQ, rspQ, cmd_sn, mid,
                     dup, rd, pc, tag, cur, msg, stage, snap, user>>
  BY DEF QueueEnqueue, IoStarts, workerVars, Types, Places, AllocTaken
<1>2. /\ reqQ' \in Seq(Tags) /\ Len(reqQ') = Len(reqQ) + 1
      /\ ToSet(reqQ') = ToSet(reqQ) \union {t} /\ NoDup(reqQ')
  <2>1. reqQ \in Seq(Tags) /\ NoDup(reqQ) /\ t \notin ToSet(reqQ)
    BY <1>1, QueueTypes DEF Queued, QueuesOK
  <2>2. t \in Tags /\ reqQ' = AddTail(reqQ, t)
    BY <1>1
  <2> QED BY <2>1, <2>2, TagAdded
<1>a. (\A a \in Workers : tag[a] # t) /\ (\A z \in Scs : alloc[z] = t => z = s)
  BY <1>1 DEF Places, TagTaken, AllocOnce
<1>3. /\ Queued' = Queued \union {t} /\ Live' = Live \union {t}
      /\ t \notin Live
  BY <1>1, <1>2, <1>a, LiveMember DEF Queued, Live, Closing
<1>b. \A u \in Tags : Owned(u)' <=> Owned(u)
  BY <1>1, <1>3, <1>a, PoolAssumption DEF Types, Owned
<1>4. Types'
  <2>1. /\ scsi_cmd' \in [Tags -> Scs \union {NoCmd}]
        /\ alloc' \in [Scs -> Tags \union {NoTag}] /\ io_running' \in Nat
    BY <1>1 DEF Types
  <2> QED BY <1>1, <1>2, <2>1 DEF Types
<1>5. QueuesOK' /\ NoDoubleDone' /\ IoRunningExact'
  BY <1>1, <1>2, QueueTypes DEF QueuesOK, NoDoubleDone, IoRunningExact, Queued
<1>6. Threads'
  BY <1>1, <1>a, PoolAssumption DEF Threads, Types, Workers
<1>7. Places(lent)'
  <2>1. QueuedTaken'
    BY <1>1, <1>3, <1>a, PoolAssumption DEF Types, Places, QueuedTaken
  <2>2. AllocTaken'
    BY <1>1, <1>3, <1>a, PoolAssumption DEF Types, Places, AllocTaken
  <2>3. AllocOnce'
    BY <1>1, <1>3, <1>a, PoolAssumption DEF Types, Places, AllocOnce
  <2>4. TagTaken'
    BY <1>1, <1>3, <1>a, PoolAssumption DEF Types, Places, TagTaken
  <2>5. TagOnce'
    BY <1>1, <1>3, <1>a, PoolAssumption DEF Types, Places, TagOnce
  <2>6. TakenSomewhere(lent)'
    BY <1>1, <1>b DEF Types, Places, TakenSomewhere
  <2> QED BY <2>1, <2>2, <2>3, <2>4, <2>5, <2>6 DEF Places
<1>8. Owners'
  <2>1. LiveOwned'
    BY <1>1, <1>3, <1>a, PoolAssumption DEF Types, Owners, LiveOwned, AllocOwned
  <2>2. LiveOnce'
    BY <1>1, <1>3, <1>a, PoolAssumption DEF Types, Owners, LiveOnce, AllocOwned
  <2>3. AllocOwned'
    BY <1>1, <1>3, <1>a, PoolAssumption DEF Types, Owners, AllocOwned
  <2>4. DriverHeld'
    <3> SUFFICES ASSUME NEW z \in Scs, mid[z] = "driver", alloc'[z] = NoTag
                 PROVE  \E u \in Live' : scsi_cmd'[u] = z
      BY <1>1 DEF DriverHeld
    <3>1. CASE z = s
      BY <1>1, <1>3, <3>1 DEF Types
    <3>2. CASE z # s
      <4>1. PICK u \in Live : scsi_cmd[u] = z
        BY <1>1, <3>2 DEF Types, Owners, DriverHeld
      <4>2. scsi_cmd'[u] = scsi_cmd[u]
        BY <1>1, <1>3 DEF Types
      <4> QED BY <1>3, <4>1, <4>2
    <3> QED BY <3>1, <3>2
  <2> QED BY <2>1, <2>2, <2>3, <2>4 DEF Owners
<1>9. Refs(lent)'
  BY <1>1, <1>b DEF Refs
<1> QED BY <1>4, <1>5, <1>6, <1>7, <1>8, <1>9

\* The invariants about slots and commands see the queues through the set of
\* linked slots: moving slots between queues, and what readers and data
\* transfers do, leaves them alone.
LEMMA MoveFrame ==
    ASSUME NEW lent \in [Tags -> Nat], Inv(lent), Queued' = Queued,
           UNCHANGED <<scsi_cmd, refcnt, cmd_pool_bits, mid, dup, alloc, tag>>,
           \A a \in Workers : pc'[a] = pc[a] \/ /\ a \in Writers
                                                /\ pc[a] \in {"idle", "copy"}
                                                /\ pc'[a] \in {"idle", "copy"}
    PROVE  Places(lent)' /\ Owners' /\ Refs(lent)' /\ NoDoubleDone'
<1> USE DEF Inv
<1>1. Live' = Live
  BY DEF Live, Closing
<1>2. Places(lent)'
  BY DEF Places, QueuedTaken, AllocTaken, AllocOnce, TagTaken, TagOnce,
         TakenSomewhere, Owned
<1>3. Owners'
  BY <1>1 DEF Owners, LiveOwned, LiveOnce, AllocOwned, DriverHeld
<1>4. Refs(lent)'
  <2>1. \A t \in Tags : Owned(t)' <=> Owned(t)
    BY DEF Owned
  <2>2. \A m \in Drainers : pc'[m] = "put" <=> pc[m] = "put"
    BY ThreadAssumption DEF Workers
  <2> QED BY <2>1, <2>2 DEF Refs
<1> QED BY <1>2, <1>3, <1>4 DEF NoDoubleDone

LEMMA StartIoStep ==
    ASSUME NEW lent \in [Tags -> Nat], Inv(lent), StartIo
    PROVE  Inv(lent)'
<1> USE DEF Inv
<1> DEFINE t == Head(reqQ)
<1>1. /\ reqQ # <<>> /\ reqQ' = Tail(reqQ) /\ cmpQ' = AddTail(cmpQ, t)
      /\ stat' = [stat EXCEPT ![t] = "REQUEST"]
      /\ UNCHANGED <<sn, scsi_cmd, refcnt, cmd_pool_bits, rspQ, cmd_sn,
                     io_running, mid, dup, alloc, rd, pc, tag, cur, msg, stage,
                     snap, user>>
  BY DEF StartIo, workerVars
<1>2. /\ t \in ToSet(reqQ) /\ t \in Tags /\ t \notin ToSet(cmpQ)
      /\ t \notin ToSet(rspQ)
  BY <1>1, QueueTypes, TailFacts DEF QueuesOK, Queued
<1>3. /\ reqQ' \in Seq(Tags) /\ Len(reqQ') = Len(reqQ) - 1
      /\ NoDup(reqQ') /\ ToSet(reqQ') = ToSet(reqQ) \ {t}
  BY <1>1, QueueTypes, TailFacts DEF QueuesOK
<1>4. /\ cmpQ' \in Seq(Tags) /\ Len(cmpQ') = Len(cmpQ) + 1
      /\ NoDup(cmpQ') /\ ToSet(cmpQ') = ToSet(cmpQ) \union {t}
  <2>1. cmpQ \in Seq(Tags) /\ NoDup(cmpQ) /\ cmpQ' = AddTail(cmpQ, t)
    BY <1>1, QueueTypes DEF QueuesOK
  <2> HIDE DEF t
  <2> QED BY <1>2, <2>1, TagAdded
<1>5. Queued' = Queued /\ QueuesOK' /\ IoRunningExact'
  <2>1. Queued' = Queued
    BY <1>1, <1>2, <1>3, <1>4 DEF Queued
  <2>2. QueuesOK'
    BY <1>1, <1>2, <1>3, <1>4 DEF QueuesOK
  <2>3. IoRunningExact'
    <3>1. io_running' = io_running /\ Len(rspQ') = Len(rspQ)
      BY <1>1
    <3>2. io_running' = Len(reqQ') + Len(cmpQ') + Len(rspQ')
      BY <1>3, <1>4, <3>1, QueueTypes DEF IoRunningExact
    <3> QED BY <3>2 DEF IoRunningExact
  <2> QED BY <2>1, <2>2, <2>3
<1>6. Types'
  BY <1>1, <1>3, <1>4 DEF Types
<1>7. Threads'
  BY <1>1 DEF Threads
<1>8. Places(lent)' /\ Owners' /\ Refs(lent)' /\ NoDoubleDone'
  BY <1>1, <1>5, MoveFrame
<1> QED BY <1>5, <1>6, <1>7, <1>8

LEMMA ReadTakeStep ==
    ASSUME NEW lent \in [Tags -> Nat], Inv(lent), NEW r \in Readers, ReadTake(r)
    PROVE  Inv(lent)'
<1> USE DEF Inv
<1> DEFINE b == Batch(cmpQ, MaxBatch)
           c == Rest(cmpQ, MaxBatch)
<1>1. /\ cmpQ # <<>> /\ rspQ' = rspQ \o b /\ cmpQ' = c
      /\ rd' = [rd EXCEPT ![r] = [pc |-> "stamp", arr |-> b, sc |-> NoCmd,
                                  msgs |-> <<>>]]
      /\ UNCHANGED <<stat, sn, scsi_cmd, refcnt, cmd_pool_bits, reqQ, cmd_sn,
                     io_running, mid, dup, alloc, pc, tag, cur, msg, stage,
                     snap, user>>
  BY DEF ReadTake, slotVars, workerVars
<1>2. /\ b \in Seq(Tags) /\ c \in Seq(Tags) /\ Len(b) + Len(c) = Len(cmpQ)
      /\ ToSet(cmpQ) = ToSet(b) \union ToSet(c)
      /\ NoDup(b) /\ NoDup(c) /\ ToSet(b) \intersect ToSet(c) = {}
      /\ Len(b) \in Nat /\ Len(c) \in Nat
  BY QueueTypes, BatchFacts, BatchAssumption, LenProperties DEF QueuesOK
<1>3. Len(b) > 0
  <2>1. /\ Len(cmpQ) > 0 /\ Len(cmpQ) \in Nat /\ MaxBatch > 0 /\ MaxBatch \in Nat
        /\ \A i \in 1 .. Len(cmpQ) : cmpQ[i] \in Tags
    BY <1>1, QueueTypes, EmptyFacts, BatchAssumption, ElementOfSeq
  <2> DEFINE k == IF Len(cmpQ) < MaxBatch THEN Len(cmpQ) ELSE MaxBatch
  <2>2. k \in 1 .. Len(cmpQ)
    BY <2>1
  <2>3. b = SubSeq(cmpQ, 1, k)
    BY DEF Batch
  <2> HIDE DEF k
  <2>4. Len(SubSeq(cmpQ, 1, k)) = k
    BY <2>1, <2>2, SubSeqProperties
  <2> QED BY <2>2, <2>3, <2>4
<1>4. /\ rspQ' \in Seq(Tags) /\ Len(rspQ') = Len(rspQ) + Len(b)
      /\ ToSet(rspQ') = ToSet(rspQ) \union ToSet(b)
      /\ ToSet(rspQ) \intersect ToSet(b) = {} => NoDup(rspQ')
  BY <1>1, <1>2, QueueTypes, JoinFacts DEF QueuesOK
<1> HIDE DEF b, c
<1>5. Queued' = Queued
  BY <1>1, <1>2, <1>4 DEF Queued
<1>6. QueuesOK'
  BY <1>1, <1>2, <1>4 DEF QueuesOK
<1>7. IoRunningExact'
  <2>1. /\ io_running' = io_running /\ Len(reqQ') = Len(reqQ)
        /\ Len(cmpQ') = Len(c)
    BY <1>1
  <2>2. io_running' = Len(reqQ') + Len(cmpQ') + Len(rspQ')
    <3>1. io_running = Len(reqQ) + Len(cmpQ) + Len(rspQ)
      BY DEF IoRunningExact
    <3>2. Len(cmpQ') + Len(rspQ') = Len(cmpQ) + Len(rspQ)
      <4>1. Len(b) + Len(c) = Len(cmpQ) /\ Len(b) \in Nat /\ Len(c) \in Nat
        BY <1>2
      <4>2. Len(rspQ') = Len(rspQ) + Len(b) /\ Len(cmpQ') = Len(c)
        BY <1>4, <2>1
      <4>3. Len(rspQ) \in Nat
        BY QueueTypes
      <4> QED BY <4>1, <4>2, <4>3
    <3>3. Len(reqQ) \in Nat /\ Len(cmpQ) \in Nat /\ Len(rspQ) \in Nat
          /\ Len(cmpQ') \in Nat /\ Len(rspQ') \in Nat
      BY <1>2, <1>4, <2>1, QueueTypes
    <3> QED BY <2>1, <3>1, <3>2, <3>3
  <2> QED BY <2>2 DEF IoRunningExact
<1>8. Types'
  <2>1. [pc |-> "stamp", arr |-> b, sc |-> NoCmd, msgs |-> <<>>] \in Reader
    BY <1>2 DEF Reader
  <2>2. rd' \in [Readers -> Reader]
    BY <1>1, <2>1 DEF Types
  <2> QED BY <1>1, <1>2, <1>4, <2>2 DEF Types
<1>9. Threads'
  BY <1>1, <1>3, EmptyFacts DEF Threads, Types
<1>10. Places(lent)' /\ Owners' /\ Refs(lent)' /\ NoDoubleDone'
  BY <1>1, <1>5, MoveFrame
<1> QED BY <1>6, <1>7, <1>8, <1>9, <1>10

\* While a reader goes through its batch, the slot whose turn it is exists.
LEMMA StampingTag ==
    ASSUME NEW lent \in [Tags -> Nat], Inv(lent), NEW r \in Readers, rd[r].pc \in {"stamp", "fields"}
    PROVE  Stamping(r) \in Tags
<1>1. /\ rd[r].arr \in Seq(Tags) /\ Len(rd[r].msgs) < Len(rd[r].arr)
      /\ rd[r].msgs \in Seq([tag : Tags, sn : Nat, sc : Scs])
  BY DEF Inv, Types, Reader, Threads
<1>2. /\ Len(rd[r].msgs) \in Nat /\ Len(rd[r].arr) \in Nat
  BY <1>1, LenProperties
<1>3. Len(rd[r].msgs) + 1 \in 1 .. Len(rd[r].arr)
  BY <1>1, <1>2
<1> QED BY <1>1, <1>3, ElementOfSeq DEF Stamping

LEMMA StampBeginStep ==
    ASSUME NEW lent \in [Tags -> Nat], Inv(lent), NEW r \in Readers, StampBegin(r)
    PROVE  Inv(lent)'
<1> USE DEF Inv
<1>1. /\ rd[r].pc = "stamp" /\ Stamping(r) \in Tags
      /\ rd' = [rd EXCEPT ![r].pc = "fields", ![r].sc = scsi_cmd[Stamping(r)]]
      /\ stat' = [stat EXCEPT ![Stamping(r)] = "READ_COMP"]
      /\ UNCHANGED <<sn, scsi_cmd, refcnt, cmd_pool_bits, reqQ, cmpQ, rspQ,
                     cmd_sn, io_running, mid, dup, alloc, pc, tag, cur, msg,
                     stage, snap, user>>
  BY StampingTag DEF StampBegin, queueVars, workerVars
<1>2. Queued' = Queued /\ QueuesOK' /\ IoRunningExact'
  BY <1>1 DEF Queued, QueuesOK, IoRunningExact
<1>3. Types'
  <2> DEFINE x == scsi_cmd[Stamping(r)]
  <2>2. x \in Scs \union {NoCmd}
    BY <1>1 DEF Types
  <2> HIDE DEF x
  <2>3. rd' = [rd EXCEPT ![r].pc = "fields", ![r].sc = x]
    BY <1>1 DEF x
  <2>4. rd[r] \in Reader /\ rd \in [Readers -> Reader]
    BY DEF Types
  <2>1. rd' \in [Readers -> Reader]
    BY <2>2, <2>3, <2>4 DEF Reader
  <2> QED BY <1>1, <2>1 DEF Types
<1>4. Threads'
  BY <1>1 DEF Threads, Types, Reader
<1>5. Places(lent)' /\ Owners' /\ Refs(lent)' /\ NoDoubleDone'
  BY <1>1, <1>2, MoveFrame
<1> QED BY <1>2, <1>3, <1>4, <1>5

LEMMA StampFieldsStep ==
    ASSUME NEW lent \in [Tags -> Nat], Inv(lent), NEW r \in Readers, StampFields(r)
    PROVE  Inv(lent)'
<1> USE DEF Inv
<1> DEFINE m == [tag |-> Stamping(r), sn |-> sn[Stamping(r)], sc |-> rd[r].sc]
           ms == Append(rd[r].msgs, m)
           M == [tag : Tags, sn : Nat, sc : Scs]
<1>1. /\ rd[r].pc = "fields" /\ rd[r].sc # NoCmd /\ Stamping(r) \in Tags
      /\ rd' = [rd EXCEPT ![r].msgs = ms, ![r].sc = NoCmd,
                          ![r].pc = IF Len(ms) < Len(rd[r].arr)
                                    THEN "stamp" ELSE "deliver"]
      /\ UNCHANGED <<stat, sn, scsi_cmd, refcnt, cmd_pool_bits, reqQ, cmpQ,
                     rspQ, cmd_sn, io_running, mid, dup, alloc, pc, tag, cur,
                     msg, stage, snap, user>>
  BY StampingTag DEF StampFields, queueVars, slotVars, workerVars
<1>2. Queued' = Queued /\ QueuesOK' /\ IoRunningExact'
  BY <1>1 DEF Queued, QueuesOK, IoRunningExact
<1>3. ms \in Seq(M)
  <2>1. m \in M
    BY <1>1 DEF Types, Reader
  <2>2. rd[r].msgs \in Seq(M)
    BY DEF Types, Reader
  <2> QED BY <2>1, <2>2, AppendProperties
<1> HIDE DEF ms
<1>4. Types'
  <2>1. rd' \in [Readers -> Reader]
    BY <1>1, <1>3 DEF Types, Reader
  <2> QED BY <1>1, <2>1 DEF Types
<1>5. Threads'
  <2>1. rd'[r].pc = "stamp" => Len(rd'[r].msgs) < Len(rd'[r].arr)
    BY <1>1 DEF Types, Reader
  <2>2. rd'[r].pc # "fields" /\ \A q \in Readers : q # r => rd'[q] = rd[q]
    BY <1>1 DEF Types, Reader
  <2> QED BY <1>1, <2>1, <2>2 DEF Threads
<1>6. Places(lent)' /\ Owners' /\ Refs(lent)' /\ NoDoubleDone'
  BY <1>1, <1>2, MoveFrame
<1> QED BY <1>2, <1>4, <1>5, <1>6

LEMMA ReadDeliverStep ==
    ASSUME NEW lent \in [Tags -> Nat], Inv(lent), NEW r \in Readers, ReadDeliver(r)
    PROVE  Inv(lent)'
<1> USE DEF Inv
<1>1. /\ user' = user \union ToSet(rd[r].msgs)
      /\ rd' = [rd EXCEPT ![r] = IdleReader]
      /\ UNCHANGED <<stat, sn, scsi_cmd, refcnt, cmd_pool_bits, reqQ, cmpQ,
                     rspQ, cmd_sn, io_running, mid, dup, alloc, pc, tag, cur,
                     msg, stage, snap>>
  BY DEF ReadDeliver, queueVars, slotVars, workerVars
<1>2. Queued' = Queued /\ QueuesOK' /\ IoRunningExact'
  BY <1>1 DEF Queued, QueuesOK, IoRunningExact
<1>3. Types'
  <2>1. rd[r].msgs \in Seq([tag : Tags, sn : Nat, sc : Scs])
    BY DEF Types, Reader
  <2>2. ToSet(rd[r].msgs) \subseteq [tag : Tags, sn : Nat, sc : Scs]
    <3> DEFINE M == [tag : Tags, sn : Nat, sc : Scs]
               q == rd[r].msgs
    <3>1. q \in Seq(M)
      BY <2>1
    <3> HIDE DEF M, q
    <3>2. ToSet(q) \subseteq M
      BY <3>1, LenProperties DEF ToSet
    <3> QED BY <3>2 DEF M, q
  <2>3. IdleReader \in Reader
    BY DEF IdleReader, Reader
  <2>4. rd' \in [Readers -> Reader]
    BY <1>1, <2>3 DEF Types
  <2>5. user' \subseteq [tag : Tags, sn : Nat, sc : Scs]
    BY <1>1, <2>2 DEF Types
  <2> QED BY <1>1, <2>4, <2>5 DEF Types
<1>4. Threads'
  BY <1>1 DEF Threads, Types, IdleReader
<1>5. Places(lent)' /\ Owners' /\ Refs(lent)' /\ NoDoubleDone'
  BY <1>1, <1>2, MoveFrame
<1> QED BY <1>2, <1>3, <1>4, <1>5

-----------------------------------------------------------------------------

\* A thread unlinks a live slot to complete its command.
LEMMA UnlinkFrame ==
    ASSUME NEW lent \in [Tags -> Nat], Inv(lent), NEW a \in Workers,
           NEW t \in Queued, NEW p \in {"done", "popped"},
           pc[a] = "idle", RemoveQ(t), IoStops,
           pc' = [pc EXCEPT ![a] = p], tag' = [tag EXCEPT ![a] = t],
           UNCHANGED <<scsi_cmd, refcnt, cmd_pool_bits, mid, dup, alloc>>
    PROVE  /\ reqQ' \in Seq(Tags) /\ cmpQ' \in Seq(Tags) /\ rspQ' \in Seq(Tags)
           /\ io_running' \in Nat
           /\ QueuesOK' /\ Places(lent)' /\ Owners' /\ Refs(lent)' /\ NoDoubleDone'
           /\ IoRunningExact'
<1> USE DEF Inv
<1>1. /\ reqQ' \in Seq(Tags) /\ cmpQ' \in Seq(Tags) /\ rspQ' \in Seq(Tags)
      /\ QueuesOK' /\ Queued' = Queued \ {t}
      /\ Len(reqQ') + Len(cmpQ') + Len(rspQ')
           = Len(reqQ) + Len(cmpQ) + Len(rspQ) - 1
      /\ Len(reqQ') + Len(cmpQ') + Len(rspQ') \in Nat
  BY RemoveQFacts
<1>2. io_running' = Len(reqQ') + Len(cmpQ') + Len(rspQ')
  <2>1. io_running' = Len(reqQ) + Len(cmpQ) + Len(rspQ) - 1
    BY DEF IoStops, IoRunningExact
  <2> QED BY <1>1, <2>1
<1>3. /\ t \in Tags /\ t # NoTag /\ tag[a] = NoTag
      /\ pc \in [Workers -> {"idle", "copy", "done", "popped", "put"}]
      /\ tag \in [Workers -> Tags \union {NoTag}]
  <2>1. Queued \subseteq Tags
    BY QueueTypes
  <2> QED BY <2>1, PoolAssumption DEF Types, Threads
<1>4. /\ t \in cmd_pool_bits
      /\ \A b \in Workers : tag[b] # t
      /\ \A s \in Scs : alloc[s] # t
  BY <1>3, PoolAssumption DEF Places, QueuedTaken, TagTaken, AllocTaken
<1>5. Live' = Live
  <2>1. ASSUME NEW u \in Live PROVE u \in Live'
    <3>1. CASE u = t
      BY <1>3, <3>1 DEF Live, Closing
    <3>2. CASE u \in Queued /\ u # t
      BY <1>1, <3>2 DEF Live
    <3>3. CASE u \notin Queued
      <4>1. PICK b \in Workers : pc[b] \in {"done", "popped"} /\ tag[b] = u
        BY <3>3, LiveMember
      <4>2. pc'[b] = pc[b] /\ tag'[b] = tag[b]
        BY <1>3, <4>1
      <4> QED BY <4>1, <4>2 DEF Live, Closing
    <3> QED BY <3>1, <3>2, <3>3
  <2>2. ASSUME NEW u \in Live' PROVE u \in Live
    BY <1>1, <1>3 DEF Live, Closing
  <2> QED BY <2>1, <2>2
<1>9. \A u \in Tags : Owned(u)' <=> Owned(u)
  <2>1. \A u \in Tags : (\E b \in Workers : tag'[b] = u)
                       <=> u = t \/ \E b \in Workers : tag[b] = u
    BY <1>3, PoolAssumption
  <2> QED BY <1>1, <2>1 DEF Owned
<1>6. Places(lent)'
  <2>1. QueuedTaken' /\ AllocTaken' /\ AllocOnce'
    BY <1>1 DEF Places, QueuedTaken, AllocTaken, AllocOnce
  <2>2. TagTaken' /\ TagOnce'
    BY <1>1, <1>3, <1>4 DEF Places, TagTaken, TagOnce
  <2>3. TakenSomewhere(lent)'
    BY <1>9 DEF Types, Places, TakenSomewhere
  <2> QED BY <2>1, <2>2, <2>3 DEF Places
<1>7. Owners'
  BY <1>5 DEF Owners, LiveOwned, LiveOnce, AllocOwned, DriverHeld
<1>8. Refs(lent)'
  <2>1. \A m \in Drainers : pc'[m] = "put" <=> pc[m] = "put"
    BY <1>3 DEF Workers
  <2>2. \A m \in Drainers : pc[m] = "put" => tag'[m] = tag[m]
    BY <1>3 DEF Workers
  <2> QED BY <1>9, <2>1, <2>2 DEF Refs
<1> QED BY <1>1, <1>2, <1>6, <1>7, <1>8 DEF IoRunningExact, NoDoubleDone

\* The thread completes the command of the slot it unlinked: the midlayer did not
\* have it back, so that the completion is the only one.
LEMMA DoneFrame ==
    ASSUME NEW lent \in [Tags -> Nat], Inv(lent), NEW a \in Workers,
           pc[a] \in {"done", "popped"}, pc' = [pc EXCEPT ![a] = "put"], ScsiDone(scsi_cmd[tag[a]]),
           UNCHANGED <<reqQ, cmpQ, rspQ, scsi_cmd, cmd_pool_bits, alloc, tag,
                       io_running>>
    PROVE  /\ mid' \in [Scs -> {"idle", "driver", "late"}]
           /\ QueuesOK' /\ Places(lent)' /\ Owners' /\ NoDoubleDone'
           /\ IoRunningExact'
<1> USE DEF Inv
<1> DEFINE t == tag[a]
           s == scsi_cmd[t]
<1>1. /\ t # NoTag /\ t \in Live /\ t \notin Queued
      /\ pc \in [Workers -> {"idle", "copy", "done", "popped", "put"}]
  BY LiveMember DEF Threads, Types, Places, TagTaken
<1>2. s \in Scs /\ mid[s] # "idle"
  BY <1>1 DEF Owners, LiveOwned
<1>3. /\ dup' = dup /\ mid' \in [Scs -> {"idle", "driver", "late"}]
      /\ mid'[s] # "driver" /\ \A z \in Scs : z # s => mid'[z] = mid[z]
  <2>1. /\ mid' = [mid EXCEPT ![s] = IF @ = "late" THEN "late" ELSE "idle"]
        /\ mid \in [Scs -> {"idle", "driver", "late"}] /\ dup' = dup
    BY <1>2 DEF ScsiDone, Types
  <2> QED BY <1>2, <2>1
<1>4. Queued' = Queued /\ QueuesOK' /\ IoRunningExact' /\ NoDoubleDone'
  BY <1>3 DEF Queued, QueuesOK, IoRunningExact, NoDoubleDone
<1>5. Live' = Live \ {t}
  <2>1. ASSUME NEW u \in Live, u # t PROVE u \in Live'
    <3>1. CASE u \in Queued
      BY <1>4, <3>1 DEF Live
    <3>2. CASE u \notin Queued
      <4>1. PICK b \in Workers : pc[b] \in {"done", "popped"} /\ tag[b] = u
        BY <3>2, LiveMember
      <4>2. pc'[b] = pc[b] /\ tag'[b] = u
        BY <1>1, <2>1, <4>1
      <4> QED BY <4>1, <4>2 DEF Live, Closing
    <3> QED BY <3>1, <3>2
  <2>2. ASSUME NEW u \in Live' PROVE u \in Live /\ u # t
    <3>1. CASE u \in Queued
      BY <1>1, <3>1 DEF Live
    <3>2. CASE u \notin Queued
      <4>1. PICK b \in Workers : pc'[b] \in {"done", "popped"} /\ tag[b] = u
        BY <1>4, <2>2, <3>2 DEF Live, Closing
      <4>2. b # a /\ pc'[b] = pc[b]
        BY <1>1, <4>1
      <4>3. u # t
        BY <1>1, <4>1, <4>2 DEF Places, TagOnce
      <4> QED BY <4>1, <4>2, <4>3, LiveMember
    <3> QED BY <3>1, <3>2
  <2> QED BY <2>1, <2>2
<1>6. Places(lent)'
  BY <1>4 DEF Places, QueuedTaken, AllocTaken, AllocOnce, TagTaken, TagOnce,
              TakenSomewhere, Owned
<1>7. Owners'
  <2>1. LiveOwned'
    BY <1>1, <1>2, <1>3, <1>5 DEF Owners, LiveOwned, LiveOnce
  <2>2. LiveOnce'
    BY <1>5 DEF Owners, LiveOnce
  <2>3. AllocOwned'
    BY <1>1, <1>2, <1>3, <1>5 DEF Owners, AllocOwned
  <2>4. DriverHeld'
    <3> SUFFICES ASSUME NEW z \in Scs, mid'[z] = "driver", alloc[z] = NoTag
                 PROVE  \E u \in Live' : scsi_cmd[u] = z
      BY DEF DriverHeld
    <3>1. z # s /\ mid[z] = "driver"
      BY <1>2, <1>3
    <3>2. PICK u \in Live : scsi_cmd[u] = z
      BY <3>1 DEF Owners, DriverHeld
    <3>3. u # t
      BY <3>1, <3>2
    <3> QED BY <1>5, <3>2, <3>3
  <2> QED BY <2>1, <2>2, <2>3, <2>4 DEF Owners
<1> QED BY <1>3, <1>4, <1>6, <1>7

\* The thread drops the last references to the slot it completed.
LEMMA PutFrame ==
    ASSUME NEW lent \in [Tags -> Nat], Inv(lent), NEW a \in Workers,
           NEW n \in {1, 2}, pc[a] = "put",
           refcnt[tag[a]] = lent[tag[a]] + n, CmdPut(tag[a], n),
           pc' = [pc EXCEPT ![a] = "idle"], tag' = [tag EXCEPT ![a] = NoTag],
           UNCHANGED <<reqQ, cmpQ, rspQ, scsi_cmd, mid, dup, alloc, io_running>>
    PROVE  /\ refcnt' \in [Tags -> Nat] /\ cmd_pool_bits' \subseteq Tags
           /\ QueuesOK' /\ Places(lent)' /\ Owners' /\ Refs(lent)' /\ NoDoubleDone'
           /\ IoRunningExact'
<1> USE DEF Inv
<1> DEFINE t == tag[a]
<1>1. /\ t # NoTag /\ t \in Tags /\ t \in cmd_pool_bits /\ t \notin Queued
      /\ cmd_pool_bits \subseteq Tags
      /\ refcnt \in [Tags -> Nat]
      /\ pc \in [Workers -> {"idle", "copy", "done", "popped", "put"}]
      /\ tag \in [Workers -> Tags \union {NoTag}]
  BY DEF Threads, Types, Places, TagTaken
<1>2. /\ refcnt' = [refcnt EXCEPT ![t] = @ - n]
      /\ cmd_pool_bits' = IF lent[t] = 0 THEN cmd_pool_bits \ {t} ELSE cmd_pool_bits
      /\ refcnt'[t] = lent[t] /\ lent[t] \in Nat
  BY <1>1 DEF CmdPut
<1>3. refcnt' \in [Tags -> Nat]
  <2>1. refcnt[t] - n \in Nat
    BY <1>1, <1>2
  <2> QED BY <1>1, <1>2, <2>1
<1>4. Queued' = Queued /\ QueuesOK' /\ IoRunningExact' /\ NoDoubleDone'
  BY DEF Queued, QueuesOK, IoRunningExact, NoDoubleDone
<1>5. Live' = Live
  <2>1. \A b \in Workers :
           pc'[b] \in {"done", "popped"} <=> pc[b] \in {"done", "popped"}
    BY <1>1
  <2>2. \A b \in Workers : pc[b] \in {"done", "popped"} => tag'[b] = tag[b]
    BY <1>1
  <2> QED BY <1>4, <2>1, <2>2 DEF Live, Closing
<1>b. \A b \in Workers, u \in Tags : tag'[b] = u <=> b # a /\ tag[b] = u
  BY <1>1, PoolAssumption
<1>9. \A u \in Tags : Owned(u)' <=> Owned(u) /\ u # t
  <2>1. \A b \in Workers : b # a => tag[b] # t
    BY <1>1 DEF Places, TagOnce
  <2>2. \A s \in Scs : alloc[s] # t
    BY <1>1 DEF Places, TagTaken
  <2>3. \A u \in Tags : (\E b \in Workers : tag'[b] = u)
                       <=> u # t /\ \E b \in Workers : tag[b] = u
    BY <1>1, <1>b, <2>1
  <2> QED BY <1>1, <1>4, <2>2, <2>3 DEF Owned
<1>a. \A u \in Tags : u # t => /\ u \in cmd_pool_bits' <=> u \in cmd_pool_bits
                              /\ refcnt'[u] = refcnt[u]
  BY <1>1, <1>2
<1>6. Places(lent)'
  <2>1. QueuedTaken'
    BY <1>1, <1>2, <1>4 DEF Places, QueuedTaken
  <2>2. AllocTaken' /\ AllocOnce'
    BY <1>1, <1>2, <1>4 DEF Places, AllocOnce, AllocTaken, TagTaken
  <2>3. TagTaken'
    BY <1>1, <1>2, <1>4 DEF Places, TagTaken, TagOnce
  <2>4. TagOnce'
    BY <1>1 DEF Places, TagOnce
  <2>5. TakenSomewhere(lent)'
    BY <1>1, <1>2, <1>9 DEF Places, TakenSomewhere
  <2> QED BY <2>1, <2>2, <2>3, <2>4, <2>5 DEF Places
<1>7. Owners'
  BY <1>5 DEF Owners, LiveOwned, LiveOnce, AllocOwned, DriverHeld
<1>8. Refs(lent)'
  <2>1. \A m \in Drainers : pc'[m] = "put" <=> m # a /\ pc[m] = "put"
    BY <1>1 DEF Workers
  <2>2. ASSUME NEW m \in Drainers, m # a, pc[m] = "put"
        PROVE  tag'[m] = tag[m] /\ tag[m] \in Tags /\ tag[m] # t
    BY <1>1, <2>2 DEF Workers, Threads, Types, Places, TagOnce
  <2>3. ASSUME NEW u \in Tags, Owned(u)',
               \A m \in Drainers : pc'[m] = "put" => tag'[m] # u
        PROVE  refcnt'[u] = lent[u] + 1
    <3>1. Owned(u) /\ u # t /\ \A m \in Drainers : pc[m] = "put" => tag[m] # u
      BY <1>9, <2>1, <2>2, <2>3
    <3> QED BY <1>a, <3>1 DEF Refs
  <2>4. ASSUME NEW m \in Drainers, pc'[m] = "put"
        PROVE  refcnt'[tag'[m]] = lent[tag'[m]] + 2
    <3>1. m # a /\ pc[m] = "put" /\ tag'[m] = tag[m] /\ tag[m] \in Tags /\ tag[m] # t
      BY <2>1, <2>2, <2>4
    <3>2. refcnt[tag[m]] = lent[tag[m]] + 2
      BY <3>1 DEF Refs
    <3> QED BY <1>a, <3>1, <3>2
  <2>5. ASSUME NEW u \in Tags, lent[u] > 0
        PROVE  u \in cmd_pool_bits' /\ (Owned(u)' \/ refcnt'[u] = lent[u])
    <3>1. u \in cmd_pool_bits /\ (Owned(u) \/ refcnt[u] = lent[u])
      BY <2>5 DEF Refs
    <3>2. CASE u = t
      BY <1>1, <1>2, <2>5, <3>1, <3>2
    <3>3. CASE u # t
      BY <1>9, <1>a, <3>1, <3>3
    <3> QED BY <3>2, <3>3
  <2> QED BY <2>3, <2>4, <2>5 DEF Refs
<1> QED BY <1>1, <1>2, <1>3, <1>4, <1>6, <1>7, <1>8

-----------------------------------------------------------------------------

\* A message the target holds names a slot, a serial number and a command.
LEMMA UserMessage ==
    ASSUME Types, NEW m \in user
    PROVE  m.tag \in Tags /\ m \in [tag : Tags \union {NoTag}, sn : Nat,
                                    sc : Scs \union {NoCmd}]
  BY DEF Types

LEMMA DataFindStep ==
    ASSUME NEW lent \in [Tags -> Nat], Inv(lent), NEW w \in Writers, NEW m \in user, DataFind(w, m)
    PROVE  Inv(lent)'
<1> USE DEF Inv
<1>1. /\ w \in Workers /\ pc[w] = "idle"
      /\ pc' = [pc EXCEPT ![w] = "copy"]
      /\ cur' = [cur EXCEPT ![w] = scsi_cmd[m.tag]]
      /\ msg' = [msg EXCEPT ![w] = m]
      /\ UNCHANGED <<stat, sn, scsi_cmd, refcnt, cmd_pool_bits, reqQ, cmpQ,
                     rspQ, cmd_sn, io_running, mid, dup, alloc, rd, tag,
                     stage, snap, user>>
  BY DEF DataFind, Workers, queueVars, slotVars
<1>2. Queued' = Queued /\ QueuesOK' /\ IoRunningExact'
  BY <1>1 DEF Queued, QueuesOK, IoRunningExact
<1>3. Types'
  BY <1>1, UserMessage DEF Types
<1>4. Threads'
  BY <1>1, ThreadAssumption DEF Threads, Types, Workers
<1>5. Places(lent)' /\ Owners' /\ Refs(lent)' /\ NoDoubleDone'
  <2>1. \A a \in Workers : pc'[a] = pc[a] \/ /\ a \in Writers
                                             /\ pc[a] \in {"idle", "copy"}
                                             /\ pc'[a] \in {"idle", "copy"}
    BY <1>1 DEF Types
  <2> QED BY <1>1, <1>2, <2>1, MoveFrame
<1> QED BY <1>2, <1>3, <1>4, <1>5

LEMMA DataCopyStep ==
    ASSUME NEW lent \in [Tags -> Nat], Inv(lent), NEW w \in Writers, DataCopy(w)
    PROVE  Inv(lent)'
<1> USE DEF Inv
<1>1. /\ w \in Workers /\ pc[w] = "copy"
      /\ pc' = [pc EXCEPT ![w] = "idle"]
      /\ cur' = [cur EXCEPT ![w] = NoCmd]
      /\ msg' = [msg EXCEPT ![w] = NoMsg]
      /\ UNCHANGED <<stat, sn, scsi_cmd, refcnt, cmd_pool_bits, reqQ, cmpQ,
                     rspQ, cmd_sn, io_running, mid, dup, alloc, rd, tag,
                     stage, snap, user>>
  BY DEF DataCopy, Workers, queueVars, slotVars
<1>2. Queued' = Queued /\ QueuesOK' /\ IoRunningExact'
  BY <1>1 DEF Queued, QueuesOK, IoRunningExact
<1>3. Types'
  BY <1>1 DEF Types, NoMsg
<1>4. Threads'
  BY <1>1, ThreadAssumption DEF Threads, Types, Workers
<1>5. Places(lent)' /\ Owners' /\ Refs(lent)' /\ NoDoubleDone'
  <2>1. \A a \in Workers : pc'[a] = pc[a] \/ /\ a \in Writers
                                             /\ pc[a] \in {"idle", "copy"}
                                             /\ pc'[a] \in {"idle", "copy"}
    BY <1>1 DEF Types
  <2> QED BY <1>1, <1>2, <2>1, MoveFrame
<1> QED BY <1>2, <1>3, <1>4, <1>5

LEMMA RespondTakeStep ==
    ASSUME NEW lent \in [Tags -> Nat], Inv(lent), NEW w \in Writers, NEW m \in user, RespondTake(w, m)
    PROVE  Inv(lent)'
<1> USE DEF Inv
<1>1. /\ w \in Workers /\ pc[w] = "idle" /\ m.tag \in Queued /\ m.tag \in Tags
      /\ RemoveQ(m.tag) /\ IoStops
      /\ stat' = [stat EXCEPT ![m.tag] = "RESP"]
      /\ pc' = [pc EXCEPT ![w] = "done"]
      /\ tag' = [tag EXCEPT ![w] = m.tag]
      /\ cur' = [cur EXCEPT ![w] = scsi_cmd[m.tag]]
      /\ msg' = [msg EXCEPT ![w] = m]
      /\ UNCHANGED <<sn, scsi_cmd, refcnt, cmd_pool_bits, cmd_sn, mid, dup,
                     alloc, rd, stage, snap, user>>
  BY UserMessage DEF RespondTake, Answerable, Workers
<1>2. /\ reqQ' \in Seq(Tags) /\ cmpQ' \in Seq(Tags) /\ rspQ' \in Seq(Tags)
      /\ io_running' \in Nat
      /\ QueuesOK' /\ Places(lent)' /\ Owners' /\ Refs(lent)' /\ NoDoubleDone'
      /\ IoRunningExact'
  BY <1>1, UnlinkFrame
<1>3. Types'
  <2>1. m \in [tag : Tags \union {NoTag}, sn : Nat, sc : Scs \union {NoCmd}]
    BY UserMessage
  <2>2. msg' \in [Writers -> [tag : Tags \union {NoTag}, sn : Nat,
                              sc : Scs \union {NoCmd}]]
    BY <1>1, <2>1 DEF Types
  <2> QED BY <1>1, <1>2, <2>2 DEF Types
<1>4. Threads'
  BY <1>1, ThreadAssumption, PoolAssumption DEF Threads, Types, Workers
<1> QED BY <1>2, <1>3, <1>4

LEMMA RespondDoneStep ==
    ASSUME NEW lent \in [Tags -> Nat], Inv(lent), NEW w \in Writers, RespondDone(w)
    PROVE  Inv(lent)'
<1> USE DEF Inv
<1>1. /\ w \in Workers /\ pc[w] = "done"
      /\ ScsiDone(cur[w])
      /\ pc' = [pc EXCEPT ![w] = "put"]
      /\ UNCHANGED <<stat, sn, scsi_cmd, refcnt, cmd_pool_bits, reqQ, cmpQ,
                     rspQ, cmd_sn, io_running, alloc, rd, tag, cur, msg,
                     stage, snap, user>>
  BY DEF RespondDone, Workers, queueVars, slotVars
<1>2. /\ mid' \in [Scs -> {"idle", "driver", "late"}]
      /\ QueuesOK' /\ Places(lent)' /\ Owners' /\ NoDoubleDone' /\ IoRunningExact'
  BY <1>1, DoneFrame DEF Threads
<1>3. Refs(lent)'
  <2>1. \A t \in Tags : Owned(t)' <=> Owned(t)
    BY <1>1 DEF Owned, Queued
  <2>2. \A m \in Drainers : pc'[m] = pc[m]
    BY <1>1, ThreadAssumption DEF Types, Workers
  <2> QED BY <1>1, <2>1, <2>2 DEF Refs
<1>4. Types'
  BY <1>1, <1>2 DEF Types, NoDoubleDone
<1>5. Threads'
  BY <1>1, ThreadAssumption DEF Threads, Types, Workers
<1> QED BY <1>2, <1>3, <1>4, <1>5

LEMMA RespondPutStep ==
    ASSUME NEW lent \in [Tags -> Nat], Inv(lent), NEW w \in Writers, RespondPut(w)
    PROVE  Inv(lent)'
<1> USE DEF Inv
<1>1. /\ w \in Workers /\ pc[w] = "put"
      /\ CmdPut(tag[w], 1)
      /\ pc' = [pc EXCEPT ![w] = "idle"]
      /\ tag' = [tag EXCEPT ![w] = NoTag]
      /\ cur' = [cur EXCEPT ![w] = NoCmd]
      /\ msg' = [msg EXCEPT ![w] = NoMsg]
      /\ UNCHANGED <<stat, sn, scsi_cmd, reqQ, cmpQ, rspQ, cmd_sn, io_running,
                     mid, dup, alloc, rd, stage, snap, user>>
  BY DEF RespondPut, Workers, queueVars
<1>2. refcnt[tag[w]] = lent[tag[w]] + 1
  <2>1. tag[w] # NoTag /\ tag[w] \in Tags /\ Owned(tag[w])
    BY <1>1 DEF Threads, Types, Owned
  <2>2. \A m \in Drainers : tag[m] # tag[w]
    BY <1>1, <2>1, ThreadAssumption DEF Places, TagOnce, Workers
  <2> QED BY <2>1, <2>2 DEF Refs
<1>3. /\ refcnt' \in [Tags -> Nat] /\ cmd_pool_bits' \subseteq Tags
      /\ QueuesOK' /\ Places(lent)' /\ Owners' /\ Refs(lent)' /\ NoDoubleDone'
      /\ IoRunningExact'
  BY <1>1, <1>2, PutFrame
<1>4. Types'
  BY <1>1, <1>3 DEF Types, NoMsg
<1>5. Threads'
  BY <1>1, ThreadAssumption DEF Threads, Types, Workers
<1> QED BY <1>3, <1>4, <1>5

-----------------------------------------------------------------------------

LEMMA DrainStartStep ==
    ASSUME NEW lent \in [Tags -> Nat], Inv(lent), NEW m \in Drainers, DrainStart(m)
    PROVE  Inv(lent)'
<1> USE DEF Inv
<1>1. /\ stage' = [stage EXCEPT ![m] = "reqQ"]
      /\ snap' = [snap EXCEPT ![m] = {sn[t] : t \in Queued}]
      /\ UNCHANGED <<stat, sn, scsi_cmd, refcnt, cmd_pool_bits, reqQ, cmpQ,
                     rspQ, cmd_sn, io_running, mid, dup, alloc, rd, pc, tag,
                     cur, msg, user>>
  BY DEF DrainStart, queueVars, slotVars
<1>2. Queued' = Queued /\ QueuesOK' /\ IoRunningExact'
  BY <1>1 DEF Queued, QueuesOK, IoRunningExact
<1>3. Types'
  <2>1. {sn[t] : t \in Queued} \in SUBSET Nat
    BY QueueTypes DEF Types
  <2> QED BY <1>1, <2>1 DEF Types
<1>4. Threads'
  BY <1>1 DEF Threads
<1>5. Places(lent)' /\ Owners' /\ Refs(lent)' /\ NoDoubleDone'
  BY <1>1, <1>2, MoveFrame
<1> QED BY <1>2, <1>3, <1>4, <1>5

\* The slot a drain takes is linked.
LEMMA PoppedLinked ==
    ASSUME Types, NEW m \in Drainers, stage[m] # "off", StageQueue(m) # <<>>
    PROVE  Head(StageQueue(m)) \in Queued
<1>1. stage[m] \in {"reqQ", "cmpQ", "rspQ"}
  BY DEF Types
<1>2. StageQueue(m) \in {reqQ, cmpQ, rspQ}
  BY <1>1 DEF StageQueue
<1>3. StageQueue(m) \in Seq(Tags)
  BY <1>2, QueueTypes
<1>4. Head(StageQueue(m)) \in ToSet(StageQueue(m))
  BY <1>3, TailFacts
<1> QED BY <1>2, <1>4 DEF Queued

LEMMA DrainPopStep ==
    ASSUME NEW lent \in [Tags -> Nat], Inv(lent), NEW m \in Drainers, DrainPop(m)
    PROVE  Inv(lent)'
<1> USE DEF Inv
<1> DEFINE t == Head(StageQueue(m))
<1>1. /\ m \in Workers /\ pc[m] = "idle" /\ StageQueue(m) # <<>>
      /\ stage[m] \in {"reqQ", "cmpQ", "rspQ"}
      /\ RemoveQ(t) /\ IoStops
      /\ pc' = [pc EXCEPT ![m] = "popped"]
      /\ tag' = [tag EXCEPT ![m] = t]
      /\ UNCHANGED <<stat, sn, scsi_cmd, refcnt, cmd_pool_bits, cmd_sn, mid,
                     dup, alloc, rd, cur, msg, stage, snap, user>>
  BY DEF DrainPop, Workers, slotVars, Types
<1>2. t \in Queued /\ t \in Tags
  BY <1>1, PoppedLinked, QueueTypes
<1> HIDE DEF t
<1>3. /\ reqQ' \in Seq(Tags) /\ cmpQ' \in Seq(Tags) /\ rspQ' \in Seq(Tags)
      /\ io_running' \in Nat
      /\ QueuesOK' /\ Places(lent)' /\ Owners' /\ Refs(lent)' /\ NoDoubleDone'
      /\ IoRunningExact'
  BY <1>1, <1>2, UnlinkFrame
<1>4. Types'
  BY <1>1, <1>2, <1>3 DEF Types
<1>5. Threads'
  BY <1>1, <1>2, ThreadAssumption, PoolAssumption DEF Threads, Types, Workers
<1> QED BY <1>3, <1>4, <1>5

LEMMA DrainDoneStep ==
    ASSUME NEW lent \in [Tags -> Nat], Inv(lent), NEW m \in Drainers, DrainDone(m)
    PROVE  Inv(lent)'
<1> USE DEF Inv
<1>1. /\ m \in Workers /\ pc[m] = "popped"
      /\ refcnt' = [refcnt EXCEPT ![tag[m]] = @ + 1]
      /\ pc' = [pc EXCEPT ![m] = "put"]
      /\ UNCHANGED <<stat, sn, scsi_cmd, cmd_pool_bits, reqQ, cmpQ, rspQ,
                     cmd_sn, io_running, alloc, rd, tag, cur, msg, stage,
                     snap, user>>
  BY DEF DrainDone, Workers, queueVars
<1>2. tag[m] # NoTag /\ tag[m] \in Tags /\ tag[m] \in cmd_pool_bits
  BY <1>1 DEF Threads, Places, TagTaken, Types
<1>3. scsi_cmd[tag[m]] # NoCmd
  BY <1>1, LiveMember, CmdAssumption DEF Owners, LiveOwned
<1>4. ScsiDone(scsi_cmd[tag[m]])
  BY <1>3 DEF DrainDone
<1>5. /\ mid' \in [Scs -> {"idle", "driver", "late"}]
      /\ QueuesOK' /\ Places(lent)' /\ Owners' /\ NoDoubleDone' /\ IoRunningExact'
  BY <1>1, <1>4, DoneFrame
<1>6. refcnt[tag[m]] = lent[tag[m]] + 1
  <2>1. \A d \in Drainers : pc[d] = "put" => tag[d] # tag[m]
    BY <1>1, <1>2 DEF Places, TagOnce, Workers
  <2> QED BY <1>1, <1>2, <2>1 DEF Refs, Owned
<1>7. Refs(lent)'
  <2> DEFINE t == tag[m]
  <2>1. /\ \A u \in Tags : Owned(u)' <=> Owned(u)
        /\ t \in Tags /\ Owned(t)
    BY <1>1, <1>2 DEF Owned, Queued
  <2>2. \A d \in Drainers : pc'[d] = "put" <=> d = m \/ pc[d] = "put"
    BY <1>1 DEF Types, Workers
  <2>3. refcnt'[t] = refcnt[t] + 1 /\ \A u \in Tags : u # t => refcnt'[u] = refcnt[u]
    BY <1>1, <2>1 DEF Types
  <2>4. ASSUME NEW d \in Drainers, d # m, pc[d] = "put"
        PROVE  tag[d] \in Tags /\ tag[d] # t
    BY <1>1, <2>4 DEF Workers, Threads, Types, Places, TagOnce
  <2> HIDE DEF t
  <2>5. lent[t] \in Nat /\ refcnt[t] = lent[t] + 1 /\ tag[m] = t
    BY <1>6, <2>1 DEF t
  <2>6. ASSUME NEW d \in Drainers, pc'[d] = "put"
        PROVE  refcnt'[tag'[d]] = lent[tag'[d]] + 2
    <3>1. CASE d = m
      BY <1>1, <2>3, <2>5, <3>1
    <3>2. CASE d # m
      BY <1>1, <2>2, <2>3, <2>4, <2>6, <3>2 DEF Refs
    <3> QED BY <3>1, <3>2
  <2>7. ASSUME NEW u \in Tags, Owned(u)',
               \A d \in Drainers : pc'[d] = "put" => tag'[d] # u
        PROVE  refcnt'[u] = lent[u] + 1
    <3>1. /\ Owned(u) /\ u # t
          /\ \A d \in Drainers : pc[d] = "put" => tag[d] # u
      BY <1>1, <2>1, <2>2, <2>5, <2>7
    <3> QED BY <2>3, <3>1 DEF Refs
  <2>8. ASSUME NEW u \in Tags, lent[u] > 0
        PROVE  u \in cmd_pool_bits' /\ (Owned(u)' \/ refcnt'[u] = lent[u])
    BY <1>1, <2>1, <2>3, <2>8 DEF Refs
  <2> QED BY <2>6, <2>7, <2>8 DEF Refs
<1>8. Types'
  BY <1>1, <1>2, <1>5 DEF Types, NoDoubleDone
<1>9. Threads'
  BY <1>1, ThreadAssumption DEF Threads, Types, Workers
<1> QED BY <1>5, <1>7, <1>8, <1>9

LEMMA DrainPutStep ==
    ASSUME NEW lent \in [Tags -> Nat], Inv(lent), NEW m \in Drainers, DrainPut(m)
    PROVE  Inv(lent)'
<1> USE DEF Inv
<1>1. /\ m \in Workers /\ pc[m] = "put"
      /\ CmdPut(tag[m], 2)
      /\ pc' = [pc EXCEPT ![m] = "idle"]
      /\ tag' = [tag EXCEPT ![m] = NoTag]
      /\ UNCHANGED <<stat, sn, scsi_cmd, reqQ, cmpQ, rspQ, cmd_sn, io_running,
                     mid, dup, alloc, rd, cur, msg, stage, snap, user>>
  BY DEF DrainPut, Workers, queueVars
<1>2. refcnt[tag[m]] = lent[tag[m]] + 2
  BY <1>1 DEF Refs
<1>3. /\ refcnt' \in [Tags -> Nat] /\ cmd_pool_bits' \subseteq Tags
      /\ QueuesOK' /\ Places(lent)' /\ Owners' /\ Refs(lent)' /\ NoDoubleDone'
      /\ IoRunningExact'
  BY <1>1, <1>2, PutFrame
<1>4. Types'
  BY <1>1, <1>3 DEF Types
<1>5. Threads'
  BY <1>1, ThreadAssumption DEF Threads, Types, Workers
<1> QED BY <1>3, <1>4, <1>5

LEMMA DrainNextStep ==
    ASSUME NEW lent \in [Tags -> Nat], Inv(lent), NEW m \in Drainers, DrainNext(m)
    PROVE  Inv(lent)'
<1> USE DEF Inv
<1>1. /\ stage[m] \in {"reqQ", "cmpQ", "rspQ"}
      /\ stage' = [stage EXCEPT ![m] = NextStage(stage[m])]
      /\ UNCHANGED <<stat, sn, scsi_cmd, refcnt, cmd_pool_bits, reqQ, cmpQ,
                     rspQ, cmd_sn, io_running, mid, dup, alloc, rd, pc, tag,
                     cur, msg, snap, user>>
  BY DEF DrainNext, queueVars, slotVars, Types
<1>2. Queued' = Queued /\ QueuesOK' /\ IoRunningExact'
  BY <1>1 DEF Queued, QueuesOK, IoRunningExact
<1>3. Types'
  <2>1. NextStage(stage[m]) \in {"off", "cmpQ", "rspQ"}
    BY <1>1 DEF NextStage
  <2> QED BY <1>1, <2>1 DEF Types
<1>4. Threads'
  BY <1>1 DEF Threads
<1>5. Places(lent)' /\ Owners' /\ Refs(lent)' /\ NoDoubleDone'
  BY <1>1, <1>2, MoveFrame
<1> QED BY <1>2, <1>3, <1>4, <1>5

-----------------------------------------------------------------------------

\* copy_to_user fails: a batch whose slots are linked, each once, goes back to
\* the head of cmpQ.
LEMMA ReadFaultStep ==
    ASSUME NEW lent \in [Tags -> Nat], Inv(lent), NEW r \in Readers, ReadFault(r),
           ToSet(rd[r].arr) \subseteq Queued, NoDup(rd[r].arr)
    PROVE  Inv(lent)'
<1> USE DEF Inv
<1> DEFINE arr == rd[r].arr
           A   == ToSet(arr)
           p   == DelAll(reqQ, A)
           q   == DelAll(cmpQ, A)
           z   == DelAll(rspQ, A)
<1>1. /\ reqQ' = p /\ rspQ' = z /\ cmpQ' = Reverse(arr) \o q
      /\ stat' = [t \in Tags |-> IF On(t, arr) THEN "REQUEST" ELSE stat[t]]
      /\ rd' = [rd EXCEPT ![r] = IdleReader]
      /\ UNCHANGED <<sn, scsi_cmd, refcnt, cmd_pool_bits, cmd_sn, io_running,
                     mid, dup, alloc, pc, tag, cur, msg, stage, snap, user>>
  BY DEF ReadFault, workerVars
<1>2. arr \in Seq(Tags) /\ A \subseteq Queued /\ NoDup(arr)
  BY DEF Types, Reader
<1>3. /\ reqQ \in Seq(Tags) /\ cmpQ \in Seq(Tags) /\ rspQ \in Seq(Tags)
      /\ NoDup(reqQ) /\ NoDup(cmpQ) /\ NoDup(rspQ)
  BY QueueTypes DEF QueuesOK
<1>4. /\ p \in Seq(Tags) /\ q \in Seq(Tags) /\ z \in Seq(Tags)
      /\ ToSet(p) = ToSet(reqQ) \ A /\ NoDup(p)
      /\ ToSet(q) = ToSet(cmpQ) \ A /\ NoDup(q)
      /\ ToSet(z) = ToSet(rspQ) \ A /\ NoDup(z)
  BY <1>3, DelAllFacts
<1>5. /\ Reverse(arr) \in Seq(Tags) /\ ToSet(Reverse(arr)) = A
      /\ NoDup(Reverse(arr))
  BY <1>2, ReverseFacts
<1> HIDE DEF arr, A, p, q, z
<1>6. /\ cmpQ' \in Seq(Tags) /\ ToSet(cmpQ') = A \union ToSet(q)
      /\ NoDup(cmpQ')
  <2>1. A \intersect ToSet(q) = {}
    BY <1>4
  <2> QED BY <1>1, <1>4, <1>5, <2>1, JoinFacts
<1>7. Queued' = Queued /\ QueuesOK'
  <2>1. Queued' = Queued
    BY <1>1, <1>2, <1>4, <1>6 DEF Queued
  <2>2. QueuesOK'
    BY <1>1, <1>4, <1>6 DEF QueuesOK
  <2> QED BY <2>1, <2>2
<1>8. IoRunningExact'
  <2>1. reqQ' \in Seq(Tags) /\ rspQ' \in Seq(Tags)
    BY <1>1, <1>4
  <2>2. Len(reqQ') + Len(cmpQ') + Len(rspQ') = Cardinality(Queued')
    <3>1. /\ NoDup(reqQ') /\ NoDup(cmpQ') /\ NoDup(rspQ')
          /\ ToSet(reqQ') \intersect ToSet(cmpQ') = {}
          /\ ToSet(reqQ') \intersect ToSet(rspQ') = {}
          /\ ToSet(cmpQ') \intersect ToSet(rspQ') = {}
      BY <1>7 DEF QueuesOK
    <3> QED BY <1>6, <2>1, <3>1, QueuedCount DEF Queued
  <2>3. Len(reqQ) + Len(cmpQ) + Len(rspQ) = Cardinality(Queued)
    BY <1>3, QueuedCount DEF QueuesOK, Queued
  <2> QED BY <1>1, <1>7, <2>2, <2>3 DEF IoRunningExact
<1>9. Types'
  <2>1. IdleReader \in Reader
    BY DEF IdleReader, Reader
  <2>2. rd' \in [Readers -> Reader]
    BY <1>1, <2>1 DEF Types
  <2>3. stat' \in [Tags -> {"INIT", "REQUEST", "READ_COMP", "RESP"}]
    BY <1>1 DEF Types
  <2> QED BY <1>1, <1>4, <1>6, <2>2, <2>3 DEF Types
<1>10. Threads'
  BY <1>1 DEF Threads, Types, IdleReader
<1>11. Places(lent)' /\ Owners' /\ Refs(lent)' /\ NoDoubleDone'
  BY <1>1, <1>7, MoveFrame
<1> QED BY <1>7, <1>8, <1>9, <1>10, <1>11

\* The invariant is inductive, a copy_to_user that fails in read() apart.
LEMMA NextStep ==
    ASSUME NEW lent \in [Tags -> Nat], Inv(lent), [Next]_vars,
           \A r \in Readers : ~ ReadFault(r)
    PROVE  Inv(lent)'
<1>1. ASSUME NEW s \in Scs, Queue(s) PROVE Inv(lent)'
  BY <1>1, QueueAllocStep, QueueEnqueueStep DEF Queue
<1>2. CASE StartIo
  BY <1>2, StartIoStep
<1>3. ASSUME NEW r \in Readers, Read(r) PROVE Inv(lent)'
  BY <1>3, ReadTakeStep, StampBeginStep, StampFieldsStep, ReadDeliverStep
  DEF Read
<1>4. ASSUME NEW w \in Writers, Write(w) PROVE Inv(lent)'
  BY <1>4, DataFindStep, DataCopyStep, RespondTakeStep, RespondDoneStep,
     RespondPutStep DEF Write
<1>5. ASSUME NEW m \in Drainers, Drain(m) PROVE Inv(lent)'
  BY <1>5, DrainStartStep, DrainPopStep, DrainDoneStep, DrainPutStep,
     DrainNextStep DEF Drain
<1>6. CASE UNCHANGED vars
  <2>1. /\ UNCHANGED <<stat, sn, scsi_cmd, refcnt, cmd_pool_bits, reqQ, cmpQ>>
        /\ UNCHANGED <<rspQ, cmd_sn, io_running, mid, dup, alloc, rd, pc>>
        /\ UNCHANGED <<tag, cur, msg, stage, snap, user>>
    BY <1>6 DEF vars, slotVars, queueVars, workerVars
  <2>2. Types' /\ QueuesOK' /\ Threads' /\ IoRunningExact' /\ Queued' = Queued
    BY <2>1 DEF Inv, Types, QueuesOK, Threads, IoRunningExact, Queued
  <2> QED BY <2>1, <2>2, MoveFrame DEF Inv
<1> QED BY <1>1, <1>2, <1>3, <1>4, <1>5, <1>6 DEF Next

\* Without error handlers every live slot is for a command of the driver, ...
LEMMA LiveDriven ==
    ASSUME IInv
    PROVE  \A t \in Live : scsi_cmd[t] \in Scs /\ mid[scsi_cmd[t]] = "driver"
BY DEF IInv, Inv, TypeOK, Owners, LiveOwned

\* ... every slot taken is owned, ...
LEMMA TakenOwned == ASSUME IInv PROVE \A t \in cmd_pool_bits : Owned(t)
BY DEF IInv, Inv, Types, Places, TakenSomewhere, Nothing

\* ... and no command is late.
LEMMA NeverLate ==
    ASSUME Inv(Nothing), mid \in [Scs -> {"idle", "driver"}], [Next]_vars
    PROVE  mid' \in [Scs -> {"idle", "driver"}]
<1>1. ASSUME NEW s, ScsiDone(s) PROVE mid' \in [Scs -> {"idle", "driver"}]
  <2>1. mid' = [mid EXCEPT ![s] = IF @ = "late" THEN "late" ELSE "idle"]
    BY <1>1 DEF ScsiDone
  <2>2. s \in Scs => mid[s] # "late"
    OBVIOUS
  <2> QED BY <2>1, <2>2
<1>2. ASSUME NEW s \in Scs, Queue(s) PROVE mid' \in [Scs -> {"idle", "driver"}]
  BY <1>2 DEF Queue, QueueAlloc, QueueEnqueue
<1>3. CASE StartIo
  BY <1>3 DEF StartIo
<1>4. ASSUME NEW r \in Readers, Read(r) PROVE mid' = mid
  BY <1>4 DEF Read, ReadTake, StampBegin, StampFields, ReadDeliver, ReadFault
<1>5. ASSUME NEW w \in Writers, Write(w)
      PROVE  mid' \in [Scs -> {"idle", "driver"}]
  BY <1>1, <1>5 DEF Write, DataFind, DataCopy, RespondTake, RespondDone, RespondPut
<1>6. ASSUME NEW m \in Drainers, Drain(m)
      PROVE  mid' \in [Scs -> {"idle", "driver"}]
  BY <1>1, <1>6 DEF Drain, DrainStart, DrainPop, DrainDone, DrainPut, DrainNext
<1>7. CASE UNCHANGED vars
  BY <1>7 DEF vars
<1> QED BY <1>2, <1>3, <1>4, <1>5, <1>6, <1>7 DEF Next

LEMMA NextIInv ==
    ASSUME IInv, [Next]_vars,
           \A r \in Readers : ReadFault(r) => /\ ToSet(rd[r].arr) \subseteq Queued
                                             /\ NoDup(rd[r].arr)
    PROVE  IInv'
<1>1. Nothing \in [Tags -> Nat] /\ Inv(Nothing)
  BY DEF Nothing, IInv
<1>2. Inv(Nothing)'
  BY <1>1, NextStep, ReadFaultStep
<1>3. mid' \in [Scs -> {"idle", "driver"}]
  BY <1>1, NeverLate DEF IInv, TypeOK
<1> QED BY <1>2, <1>3 DEF IInv, Inv, TypeOK

-----------------------------------------------------------------------------
(***************************************************************************)
(* A drain leaves nothing behind.  What a drain found queued is named by    *)
(* its serial numbers (snap), so the theorem is about behaviours in which   *)
(* the serial number, 32 bits of the wire, does not come round.             *)
(***************************************************************************)

NoWrap == MaxSn < SnMod

\* The serial numbers of taken slots are different, and none is from the future.
Serials == /\ cmd_sn <= MaxSn
           /\ \A t \in Tags : sn[t] <= cmd_sn
           /\ \A t, u \in cmd_pool_bits : sn[t] = sn[u] => t = u

\* Where a drain has still to come.
Ahead(m) == CASE stage[m] = "reqQ" -> Queued
              [] stage[m] = "cmpQ" -> ToSet(cmpQ) \union ToSet(rspQ)
              [] stage[m] = "rspQ" -> ToSet(rspQ)
              [] stage[m] = "off"  -> {}

\* What a drain found queued and is still queued is ahead of it, and what was
\* not queued then, be it a slot about to be linked, is not in its list.
Drained == \A m \in Drainers :
    /\ snap[m] \subseteq 0 .. cmd_sn
    /\ \A s \in Scs : alloc[s] # NoTag => sn[alloc[s]] \notin snap[m]
    /\ \A t \in Queued : sn[t] \in snap[m] => t \in Ahead(m)

\* Serial numbers are given by queuecommand only, and no other step takes a slot.
LEMMA OnlyAlloc ==
    ASSUME [Next]_vars, \A s \in Scs : ~ QueueAlloc(s)
    PROVE  UNCHANGED <<sn, cmd_sn>> /\ cmd_pool_bits' \subseteq cmd_pool_bits
<1>1. ASSUME NEW s \in Scs, QueueEnqueue(s)
      PROVE  UNCHANGED <<sn, cmd_sn, cmd_pool_bits>>
  BY <1>1 DEF QueueEnqueue
<1>2. CASE StartIo
  BY <1>2 DEF StartIo
<1>3. ASSUME NEW r \in Readers, Read(r)
      PROVE  UNCHANGED <<sn, cmd_sn, cmd_pool_bits>>
  BY <1>3 DEF Read, ReadTake, StampBegin, StampFields, ReadDeliver, ReadFault,
              slotVars
<1>4. ASSUME NEW w \in Writers, Write(w)
      PROVE  UNCHANGED <<sn, cmd_sn>> /\ cmd_pool_bits' \subseteq cmd_pool_bits
  BY <1>4 DEF Write, DataFind, DataCopy, RespondTake, RespondDone, RespondPut,
              CmdPut, slotVars
<1>5. ASSUME NEW m \in Drainers, Drain(m)
      PROVE  UNCHANGED <<sn, cmd_sn>> /\ cmd_pool_bits' \subseteq cmd_pool_bits
  BY <1>5 DEF Drain, DrainStart, DrainPop, DrainDone, DrainPut, DrainNext,
              CmdPut, slotVars
<1>6. CASE UNCHANGED vars
  BY <1>6 DEF vars, slotVars
<1> QED BY <1>1, <1>2, <1>3, <1>4, <1>5, <1>6 DEF Next, Queue

\* What queuecommand does to serial numbers, before they come round.
LEMMA AllocSerial ==
    ASSUME NoWrap, Types, NEW s \in Scs, QueueAlloc(s)
    PROVE  /\ cmd_sn \in Nat /\ cmd_sn' = cmd_sn + 1 /\ cmd_sn' <= MaxSn
           /\ \E t \in Tags \ cmd_pool_bits :
                 /\ sn' = [sn EXCEPT ![t] = cmd_sn + 1]
                 /\ alloc' = [alloc EXCEPT ![s] = t]
                 /\ scsi_cmd' = [scsi_cmd EXCEPT ![t] = NoCmd]
                 /\ cmd_pool_bits' = cmd_pool_bits \union {t}
<1>1. /\ cmd_sn \in Nat /\ cmd_sn < MaxSn /\ MaxSn \in Nat /\ SnMod \in Nat
      /\ cmd_sn' = cmd_sn + 1
  BY SerialAssumption DEF QueueAlloc, Types
<1>2. (cmd_sn + 1) % SnMod = cmd_sn + 1
  BY <1>1 DEF NoWrap
<1>3. cmd_sn' <= MaxSn
  BY <1>1
<1> QED BY <1>1, <1>2, <1>3 DEF QueueAlloc, FirstFree

LEMMA SerialStep ==
    ASSUME NoWrap, Types, Serials, [Next]_vars
    PROVE  Serials'
<1>1. ASSUME NEW s \in Scs, QueueAlloc(s) PROVE Serials'
  <2>1. PICK t \in Tags \ cmd_pool_bits :
            /\ sn' = [sn EXCEPT ![t] = cmd_sn + 1]
            /\ cmd_pool_bits' = cmd_pool_bits \union {t}
    BY <1>1, AllocSerial
  <2>2. /\ cmd_sn \in Nat /\ cmd_sn' = cmd_sn + 1 /\ cmd_sn' <= MaxSn
        /\ sn \in [Tags -> Nat] /\ cmd_pool_bits \subseteq Tags
    BY <1>1, AllocSerial DEF Types
  <2>3. \A u \in Tags : sn[u] <= cmd_sn /\ sn[u] \in Nat
    BY <2>2 DEF Serials
  <2>4. /\ \A u \in Tags : sn'[u] <= cmd_sn'
        /\ \A u, v \in cmd_pool_bits' : sn'[u] = sn'[v] => u = v
    BY <2>1, <2>2, <2>3 DEF Serials
  <2> QED BY <2>2, <2>4 DEF Serials
<1>2. CASE \A s \in Scs : ~ QueueAlloc(s)
  BY <1>2, OnlyAlloc DEF Serials
<1> QED BY <1>1, <1>2

\* Slots that leave the queues leave what is ahead of a drain, and no other does.
LEMMA AheadFrame ==
    ASSUME Types, QueuesOK, UNCHANGED stage,
           ToSet(reqQ') \subseteq ToSet(reqQ),
           ToSet(cmpQ') \subseteq ToSet(cmpQ),
           ToSet(rspQ') \subseteq ToSet(rspQ)
    PROVE  /\ Queued' \subseteq Queued
           /\ \A m \in Drainers : \A t \in Queued' : t \in Ahead(m) => t \in Ahead(m)'
<1>1. ASSUME NEW m \in Drainers, NEW t \in Queued', t \in Ahead(m)
      PROVE  t \in Ahead(m)'
  <2>1. stage'[m] = stage[m] /\ stage[m] \in {"off", "reqQ", "cmpQ", "rspQ"}
    BY DEF Types
  <2>2. CASE stage[m] = "reqQ"
    BY <1>1, <2>1, <2>2 DEF Ahead
  <2>3. CASE stage[m] = "cmpQ"
    BY <1>1, <2>1, <2>3 DEF Ahead, Queued, QueuesOK
  <2>4. CASE stage[m] = "rspQ"
    BY <1>1, <2>1, <2>4 DEF Ahead, Queued, QueuesOK
  <2>5. CASE stage[m] = "off"
    BY <1>1, <2>1, <2>5 DEF Ahead
  <2> QED BY <2>1, <2>2, <2>3, <2>4, <2>5
<1> QED BY <1>1 DEF Queued

\* So the other steps only take slots away from what Drained speaks of.
LEMMA DrainedFrame ==
    ASSUME Types, QueuesOK, Drained,
           UNCHANGED <<sn, cmd_sn, alloc, snap, stage>>,
           ToSet(reqQ') \subseteq ToSet(reqQ),
           ToSet(cmpQ') \subseteq ToSet(cmpQ),
           ToSet(rspQ') \subseteq ToSet(rspQ)
    PROVE  Drained'
<1>1. /\ Queued' \subseteq Queued
      /\ \A m \in Drainers : \A t \in Queued' : t \in Ahead(m) => t \in Ahead(m)'
  BY AheadFrame
<1> QED BY <1>1 DEF Drained

DrainInv == IInv /\ Serials /\ Drained

LEMMA DrainedAlloc ==
    ASSUME NoWrap, DrainInv, NEW s \in Scs, QueueAlloc(s)
    PROVE  Drained'
<1>1. PICK t \in Tags \ cmd_pool_bits :
          /\ sn' = [sn EXCEPT ![t] = cmd_sn + 1]
          /\ alloc' = [alloc EXCEPT ![s] = t]
  BY AllocSerial DEF DrainInv, IInv, Inv
<1>2. /\ cmd_sn \in Nat /\ cmd_sn' = cmd_sn + 1
      /\ UNCHANGED <<reqQ, cmpQ, rspQ, stage, snap>>
      /\ sn \in [Tags -> Nat] /\ alloc \in [Scs -> Tags \union {NoTag}]
  BY DEF QueueAlloc, queueVars, workerVars, DrainInv, IInv, Inv, Types
<1>3. \A m \in Drainers : snap[m] \subseteq 0 .. cmd_sn
  BY DEF DrainInv, Drained
<1>4. \A m \in Drainers : snap'[m] \subseteq 0 .. cmd_sn' /\ cmd_sn + 1 \notin snap[m]
  BY <1>2, <1>3
<1>5. ASSUME NEW m \in Drainers, NEW z \in Scs, alloc'[z] # NoTag
      PROVE  sn'[alloc'[z]] \notin snap'[m]
  <2>1. CASE z = s
    BY <1>1, <1>2, <1>4, <2>1
  <2>2. CASE z # s
    <3>1. alloc'[z] = alloc[z] /\ alloc[z] \in cmd_pool_bits /\ alloc[z] \in Tags
      BY <1>1, <1>2, <1>5, <2>2 DEF DrainInv, IInv, Inv, Places, AllocTaken
    <3>2. sn'[alloc[z]] = sn[alloc[z]]
      BY <1>1, <1>2, <3>1
    <3> QED BY <1>2, <1>5, <3>1, <3>2 DEF DrainInv, Drained
  <2> QED BY <2>1, <2>2
<1>6. Queued' = Queued /\ \A u \in Queued : u \in Tags /\ sn'[u] = sn[u]
  BY <1>1, <1>2, QueueTypes DEF Queued, DrainInv, IInv, Inv, Places, QueuedTaken
<1>7. \A m \in Drainers : Ahead(m)' = Ahead(m)
  BY <1>2 DEF Ahead, Queued
<1> QED BY <1>2, <1>4, <1>5, <1>6, <1>7 DEF DrainInv, Drained

LEMMA DrainedEnqueue ==
    ASSUME DrainInv, NEW s \in Scs, QueueEnqueue(s)
    PROVE  Drained'
<1> DEFINE t == alloc[s]
<1>1. /\ t \in Tags /\ t \in cmd_pool_bits /\ t \notin Queued
      /\ reqQ' = AddTail(reqQ, t) /\ alloc' = [alloc EXCEPT ![s] = NoTag]
      /\ alloc \in [Scs -> Tags \union {NoTag}]
      /\ UNCHANGED <<sn, cmd_sn, cmpQ, rspQ, stage, snap>>
      /\ t # NoTag
  BY DEF QueueEnqueue, workerVars, DrainInv, IInv, Inv, Types, Places, AllocTaken
<1>2. ToSet(reqQ') = ToSet(reqQ) \union {t}
  <2>1. reqQ \in Seq(Tags)
    BY QueueTypes DEF DrainInv, IInv, Inv
  <2>2. t \in Tags /\ reqQ' = AddTail(reqQ, t)
    BY <1>1
  <2> HIDE DEF t
  <2> QED BY <2>1, <2>2, LinkedTail
<1>3. Queued' = Queued \union {t}
  BY <1>1, <1>2 DEF Queued
<1>4. \A m \in Drainers : sn[t] \notin snap[m]
  BY <1>1 DEF DrainInv, Drained
<1>5. \A m \in Drainers : Ahead(m) \subseteq Ahead(m)' /\ t \in Queued'
  <2>1. /\ Queued \subseteq Queued' /\ stage' = stage
        /\ ToSet(cmpQ') = ToSet(cmpQ) /\ ToSet(rspQ') = ToSet(rspQ)
        /\ t \in Queued'
    BY <1>1, <1>3
  <2> HIDE DEF t
  <2>2. ASSUME NEW m \in Drainers PROVE Ahead(m) \subseteq Ahead(m)'
    <3>1. stage[m] \in {"off", "reqQ", "cmpQ", "rspQ"}
      BY DEF DrainInv, IInv, Inv, Types
    <3> QED BY <2>1, <3>1 DEF Ahead
  <2> QED BY <2>1, <2>2
<1>6. \A z \in Scs : alloc'[z] # NoTag => alloc'[z] = alloc[z]
  BY <1>1
<1> HIDE DEF t
<1> QED BY <1>1, <1>3, <1>4, <1>5, <1>6 DEF DrainInv, Drained

\* Slots that move on to the next queue stay ahead of the drains.
LEMMA StartIoMoves ==
    ASSUME Types, QueuesOK, StartIo
    PROVE  Queued' = Queued /\ \A m \in Drainers : Ahead(m) \subseteq Ahead(m)'
<1> DEFINE t == Head(reqQ)
<1>1. /\ reqQ # <<>> /\ reqQ' = Tail(reqQ) /\ cmpQ' = AddTail(cmpQ, t)
      /\ UNCHANGED <<rspQ, stage>>
  BY DEF StartIo, workerVars
<1>2. /\ t \in ToSet(reqQ) /\ t \in Tags
      /\ ToSet(reqQ) = ToSet(reqQ') \union {t}
      /\ reqQ \in Seq(Tags) /\ cmpQ \in Seq(Tags)
  BY <1>1, QueueTypes, TailFacts DEF QueuesOK, Queued
<1> HIDE DEF t
<1>3. ToSet(cmpQ') = ToSet(cmpQ) \union {t}
  <2>1. cmpQ \in Seq(Tags) /\ t \in Tags /\ cmpQ' = AddTail(cmpQ, t)
    BY <1>1, <1>2
  <2> QED BY <2>1, LinkedTail
<1>4. Queued' = Queued
  BY <1>1, <1>2, <1>3 DEF Queued
<1>5. \A m \in Drainers : Ahead(m) \subseteq Ahead(m)'
  BY <1>1, <1>3, <1>4 DEF Ahead
<1> QED BY <1>4, <1>5

LEMMA ReadTakeMoves ==
    ASSUME Types, NEW r \in Readers, ReadTake(r)
    PROVE  Queued' = Queued /\ \A m \in Drainers : Ahead(m) \subseteq Ahead(m)'
<1> DEFINE b == Batch(cmpQ, MaxBatch)
           c == Rest(cmpQ, MaxBatch)
<1>1. rspQ' = rspQ \o b /\ cmpQ' = c /\ UNCHANGED <<reqQ, stage>>
  BY DEF ReadTake, workerVars
<1>2. /\ b \in Seq(Tags) /\ c \in Seq(Tags) /\ rspQ \in Seq(Tags)
      /\ ToSet(cmpQ) = ToSet(b) \union ToSet(c)
  <2>1. cmpQ \in Seq(Tags) /\ rspQ \in Seq(Tags)
    BY QueueTypes
  <2> QED BY <2>1, TagBatch
<1> HIDE DEF b, c
<1>3. ToSet(rspQ') = ToSet(rspQ) \union ToSet(b)
  BY <1>1, <1>2, JoinFacts
<1>4. Queued' = Queued
  BY <1>1, <1>2, <1>3 DEF Queued
<1>5. \A m \in Drainers : Ahead(m) \subseteq Ahead(m)'
  BY <1>1, <1>2, <1>3, <1>4 DEF Ahead
<1> QED BY <1>4, <1>5

LEMMA DrainedStartIo ==
    ASSUME DrainInv, StartIo
    PROVE  Drained'
<1>1. UNCHANGED <<sn, cmd_sn, alloc, stage, snap>>
  BY DEF StartIo, workerVars
<1>2. Queued' = Queued /\ \A m \in Drainers : Ahead(m) \subseteq Ahead(m)'
  BY StartIoMoves DEF DrainInv, IInv, Inv
<1> QED BY <1>1, <1>2 DEF DrainInv, Drained

LEMMA DrainedReadTake ==
    ASSUME DrainInv, NEW r \in Readers, ReadTake(r)
    PROVE  Drained'
<1>1. UNCHANGED <<sn, cmd_sn, alloc, stage, snap>>
  BY DEF ReadTake, slotVars, workerVars
<1>2. Queued' = Queued /\ \A m \in Drainers : Ahead(m) \subseteq Ahead(m)'
  BY ReadTakeMoves DEF DrainInv, IInv, Inv
<1> QED BY <1>1, <1>2 DEF DrainInv, Drained

LEMMA DrainedStart ==
    ASSUME DrainInv, NEW d \in Drainers, DrainStart(d)
    PROVE  Drained'
<1>1. /\ stage' = [stage EXCEPT ![d] = "reqQ"]
      /\ snap' = [snap EXCEPT ![d] = {sn[t] : t \in Queued}]
      /\ UNCHANGED <<sn, cmd_sn, reqQ, cmpQ, rspQ, alloc>>
      /\ stage \in [Drainers -> {"off", "reqQ", "cmpQ", "rspQ"}]
      /\ snap \in [Drainers -> SUBSET Nat]
  BY DEF DrainStart, queueVars, slotVars, DrainInv, IInv, Inv, Types
<1>2. /\ Queued' = Queued /\ Ahead(d)' = Queued
      /\ \A m \in Drainers \ {d} : Ahead(m)' = Ahead(m)
  BY <1>1 DEF Queued, Ahead
<1>3. {sn[t] : t \in Queued} \subseteq 0 .. cmd_sn
  <2>1. Queued \subseteq Tags /\ \A t \in Tags : sn[t] \in Nat /\ sn[t] <= cmd_sn
    BY QueueTypes DEF DrainInv, IInv, Inv, Types, Serials
  <2>2. cmd_sn \in Nat
    BY DEF DrainInv, IInv, Inv, Types
  <2> QED BY <2>1, <2>2
<1>4. \A s \in Scs : alloc[s] # NoTag => sn[alloc[s]] \notin {sn[t] : t \in Queued}
  BY DEF DrainInv, Serials, IInv, Inv, Places, QueuedTaken, AllocTaken
<1>5. snap'[d] = {sn[t] : t \in Queued} /\ \A m \in Drainers \ {d} : snap'[m] = snap[m]
  BY <1>1
<1> QED BY <1>1, <1>2, <1>3, <1>4, <1>5 DEF DrainInv, Drained

\* A queue found empty holds nothing that is ahead.
LEMMA NextMoves ==
    ASSUME Types, NEW d \in Drainers, DrainNext(d)
    PROVE  Queued' = Queued /\ \A m \in Drainers : Ahead(m)' = Ahead(m)
<1>1. /\ stage[d] \in {"reqQ", "cmpQ", "rspQ"} /\ StageQueue(d) = <<>>
      /\ stage' = [stage EXCEPT ![d] = NextStage(stage[d])]
      /\ UNCHANGED <<reqQ, cmpQ, rspQ>>
      /\ stage \in [Drainers -> {"off", "reqQ", "cmpQ", "rspQ"}]
  BY DEF DrainNext, queueVars, Types
<1>2. Queued' = Queued /\ \A m \in Drainers \ {d} : Ahead(m)' = Ahead(m)
  BY <1>1 DEF Queued, Ahead
<1>3. Ahead(d) = Ahead(d)'
  <2>1. CASE stage[d] = "reqQ"
    BY <1>1, <2>1, EmptyFacts DEF Ahead, StageQueue, NextStage, Queued
  <2>2. CASE stage[d] = "cmpQ"
    BY <1>1, <2>2, EmptyFacts DEF Ahead, StageQueue, NextStage
  <2>3. CASE stage[d] = "rspQ"
    BY <1>1, <2>3, EmptyFacts DEF Ahead, StageQueue, NextStage
  <2> QED BY <1>1, <2>1, <2>2, <2>3
<1> QED BY <1>2, <1>3

LEMMA DrainedNext ==
    ASSUME DrainInv, NEW d \in Drainers, DrainNext(d)
    PROVE  Drained'
<1>1. UNCHANGED <<sn, cmd_sn, alloc, snap>>
  BY DEF DrainNext, slotVars
<1>2. Queued' = Queued /\ \A m \in Drainers : Ahead(m)' = Ahead(m)
  BY NextMoves DEF DrainInv, IInv, Inv
<1> QED BY <1>1, <1>2 DEF DrainInv, Drained

\* removeQ takes slots from queues, and adds none.
LEMMA RemoveQShrinks ==
    ASSUME Types, QueuesOK, NEW t, RemoveQ(t)
    PROVE  /\ ToSet(reqQ') = ToSet(reqQ) \ {t}
           /\ ToSet(cmpQ') = ToSet(cmpQ) \ {t}
           /\ ToSet(rspQ') = ToSet(rspQ) \ {t}
  BY QueueTypes, DelFacts DEF RemoveQ, QueuesOK

LEMMA DrainStep ==
    ASSUME CopyFaults = FALSE, NoWrap, DrainInv, [Next]_vars
    PROVE  DrainInv'
<1>1. IInv /\ Types /\ QueuesOK /\ Serials /\ Drained
  BY DEF DrainInv, IInv, Inv
<1>2. IInv' /\ Serials'
  BY <1>1, NextIInv, SerialStep DEF ReadFault
<1>3. ASSUME NEW s \in Scs, Queue(s) PROVE Drained'
  BY <1>3, DrainedAlloc, DrainedEnqueue DEF Queue
<1>4. ASSUME StartIo PROVE Drained'
  BY <1>4, DrainedStartIo
<1>5. ASSUME NEW r \in Readers, Read(r) PROVE Drained'
  <2>1. CASE ReadTake(r)
    BY <2>1, DrainedReadTake
  <2>2. CASE StampBegin(r) \/ StampFields(r) \/ ReadDeliver(r)
    <3>1. UNCHANGED <<reqQ, cmpQ, rspQ, sn, cmd_sn, alloc, snap, stage>>
      BY <2>2 DEF StampBegin, StampFields, ReadDeliver, slotVars, queueVars,
                  workerVars
    <3> QED BY <1>1, <3>1, DrainedFrame
  <2> QED BY <1>5, <2>1, <2>2 DEF Read, ReadFault
<1>6. ASSUME NEW w \in Writers, Write(w) PROVE Drained'
  <2>1. ASSUME NEW m \in user, RespondTake(w, m) PROVE Drained'
    <3>1. RemoveQ(m.tag) /\ UNCHANGED <<sn, cmd_sn, alloc, snap, stage>>
      BY <2>1 DEF RespondTake
    <3> QED BY <1>1, <3>1, RemoveQShrinks, DrainedFrame
  <2>2. CASE (\E m \in user : DataFind(w, m)) \/ DataCopy(w) \/ RespondDone(w)
               \/ RespondPut(w)
    <3>1. UNCHANGED <<reqQ, cmpQ, rspQ, sn, cmd_sn, alloc, snap, stage>>
      BY <2>2 DEF DataFind, DataCopy, RespondDone, RespondPut, slotVars,
                  queueVars
    <3> QED BY <1>1, <3>1, DrainedFrame
  <2> QED BY <1>6, <2>1, <2>2 DEF Write
<1>7. ASSUME NEW m \in Drainers, Drain(m) PROVE Drained'
  <2>1. CASE DrainPop(m)
    <3>1. PICK t : RemoveQ(t) /\ UNCHANGED <<sn, cmd_sn, alloc, snap, stage>>
      BY <2>1 DEF DrainPop, slotVars
    <3> QED BY <1>1, <3>1, RemoveQShrinks, DrainedFrame
  <2>2. CASE DrainDone(m) \/ DrainPut(m)
    <3>1. UNCHANGED <<reqQ, cmpQ, rspQ, sn, cmd_sn, alloc, snap, stage>>
      BY <2>2 DEF DrainDone, DrainPut, queueVars
    <3> QED BY <1>1, <3>1, DrainedFrame
  <2> QED BY <1>7, <2>1, <2>2, DrainedStart, DrainedNext DEF Drain
<1>8. ASSUME UNCHANGED vars PROVE Drained'
  <2>1. UNCHANGED <<reqQ, cmpQ, rspQ, sn, cmd_sn, alloc, snap, stage>>
    BY <1>8 DEF vars, slotVars, queueVars, workerVars
  <2> QED BY <1>1, <2>1, DrainedFrame
<1>9. Drained'
  BY <1>3, <1>4, <1>5, <1>6, <1>7, <1>8 DEF Next
<1> QED BY <1>2, <1>9 DEF DrainInv

\* When a drain (device reset, detach, offline timer) is over, no command it
\* found queued when it began is still queued, wherever vsc_start_io and the
\* readers moved it meanwhile, and however many other drains run.
THEOREM DrainsComplete ==
    CopyFaults = FALSE /\ NoWrap => (Spec => []DrainComplete)
<1> SUFFICES ASSUME CopyFaults = FALSE, NoWrap PROVE Spec => []DrainComplete
  OBVIOUS
<1>1. Init => DrainInv
  <2>1. Init => Serials /\ Drained
    BY SerialAssumption, PoolAssumption
    DEF Init, Serials, Drained, Ahead, Queued, NoWrap
  <2> QED BY <2>1, InitIInv DEF DrainInv
<1>2. DrainInv /\ [Next]_vars => DrainInv'
  BY DrainStep
<1>3. DrainInv => DrainComplete
  <2> SUFFICES ASSUME DrainInv, NEW m \in Drainers, stage[m] = "off",
                      NEW t \in Queued, sn[t] \in snap[m]
               PROVE  FALSE
    BY DEF DrainComplete
  <2> QED BY DEF DrainInv, Drained, Ahead
<1> QED BY <1>1, <1>2, <1>3, PTL DEF Spec

-----------------------------------------------------------------------------
(***************************************************************************)
(* While nothing drains the queues, an answer is for the command of its     *)
(* message, although the fields of a slot are read without the lock and     *)
(* slots are used again, and even if copy_to_user fails.  The slots of a    *)
(* batch stay in rspQ as long as the reader has not delivered their         *)
(* messages, since no message names them before, so that nobody unlinks     *)
(* them meanwhile.                                                          *)
(***************************************************************************)

\* m says of a slot what the slot says.
Tells(m) == m.sn = sn[m.tag] /\ m.sc = scsi_cmd[m.tag]

\* The batch of a reader is in rspQ, and its messages tell the truth.
ReaderOK(r) ==
    /\ rd[r].pc = "idle" => rd[r] = IdleReader
    /\ ToSet(rd[r].arr) \subseteq ToSet(rspQ) /\ NoDup(rd[r].arr)
    /\ rd[r].pc = "fields" => rd[r].sc = scsi_cmd[Stamping(r)]
    /\ \A m \in ToSet(rd[r].msgs) : m.tag \in ToSet(rd[r].arr) /\ Tells(m)
ReadersApart == \A r, q \in Readers :
    r # q => ToSet(rd[r].arr) \intersect ToSet(rd[q].arr) = {}

\* A message of the target is from the past; one whose serial number is still
\* that of the slot tells the truth, and its slot has been delivered: it is not
\* waiting to be, nor about to be linked, nor in the batch of a reader.
Delivered(t) ==
    /\ t \notin ToSet(reqQ) \union ToSet(cmpQ)
    /\ \A s \in Scs : alloc[s] # t
    /\ \A r \in Readers : t \notin ToSet(rd[r].arr)
MessageOK(m) ==
    /\ m.sn <= cmd_sn
    /\ m.sn = sn[m.tag] => m.sc = scsi_cmd[m.tag] /\ Delivered(m.tag)

Messages == /\ \A r \in Readers : ReaderOK(r)
            /\ ReadersApart
            /\ \A m \in user : MessageOK(m)

AnswerInv == IInv /\ Serials /\ Messages

\* The slot whose turn it is in the batch of a reader is linked into rspQ.
LEMMA StampingLinked ==
    ASSUME AnswerInv, NEW r \in Readers, rd[r].pc \in {"stamp", "fields"}
    PROVE  /\ Stamping(r) \in ToSet(rd[r].arr) /\ Stamping(r) \in ToSet(rspQ)
           /\ Stamping(r) \in Tags /\ Stamping(r) \in Live
<1>1. /\ rd[r].arr \in Seq(Tags) /\ Len(rd[r].msgs) < Len(rd[r].arr)
      /\ rd[r].msgs \in Seq([tag : Tags, sn : Nat, sc : Scs])
  BY DEF AnswerInv, IInv, Inv, Types, Reader, Threads
<1>2. Len(rd[r].msgs) \in Nat /\ Len(rd[r].arr) \in Nat
      /\ DOMAIN rd[r].arr = 1 .. Len(rd[r].arr)
  BY <1>1, LenProperties
<1>3. Len(rd[r].msgs) + 1 \in 1 .. Len(rd[r].arr)
  BY <1>1, <1>2
<1>4. Stamping(r) \in ToSet(rd[r].arr)
  BY <1>2, <1>3 DEF Stamping, ToSet
<1>5. Stamping(r) \in ToSet(rspQ)
  BY <1>4 DEF AnswerInv, Messages, ReaderOK
<1>6. Stamping(r) \in Tags /\ Stamping(r) \in Live
  BY <1>5, QueueTypes, LiveMember DEF AnswerInv, IInv, Inv, Queued
<1> QED BY <1>4, <1>5, <1>6

\* What changes neither batches nor messages nor what slots say, and leaves the
\* slots of batches in rspQ.
LEMMA MessagesFrame ==
    ASSUME Messages, UNCHANGED <<sn, scsi_cmd, cmd_sn, alloc, rd, user>>,
           ToSet(reqQ') \union ToSet(cmpQ') \subseteq ToSet(reqQ) \union ToSet(cmpQ),
           \A r \in Readers : ToSet(rd[r].arr) \subseteq ToSet(rspQ')
    PROVE  Messages'
<1>1. \A r \in Readers : ReaderOK(r)'
  BY DEF Messages, ReaderOK, Tells, Stamping
<1>2. ReadersApart'
  BY DEF Messages, ReadersApart
<1>3. \A m \in user' : MessageOK(m)'
  BY DEF Messages, MessageOK, Delivered
<1> QED BY <1>1, <1>2, <1>3 DEF Messages

LEMMA MessagesAlloc ==
    ASSUME NoWrap, AnswerInv, NEW s \in Scs, QueueAlloc(s)
    PROVE  Messages'
<1>1. PICK t \in Tags \ cmd_pool_bits :
          /\ sn' = [sn EXCEPT ![t] = cmd_sn + 1]
          /\ alloc' = [alloc EXCEPT ![s] = t]
          /\ scsi_cmd' = [scsi_cmd EXCEPT ![t] = NoCmd]
  BY AllocSerial DEF AnswerInv, IInv, Inv
<1>2. /\ cmd_sn \in Nat /\ cmd_sn' = cmd_sn + 1
      /\ UNCHANGED <<reqQ, cmpQ, rspQ, rd, user>>
      /\ sn \in [Tags -> Nat] /\ alloc \in [Scs -> Tags \union {NoTag}]
      /\ scsi_cmd \in [Tags -> Scs \union {NoCmd}]
      /\ user \subseteq [tag : Tags, sn : Nat, sc : Scs]
  BY DEF QueueAlloc, queueVars, AnswerInv, IInv, Inv, Types
<1>3. /\ t \notin ToSet(reqQ) \union ToSet(cmpQ) /\ t \notin ToSet(rspQ)
      /\ \A r \in Readers : t \notin ToSet(rd[r].arr)
  BY DEF AnswerInv, IInv, Inv, Places, QueuedTaken, Queued, Messages, ReaderOK
<1>4. \A u \in Tags : u # t => sn'[u] = sn[u] /\ scsi_cmd'[u] = scsi_cmd[u]
  BY <1>1, <1>2
<1>5. ASSUME NEW r \in Readers PROVE ReaderOK(r)'
  <2>1. ReaderOK(r) /\ ToSet(rd[r].arr) \subseteq Tags
    BY QueueTypes DEF AnswerInv, IInv, Inv, Messages, ReaderOK, Queued
  <2>2. rd'[r].pc = "fields" => rd'[r].sc = scsi_cmd'[Stamping(r)']
    <3> SUFFICES ASSUME rd[r].pc = "fields"
                 PROVE  rd[r].sc = scsi_cmd'[Stamping(r)]
      BY <1>2 DEF Stamping
    <3>1. Stamping(r) \in ToSet(rd[r].arr)
      BY StampingLinked
    <3>2. Stamping(r) # t /\ Stamping(r) \in Tags
      BY <1>3, <2>1, <3>1
    <3> QED BY <1>4, <2>1, <3>2 DEF ReaderOK
  <2>3. \A m \in ToSet(rd[r].msgs) : m.tag \in ToSet(rd[r].arr) /\ Tells(m)'
    BY <1>3, <1>4, <2>1 DEF ReaderOK, Tells
  <2> QED BY <1>2, <2>1, <2>2, <2>3 DEF ReaderOK
<1>6. ReadersApart'
  BY <1>2 DEF AnswerInv, Messages, ReadersApart
<1>7. ASSUME NEW m \in user PROVE MessageOK(m)'
  <2>1. MessageOK(m) /\ m.tag \in Tags /\ m.sn \in Nat
    BY <1>2 DEF AnswerInv, Messages
  <2>2. CASE m.tag = t
    <3>1. sn'[m.tag] = cmd_sn + 1 /\ m.sn <= cmd_sn
      BY <1>1, <1>2, <2>1, <2>2 DEF MessageOK
    <3> QED BY <1>2, <2>1, <3>1 DEF MessageOK
  <2>3. CASE m.tag # t
    <3>1. sn'[m.tag] = sn[m.tag] /\ scsi_cmd'[m.tag] = scsi_cmd[m.tag]
      BY <1>4, <2>1, <2>3
    <3>2. Delivered(m.tag) => Delivered(m.tag)'
      BY <1>1, <1>2, <2>3 DEF Delivered
    <3> QED BY <1>2, <2>1, <3>1, <3>2 DEF MessageOK
  <2> QED BY <2>2, <2>3
<1> QED BY <1>2, <1>5, <1>6, <1>7 DEF Messages

LEMMA MessagesEnqueue ==
    ASSUME AnswerInv, NEW s \in Scs, QueueEnqueue(s)
    PROVE  Messages'
<1>1. PICK t : t = alloc[s]
  OBVIOUS
<1>2. /\ t \in Tags /\ t # NoTag /\ t \notin Queued
      /\ reqQ' = AddTail(reqQ, t) /\ alloc' = [alloc EXCEPT ![s] = NoTag]
      /\ scsi_cmd' = [scsi_cmd EXCEPT ![t] = s]
      /\ alloc \in [Scs -> Tags \union {NoTag}]
      /\ scsi_cmd \in [Tags -> Scs \union {NoCmd}]
      /\ user \subseteq [tag : Tags, sn : Nat, sc : Scs]
      /\ UNCHANGED <<sn, cmd_sn, cmpQ, rspQ, rd, user>>
  BY <1>1 DEF QueueEnqueue, AnswerInv, IInv, Inv, Types, Places, AllocTaken
<1>3. ToSet(reqQ') = ToSet(reqQ) \union {t}
  <2>1. reqQ \in Seq(Tags)
    BY QueueTypes DEF AnswerInv, IInv, Inv
  <2>2. ToSet(AddTail(reqQ, t)) = ToSet(reqQ) \union {t}
    BY <1>2, <2>1, LinkedTail
  <2> QED BY <1>2, <2>2
<1>4. /\ \A r \in Readers : t \notin ToSet(rd[r].arr)
      /\ \A u \in Tags : u # t => scsi_cmd'[u] = scsi_cmd[u]
  BY <1>2 DEF Queued, AnswerInv, Messages, ReaderOK
<1>5. ASSUME NEW r \in Readers PROVE ReaderOK(r)'
  <2>1. ReaderOK(r) /\ ToSet(rd[r].arr) \subseteq Tags
    BY QueueTypes DEF AnswerInv, IInv, Inv, Messages, ReaderOK, Queued
  <2>2. rd'[r].pc = "fields" => rd'[r].sc = scsi_cmd'[Stamping(r)']
    <3> SUFFICES ASSUME rd[r].pc = "fields"
                 PROVE  rd[r].sc = scsi_cmd'[Stamping(r)]
      BY <1>2 DEF Stamping
    <3>1. Stamping(r) \in ToSet(rd[r].arr)
      BY StampingLinked
    <3>2. Stamping(r) # t /\ Stamping(r) \in Tags
      BY <1>4, <2>1, <3>1
    <3> QED BY <1>4, <2>1, <3>2 DEF ReaderOK
  <2>3. \A m \in ToSet(rd[r].msgs) : m.tag \in ToSet(rd[r].arr) /\ Tells(m)'
    BY <1>2, <1>4, <2>1 DEF ReaderOK, Tells
  <2> QED BY <1>2, <2>1, <2>2, <2>3 DEF ReaderOK
<1>6. ReadersApart'
  BY <1>2 DEF AnswerInv, Messages, ReadersApart
<1>7. ASSUME NEW m \in user PROVE MessageOK(m)'
  <2>1. MessageOK(m) /\ m.tag \in Tags
    BY <1>2 DEF AnswerInv, Messages
  <2>2. ASSUME Delivered(m.tag) PROVE m.tag # t /\ Delivered(m.tag)'
    <3>1. m.tag # t
      BY <1>1, <2>2 DEF Delivered
    <3>2. \A z \in Scs : alloc'[z] # m.tag
      BY <1>2, <2>1, <2>2, PoolAssumption DEF Delivered
    <3> QED BY <1>2, <1>3, <2>2, <3>1, <3>2 DEF Delivered
  <2> QED BY <1>2, <1>4, <2>1, <2>2 DEF MessageOK
<1> QED BY <1>2, <1>5, <1>6, <1>7 DEF Messages

LEMMA MessagesStartIo ==
    ASSUME AnswerInv, StartIo
    PROVE  Messages'
<1>1. PICK t : t = Head(reqQ)
  OBVIOUS
<1>2. /\ reqQ # <<>> /\ reqQ' = Tail(reqQ) /\ cmpQ' = AddTail(cmpQ, t)
      /\ UNCHANGED <<sn, scsi_cmd, cmd_sn, alloc, rd, user, rspQ>>
  BY <1>1 DEF StartIo
<1>3. /\ t \in ToSet(reqQ) /\ t \in Tags /\ ToSet(reqQ') = ToSet(reqQ) \ {t}
      /\ cmpQ \in Seq(Tags)
  BY <1>1, <1>2, QueueTypes, TailFacts DEF QueuesOK, AnswerInv, IInv, Inv, Queued
<1>4. ToSet(cmpQ') = ToSet(cmpQ) \union {t}
  <2>1. t \in Tags /\ cmpQ \in Seq(Tags)
    BY <1>3
  <2>2. ToSet(AddTail(cmpQ, t)) = ToSet(cmpQ) \union {t}
    BY <2>1, LinkedTail
  <2> QED BY <1>2, <2>2
<1>5. ToSet(reqQ') \union ToSet(cmpQ') \subseteq ToSet(reqQ) \union ToSet(cmpQ)
  BY <1>3, <1>4
<1>6. \A r \in Readers : ToSet(rd[r].arr) \subseteq ToSet(rspQ')
  BY <1>2 DEF AnswerInv, Messages, ReaderOK
<1> QED BY <1>2, <1>5, <1>6, MessagesFrame DEF AnswerInv

\* A reader takes a batch, goes on with it, or is done with it: the other
\* readers and the messages of the target, as far as they do not concern it.
LEMMA ReaderFrame ==
    ASSUME AnswerInv, NEW r \in Readers,
           UNCHANGED <<sn, scsi_cmd, cmd_sn, alloc>>,
           \A q \in Readers \ {r} : rd'[q] = rd[q],
           \A q \in Readers \ {r} : ToSet(rd[q].arr) \subseteq ToSet(rspQ'),
           \A q \in Readers \ {r} :
               ToSet(rd[q].arr) \intersect ToSet(rd'[r].arr) = {},
           ReaderOK(r)', \A m \in user' : MessageOK(m)'
    PROVE  Messages'
<1>1. \A q \in Readers \ {r} : ReaderOK(q)'
  BY DEF AnswerInv, Messages, ReaderOK, Tells, Stamping
<1>2. ReadersApart'
  BY DEF AnswerInv, Messages, ReadersApart
<1> QED BY <1>1, <1>2 DEF Messages

LEMMA MessagesTake ==
    ASSUME AnswerInv, NEW r \in Readers, ReadTake(r)
    PROVE  Messages'
<1>1. PICK b, c : b = Batch(cmpQ, MaxBatch) /\ c = Rest(cmpQ, MaxBatch)
  OBVIOUS
<1>2. /\ rspQ' = rspQ \o b /\ cmpQ' = c
      /\ rd' = [rd EXCEPT ![r] = [pc |-> "stamp", arr |-> b, sc |-> NoCmd,
                                  msgs |-> <<>>]]
      /\ UNCHANGED <<sn, scsi_cmd, cmd_sn, alloc, reqQ, user>>
      /\ rd \in [Readers -> Reader] /\ rd[r].pc = "idle"
  BY <1>1 DEF ReadTake, slotVars, AnswerInv, IInv, Inv, Types
<1>3. /\ b \in Seq(Tags) /\ c \in Seq(Tags) /\ rspQ \in Seq(Tags)
      /\ ToSet(cmpQ) = ToSet(b) \union ToSet(c) /\ NoDup(b)
  <2>1. cmpQ \in Seq(Tags) /\ rspQ \in Seq(Tags) /\ NoDup(cmpQ)
    BY QueueTypes DEF AnswerInv, IInv, Inv, QueuesOK
  <2> QED BY <1>1, <2>1, TagBatch
<1>4. ToSet(rspQ') = ToSet(rspQ) \union ToSet(b)
  BY <1>2, <1>3, JoinFacts
<1>5. /\ rd'[r] = [pc |-> "stamp", arr |-> b, sc |-> NoCmd, msgs |-> <<>>]
      /\ \A q \in Readers \ {r} : rd'[q] = rd[q]
  BY <1>2
<1>6. ReaderOK(r)'
  BY <1>3, <1>4, <1>5, EmptyFacts DEF ReaderOK
<1>7. ASSUME NEW q \in Readers \ {r}
      PROVE  /\ ToSet(rd[q].arr) \subseteq ToSet(rspQ')
             /\ ToSet(rd[q].arr) \intersect ToSet(rd'[r].arr) = {}
  BY <1>3, <1>4, <1>5 DEF AnswerInv, IInv, Inv, QueuesOK, Messages, ReaderOK
<1>8. ASSUME NEW m \in user' PROVE MessageOK(m)'
  <2>1. MessageOK(m)
    BY <1>2 DEF AnswerInv, Messages
  <2>2. Delivered(m.tag) => Delivered(m.tag)'
    BY <1>2, <1>3, <1>5 DEF Delivered
  <2> QED BY <1>2, <2>1, <2>2 DEF MessageOK
<1> QED BY <1>2, <1>5, <1>6, <1>7, <1>8, ReaderFrame

LEMMA MessagesBegin ==
    ASSUME AnswerInv, NEW r \in Readers, StampBegin(r)
    PROVE  Messages'
<1>1. /\ rd[r].pc = "stamp"
      /\ rd' = [rd EXCEPT ![r].pc = "fields", ![r].sc = scsi_cmd[Stamping(r)]]
      /\ UNCHANGED <<sn, scsi_cmd, cmd_sn, alloc, reqQ, cmpQ, rspQ, user>>
      /\ rd \in [Readers -> Reader]
  BY DEF StampBegin, queueVars, AnswerInv, IInv, Inv, Types
<1>2. /\ rd'[r].pc = "fields" /\ rd'[r].sc = scsi_cmd[Stamping(r)]
      /\ rd'[r].arr = rd[r].arr /\ rd'[r].msgs = rd[r].msgs
      /\ \A q \in Readers \ {r} : rd'[q] = rd[q]
  BY <1>1 DEF Reader
<1>3. ReaderOK(r)'
  BY <1>1, <1>2 DEF AnswerInv, Messages, ReaderOK, Tells, Stamping
<1>4. \A q \in Readers \ {r} :
          /\ ToSet(rd[q].arr) \subseteq ToSet(rspQ')
          /\ ToSet(rd[q].arr) \intersect ToSet(rd'[r].arr) = {}
  BY <1>1, <1>2 DEF AnswerInv, Messages, ReaderOK, ReadersApart
<1>5. \A m \in user' : MessageOK(m)'
  BY <1>1, <1>2 DEF AnswerInv, Messages, MessageOK, Delivered
<1> QED BY <1>1, <1>2, <1>3, <1>4, <1>5, ReaderFrame

LEMMA MessagesFields ==
    ASSUME AnswerInv, NEW r \in Readers, StampFields(r)
    PROVE  Messages'
<1> DEFINE m  == [tag |-> Stamping(r), sn |-> sn[Stamping(r)], sc |-> rd[r].sc]
           ms == Append(rd[r].msgs, m)
           M  == [tag : Tags, sn : Nat, sc : Scs]
<1>1. /\ rd[r].pc = "fields" /\ rd[r].sc # NoCmd
      /\ rd' = [rd EXCEPT ![r].msgs = ms, ![r].sc = NoCmd,
                          ![r].pc = IF Len(ms) < Len(rd[r].arr)
                                    THEN "stamp" ELSE "deliver"]
      /\ UNCHANGED <<sn, scsi_cmd, cmd_sn, alloc, reqQ, cmpQ, rspQ, user>>
      /\ rd \in [Readers -> Reader]
  BY DEF StampFields, queueVars, slotVars, AnswerInv, IInv, Inv, Types
<1>2. /\ Stamping(r) \in ToSet(rd[r].arr) /\ Stamping(r) \in Tags
      /\ rd[r].sc = scsi_cmd[Stamping(r)]
  BY <1>1, StampingLinked DEF AnswerInv, Messages, ReaderOK
<1>3. ToSet(ms) = ToSet(rd[r].msgs) \union {m}
  <2>1. m \in M
    BY <1>1, <1>2 DEF Reader, AnswerInv, IInv, Inv, Types
  <2>2. rd[r].msgs \in Seq(M)
    BY <1>1 DEF Reader
  <2> HIDE DEF m, M
  <2>3. ToSet(AddTail(rd[r].msgs, m)) = ToSet(rd[r].msgs) \union {m}
    BY <2>1, <2>2, AddTailFacts
  <2> QED BY <2>3 DEF AddTail
<1>4. m.tag \in ToSet(rd[r].arr) /\ Tells(m)
  BY <1>2 DEF Tells
<1> HIDE DEF ms, m
<1>5. /\ rd'[r].pc \in {"stamp", "deliver"} /\ rd'[r].msgs = ms
      /\ rd'[r].arr = rd[r].arr
      /\ \A q \in Readers \ {r} : rd'[q] = rd[q]
  BY <1>1 DEF Reader
<1>6. ReaderOK(r)'
  BY <1>1, <1>3, <1>4, <1>5 DEF AnswerInv, Messages, ReaderOK, Tells
<1>7. \A q \in Readers \ {r} :
          /\ ToSet(rd[q].arr) \subseteq ToSet(rspQ')
          /\ ToSet(rd[q].arr) \intersect ToSet(rd'[r].arr) = {}
  BY <1>1, <1>5 DEF AnswerInv, Messages, ReaderOK, ReadersApart
<1>8. \A n \in user' : MessageOK(n)'
  BY <1>1, <1>5 DEF AnswerInv, Messages, MessageOK, Delivered
<1> QED BY <1>1, <1>5, <1>6, <1>7, <1>8, ReaderFrame

LEMMA MessagesDeliver ==
    ASSUME AnswerInv, NEW r \in Readers, ReadDeliver(r)
    PROVE  Messages'
<1>1. /\ user' = user \union ToSet(rd[r].msgs)
      /\ rd' = [rd EXCEPT ![r] = IdleReader]
      /\ UNCHANGED <<sn, scsi_cmd, cmd_sn, alloc, reqQ, cmpQ, rspQ>>
      /\ rd \in [Readers -> Reader]
  BY DEF ReadDeliver, queueVars, slotVars, AnswerInv, IInv, Inv, Types
<1>2. /\ rd'[r] = IdleReader /\ ToSet(rd'[r].arr) = {}
      /\ \A q \in Readers \ {r} : rd'[q] = rd[q]
  BY <1>1, EmptyFacts DEF IdleReader
<1>3. ReaderOK(r)'
  BY <1>2, EmptyFacts DEF ReaderOK, IdleReader
<1>4. \A q \in Readers \ {r} :
          /\ ToSet(rd[q].arr) \subseteq ToSet(rspQ')
          /\ ToSet(rd[q].arr) \intersect ToSet(rd'[r].arr) = {}
  BY <1>1, <1>2 DEF AnswerInv, Messages, ReaderOK
<1>5. ASSUME NEW m \in user' PROVE MessageOK(m)'
  <2>1. CASE m \in user
    BY <1>1, <1>2, <2>1 DEF AnswerInv, Messages, MessageOK, Delivered
  <2>2. CASE m \in ToSet(rd[r].msgs)
    <3>1. m.tag \in ToSet(rd[r].arr) /\ Tells(m) /\ m.tag \in ToSet(rspQ)
      BY <2>2 DEF AnswerInv, Messages, ReaderOK
    <3>2. m.tag \in Queued /\ m.tag \in Tags
      BY <3>1, QueueTypes DEF AnswerInv, IInv, Inv, Queued
    <3>3. Delivered(m.tag)'
      <4>1. m.tag \notin ToSet(reqQ) \union ToSet(cmpQ)
        BY <3>1 DEF AnswerInv, IInv, Inv, QueuesOK
      <4>2. \A s \in Scs : alloc[s] # m.tag
        BY <3>2, PoolAssumption DEF AnswerInv, IInv, Inv, Places, AllocTaken
      <4>3. \A q \in Readers \ {r} : m.tag \notin ToSet(rd[q].arr)
        BY <3>1 DEF AnswerInv, Messages, ReadersApart
      <4> QED BY <1>1, <1>2, <4>1, <4>2, <4>3 DEF Delivered
    <3>4. m.sn <= cmd_sn
      BY <3>1, <3>2 DEF Tells, AnswerInv, Serials
    <3> QED BY <1>1, <3>1, <3>3, <3>4 DEF MessageOK, Tells
  <2> QED BY <1>1, <2>1, <2>2
<1> QED BY <1>1, <1>2, <1>3, <1>4, <1>5, ReaderFrame

LEMMA MessagesFault ==
    ASSUME AnswerInv, NEW r \in Readers, ReadFault(r)
    PROVE  Messages'
<1>1. PICK arr : arr = rd[r].arr
  OBVIOUS
<1>2. /\ reqQ' = DelAll(reqQ, ToSet(arr)) /\ rspQ' = DelAll(rspQ, ToSet(arr))
      /\ cmpQ' = Reverse(arr) \o DelAll(cmpQ, ToSet(arr))
      /\ rd' = [rd EXCEPT ![r] = IdleReader]
      /\ UNCHANGED <<sn, scsi_cmd, cmd_sn, alloc, user>>
      /\ rd \in [Readers -> Reader] /\ arr \in Seq(Tags)
  BY <1>1 DEF ReadFault, AnswerInv, IInv, Inv, Types, Reader
<1>3. /\ reqQ \in Seq(Tags) /\ cmpQ \in Seq(Tags) /\ rspQ \in Seq(Tags)
  BY QueueTypes DEF AnswerInv, IInv, Inv
<1>4. /\ ToSet(reqQ') = ToSet(reqQ) \ ToSet(arr)
      /\ ToSet(rspQ') = ToSet(rspQ) \ ToSet(arr)
      /\ ToSet(cmpQ') = ToSet(arr) \union (ToSet(cmpQ) \ ToSet(arr))
  BY <1>2, <1>3, DelAllFacts, ReverseFacts, JoinFacts
<1>5. /\ rd'[r] = IdleReader /\ ToSet(rd'[r].arr) = {}
      /\ \A q \in Readers \ {r} : rd'[q] = rd[q]
  BY <1>2, EmptyFacts DEF IdleReader
<1>6. ReaderOK(r)'
  BY <1>5, EmptyFacts DEF ReaderOK, IdleReader
<1>7. \A q \in Readers \ {r} :
          /\ ToSet(rd[q].arr) \subseteq ToSet(rspQ')
          /\ ToSet(rd[q].arr) \intersect ToSet(rd'[r].arr) = {}
  BY <1>1, <1>4, <1>5 DEF AnswerInv, Messages, ReaderOK, ReadersApart
<1>8. \A m \in user' : MessageOK(m)'
  BY <1>1, <1>2, <1>4, <1>5 DEF AnswerInv, Messages, MessageOK, Delivered
<1> QED BY <1>2, <1>5, <1>6, <1>7, <1>8, ReaderFrame

LEMMA MessagesAnswer ==
    ASSUME AnswerInv, NEW w \in Writers, NEW m \in user, RespondTake(w, m)
    PROVE  Messages'
<1>1. /\ RemoveQ(m.tag) /\ m.sn = sn[m.tag]
      /\ UNCHANGED <<sn, scsi_cmd, cmd_sn, alloc, rd, user>>
  BY DEF RespondTake, Answerable
<1>2. /\ ToSet(reqQ') = ToSet(reqQ) \ {m.tag}
      /\ ToSet(cmpQ') = ToSet(cmpQ) \ {m.tag}
      /\ ToSet(rspQ') = ToSet(rspQ) \ {m.tag}
  BY <1>1, RemoveQShrinks DEF AnswerInv, IInv, Inv
<1>3. \A r \in Readers : m.tag \notin ToSet(rd[r].arr)
  BY <1>1 DEF AnswerInv, Messages, MessageOK, Delivered
<1>4. \A r \in Readers : ToSet(rd[r].arr) \subseteq ToSet(rspQ')
  BY <1>2, <1>3 DEF AnswerInv, Messages, ReaderOK
<1>5. ToSet(reqQ') \union ToSet(cmpQ') \subseteq ToSet(reqQ) \union ToSet(cmpQ)
  BY <1>2
<1> QED BY <1>1, <1>4, <1>5, MessagesFrame DEF AnswerInv

\* The slots of a batch are linked, so that giving them back is no harm.
LEMMA FaultHarmless ==
    ASSUME AnswerInv, NEW r \in Readers
    PROVE  ToSet(rd[r].arr) \subseteq Queued /\ NoDup(rd[r].arr)
  BY DEF AnswerInv, Messages, ReaderOK, Queued

LEMMA AnswerStep ==
    ASSUME NoWrap, Drainers = {}, AnswerInv, [Next]_vars
    PROVE  AnswerInv'
<1>1. IInv /\ Types /\ Serials /\ Messages
  BY DEF AnswerInv, IInv, Inv
<1>2. IInv'
  BY <1>1, NextIInv, FaultHarmless
<1>3. Serials'
  BY <1>1, SerialStep
<1>4. ASSUME NEW s \in Scs, Queue(s) PROVE Messages'
  BY <1>4, MessagesAlloc, MessagesEnqueue DEF Queue
<1>5. ASSUME StartIo PROVE Messages'
  BY <1>5, MessagesStartIo
<1>6. ASSUME NEW r \in Readers, Read(r) PROVE Messages'
  BY <1>6, MessagesTake, MessagesBegin, MessagesFields, MessagesDeliver,
     MessagesFault DEF Read
<1>7. ASSUME NEW w \in Writers, Write(w) PROVE Messages'
  <2>1. CASE \E m \in user : RespondTake(w, m)
    BY <2>1, MessagesAnswer
  <2>2. CASE (\E m \in user : DataFind(w, m)) \/ DataCopy(w) \/ RespondDone(w)
               \/ RespondPut(w)
    <3>1. UNCHANGED <<sn, scsi_cmd, cmd_sn, alloc, rd, user, reqQ, cmpQ, rspQ>>
      BY <2>2 DEF DataFind, DataCopy, RespondDone, RespondPut, slotVars,
                  queueVars
    <3>2. \A r \in Readers : ToSet(rd[r].arr) \subseteq ToSet(rspQ')
      BY <1>1, <3>1 DEF Messages, ReaderOK
    <3> QED BY <1>1, <3>1, <3>2, MessagesFrame
  <2> QED BY <1>7, <2>1, <2>2 DEF Write
<1>8. ASSUME UNCHANGED vars PROVE Messages'
  <2>1. UNCHANGED <<sn, scsi_cmd, cmd_sn, alloc, rd, user, reqQ, cmpQ, rspQ>>
    BY <1>8 DEF vars, slotVars, queueVars
  <2>2. \A r \in Readers : ToSet(rd[r].arr) \subseteq ToSet(rspQ')
    BY <1>1, <2>1 DEF Messages, ReaderOK
  <2> QED BY <1>1, <2>1, <2>2, MessagesFrame
<1>9. Messages'
  BY <1>4, <1>5, <1>6, <1>7, <1>8 DEF Next
<1> QED BY <1>2, <1>3, <1>9 DEF AnswerInv

LEMMA AnswerInvariance ==
    NoWrap /\ Drainers = {} => (Spec => []AnswerInv)
<1> SUFFICES ASSUME NoWrap, Drainers = {} PROVE Spec => []AnswerInv
  OBVIOUS
<1>1. Init => AnswerInv
  <2> SUFFICES ASSUME Init PROVE AnswerInv
    OBVIOUS
  <2>1. Serials
    BY SerialAssumption DEF Init, Serials
  <2>2. Messages
    BY EmptyFacts DEF Init, Messages, ReaderOK, ReadersApart, IdleReader
  <2> QED BY <2>1, <2>2, InitIInv DEF AnswerInv
<1>2. AnswerInv /\ [Next]_vars => AnswerInv'
  BY AnswerStep
<1> QED BY <1>1, <1>2, PTL DEF Spec

-----------------------------------------------------------------------------

\* While nothing drains the queues, an accepted answer, or data transfer, is for
\* the very command its message was about (vsc_response_scsi_cmd_new,
\* vsc_scsi_cmd_data), although a slot may have been used again since.
THEOREM AnswersRight ==
    NoWrap /\ Drainers = {} => (Spec => []AnswerRightCommand)
<1> SUFFICES ASSUME NoWrap, Drainers = {} PROVE Spec => []AnswerRightCommand
  OBVIOUS
<1>1. Init => AnswerRightCommand
  BY DEF Init, AnswerRightCommand, Workers
<1>2. AnswerInv /\ AnswerRightCommand /\ [Next]_vars => AnswerRightCommand'
  <2> SUFFICES ASSUME AnswerInv, AnswerRightCommand, [Next]_vars
               PROVE  AnswerRightCommand'
    OBVIOUS
  <2>1. Types
    BY DEF AnswerInv, IInv, Inv
  <2>2. CASE UNCHANGED <<pc, cur, msg>>
    BY <2>2 DEF AnswerRightCommand
  <2>3. ASSUME NEW w \in Writers, NEW m \in user, DataFind(w, m) \/ RespondTake(w, m)
        PROVE  AnswerRightCommand'
    <3>1. /\ cur' = [cur EXCEPT ![w] = scsi_cmd[m.tag]]
          /\ msg' = [msg EXCEPT ![w] = m]
          /\ \A x \in Workers \ {w} : pc'[x] = pc[x]
          /\ m.sn = sn[m.tag]
      BY <2>1, <2>3 DEF DataFind, RespondTake, Answerable, Types
    <3>2. m.sc = scsi_cmd[m.tag]
      BY <3>1 DEF AnswerInv, Messages, MessageOK
    <3> QED BY <2>1, <3>1, <3>2 DEF AnswerRightCommand, Types, Workers
  <2>4. ASSUME NEW w \in Writers, DataCopy(w) \/ RespondPut(w)
        PROVE  AnswerRightCommand'
    <3>1. /\ pc' = [pc EXCEPT ![w] = "idle"]
          /\ cur' = [cur EXCEPT ![w] = NoCmd]
          /\ msg' = [msg EXCEPT ![w] = NoMsg]
      BY <2>4 DEF DataCopy, RespondPut
    <3> QED BY <2>1, <3>1 DEF AnswerRightCommand, Types, Workers
  <2>5. ASSUME NEW w \in Writers, RespondDone(w) PROVE AnswerRightCommand'
    BY <2>1, <2>5 DEF RespondDone, AnswerRightCommand, Types, Workers
  <2>6. CASE StartIo \/ (\E s \in Scs : Queue(s)) \/ \E r \in Readers : Read(r)
    <3>1. UNCHANGED <<pc, cur, msg>>
      BY <2>6 DEF StartIo, Queue, QueueAlloc, QueueEnqueue, Read, ReadTake,
                  StampBegin, StampFields, ReadDeliver, ReadFault, workerVars
    <3> QED BY <3>1 DEF AnswerRightCommand
  <2>7. CASE UNCHANGED vars
    BY <2>7 DEF vars, workerVars, AnswerRightCommand
  <2> QED BY <2>3, <2>4, <2>5, <2>6, <2>7 DEF Next, Write
<1> QED BY <1>1, <1>2, AnswerInvariance, PTL DEF Spec

\* While nothing drains the queues, the data of a command is copied, and its CDB
\* read, without the lock but not after its completion, if the target answers
\* with one thread (vsc_scsi_cmd_data, vsc_get_multi_scsi_cmd_and_cdb).
THEOREM CopiesOfLive ==
    NoWrap /\ Drainers = {} /\ (\A w, x \in Writers : w = x)
        => (Spec => []CopiesLive)
<1> SUFFICES ASSUME NoWrap, Drainers = {}, \A w, x \in Writers : w = x
             PROVE  Spec => []CopiesLive
  OBVIOUS
<1> DEFINE Copying == \A w \in Writers :
        pc[w] = "copy" => cur[w] \in Scs /\ mid[cur[w]] = "driver"
<1>1. Init => Copying
  BY DEF Init, Workers
<1>2. AnswerInv /\ Copying /\ [Next]_vars => Copying'
  <2> SUFFICES ASSUME AnswerInv, Copying, [Next]_vars PROVE Copying'
    OBVIOUS
  <2>1. Types
    BY DEF AnswerInv, IInv, Inv
  <2>2. ASSUME NEW w \in Writers, NEW m \in user, DataFind(w, m) PROVE Copying'
    <3>1. /\ cur' = [cur EXCEPT ![w] = scsi_cmd[m.tag]] /\ mid' = mid
          /\ m.tag \in Queued
      BY <2>2 DEF DataFind, Answerable
    <3>2. scsi_cmd[m.tag] \in Scs /\ mid[scsi_cmd[m.tag]] = "driver"
      BY <3>1, LiveMember, LiveDriven DEF AnswerInv
    <3>3. cur'[w] = scsi_cmd[m.tag]
      BY <2>1, <3>1 DEF Types, Workers
    <3> QED BY <3>1, <3>2, <3>3
  <2>3. ASSUME NEW w \in Writers, DataCopy(w) \/ RespondPut(w) \/ RespondDone(w)
                 \/ \E m \in user : RespondTake(w, m)
        PROVE  Copying'
    <3>1. pc'[w] # "copy"
      BY <2>1, <2>3 DEF DataCopy, RespondPut, RespondDone, RespondTake, Types,
                        Workers
    <3> QED BY <3>1
  <2>4. CASE StartIo \/ (\E s \in Scs : QueueEnqueue(s)) \/ \E r \in Readers : Read(r)
    <3>1. UNCHANGED <<pc, cur, mid>>
      BY <2>4 DEF StartIo, QueueEnqueue, Read, ReadTake,
                  StampBegin, StampFields, ReadDeliver, ReadFault, workerVars
    <3> QED BY <3>1
  <2>5. ASSUME NEW s \in Scs, QueueAlloc(s) PROVE Copying'
    BY <2>1, <2>5 DEF QueueAlloc, workerVars, Types
  <2>6. CASE UNCHANGED vars
    BY <2>6 DEF vars, workerVars
  <2> QED BY <2>2, <2>3, <2>4, <2>5, <2>6 DEF Next, Write, Queue
<1>3. AnswerInv /\ Copying => CopiesLive
  <2> SUFFICES ASSUME AnswerInv, NEW r \in Readers, rd[r].pc = "fields"
               PROVE  rd[r].sc # NoCmd /\ mid[rd[r].sc] = "driver"
    BY DEF CopiesLive
  <2>1. rd[r].sc = scsi_cmd[Stamping(r)] /\ Stamping(r) \in Live
    BY StampingLinked DEF AnswerInv, Messages, ReaderOK
  <2> QED BY <2>1, LiveDriven, CmdAssumption DEF AnswerInv
<1> HIDE DEF Copying
<1> QED BY <1>1, <1>2, <1>3, AnswerInvariance, PTL DEF Spec

-----------------------------------------------------------------------------
(***************************************************************************)
(* Exactly-once completion.  A batch that is given back must not hold slots *)
(* that a drain has unlinked meanwhile, and used again maybe: either no     *)
(* copy fails, or nothing drains.                                          *)
(***************************************************************************)

NoRelink == CopyFaults = FALSE \/ (Drainers = {} /\ NoWrap)

\* The invariant holds in every reachable state.
THEOREM Inductive == NoRelink => (Spec => []IInv)
<1>1. ASSUME CopyFaults = FALSE PROVE Spec => []IInv
  <2>1. IInv /\ [Next]_vars => IInv'
    BY <1>1, NextIInv DEF ReadFault
  <2> QED BY <2>1, InitIInv, PTL DEF Spec
<1>2. ASSUME Drainers = {}, NoWrap PROVE Spec => []IInv
  <2>1. AnswerInv => IInv
    BY DEF AnswerInv
  <2>2. Spec => []AnswerInv
    BY <1>2, AnswerInvariance
  <2> QED BY <2>1, <2>2, PTL
<1> QED BY <1>1, <1>2 DEF NoRelink

LEMMA IInvCustody == IInv => Custody
<1> SUFFICES ASSUME IInv, NEW s \in Scs
             PROVE  LET held == {t \in Live : scsi_cmd[t] = s} IN
                    IF mid[s] = "driver"
                    THEN IF alloc[s] # NoTag THEN held = {}
                                             ELSE \E t \in Tags : held = {t}
                    ELSE alloc[s] = NoTag /\ held = {}
  BY DEF Custody
<1> USE DEF IInv, Inv
<1> DEFINE held == {t \in Live : scsi_cmd[t] = s}
<1>1. CASE mid[s] = "driver" /\ alloc[s] # NoTag
  BY <1>1 DEF Owners, AllocOwned
<1>2. CASE mid[s] = "driver" /\ alloc[s] = NoTag
  <2>1. PICK t \in Live : scsi_cmd[t] = s
    BY <1>2 DEF Owners, DriverHeld
  <2>2. held = {t}
    BY <2>1 DEF Owners, LiveOnce
  <2>3. t \in Tags
    BY <2>1, LiveMember, QueueTypes DEF Types, Threads, Places, TagTaken
  <2> QED BY <1>2, <2>2, <2>3
<1>3. CASE mid[s] # "driver"
  BY <1>3, LiveDriven DEF Owners, AllocOwned
<1> QED BY <1>1, <1>2, <1>3

\* No slot is linked twice.
LEMMA LinkedOnce ==
    ASSUME Types, QueuesOK
    PROVE  NoDup(reqQ \o cmpQ \o rspQ)
<1>1. /\ reqQ \o cmpQ \in Seq(Tags) /\ NoDup(reqQ \o cmpQ)
      /\ ToSet(reqQ \o cmpQ) = ToSet(reqQ) \union ToSet(cmpQ)
  BY QueueTypes, JoinFacts DEF QueuesOK
<1>2. ToSet(reqQ \o cmpQ) \intersect ToSet(rspQ) = {}
  BY <1>1 DEF QueuesOK
<1> QED BY <1>1, <1>2, QueueTypes, JoinFacts DEF QueuesOK

LEMMA IInvSlots == IInv => SlotAccounting
<1> SUFFICES ASSUME IInv PROVE SlotAccounting
  OBVIOUS
<1> USE DEF IInv, Inv
<1> DEFINE byCmd  == {s \in Scs : alloc[s] # NoTag}
           byWork == {a \in Workers : tag[a] # NoTag}
           allocd == {alloc[s] : s \in byCmd}
           worked == {tag[a] : a \in byWork}
<1>1. cmd_pool_bits = Queued \union allocd \union worked
  <2>1. cmd_pool_bits \subseteq Queued \union allocd \union worked
    <3> SUFFICES ASSUME NEW t \in cmd_pool_bits
                 PROVE  t \in Queued \union allocd \union worked
      OBVIOUS
    <3>1. t # NoTag
      BY PoolAssumption DEF Types
    <3>2. CASE \E s \in Scs : alloc[s] = t
      BY <3>1, <3>2
    <3>3. CASE \E a \in Workers : tag[a] = t
      BY <3>1, <3>3
    <3> QED BY <3>2, <3>3, TakenOwned DEF Owned
  <2>2. Queued \union allocd \union worked \subseteq cmd_pool_bits
    BY DEF Places, QueuedTaken, AllocTaken, TagTaken
  <2> QED BY <2>1, <2>2
<1>2. /\ Queued \intersect (allocd \union worked) = {}
      /\ allocd \intersect worked = {}
  BY DEF Places, AllocTaken, TagTaken
<1>3. /\ \A s, z \in byCmd : alloc[s] = alloc[z] => s = z
      /\ \A a, b \in byWork : tag[a] = tag[b] => a = b
  BY DEF Places, AllocOnce, TagOnce
<1>4. NoDup(reqQ \o cmpQ \o rspQ)
  BY LinkedOnce
<1> QED BY <1>1, <1>2, <1>3, <1>4 DEF SlotAccounting

\* Type correctness: in particular io_running and the reference counts, which
\* the code keeps unsigned or tests for zero, never pass below zero.
THEOREM TypeCorrect == NoRelink => (Spec => []TypeOK)
<1>1. IInv => TypeOK
  BY DEF IInv, Inv
<1> QED BY <1>1, Inductive, PTL

\* scsi_done is called once per accepted command, whatever answers, duplicate
\* answers, drains and late readers race.
THEOREM ExactlyOnce == NoRelink => (Spec => []NoDoubleDone)
<1>1. IInv => NoDoubleDone
  BY DEF IInv, Inv
<1> QED BY <1>1, Inductive, PTL

\* A command of the driver is always held at exactly one place, so that it can
\* neither be forgotten nor be completed through two slots.
THEOREM NeverLost == NoRelink => (Spec => []Custody)
<1> QED BY IInvCustody, Inductive, PTL

\* Slots are neither leaked nor handed out while they are in use.
THEOREM SlotsAccounted == NoRelink => (Spec => []SlotAccounting)
<1> QED BY IInvSlots, Inductive, PTL

\* io_running counts the queued slots.
THEOREM RunningExact == NoRelink => (Spec => []IoRunningExact)
<1>1. IInv => IoRunningExact
  BY DEF IInv, Inv
<1> QED BY <1>1, Inductive, PTL

-----------------------------------------------------------------------------
(***************************************************************************)
(* The driver implements the service of VscService: every step of the      *)
(* driver is a step of the service, or none the midlayer and the target    *)
(* could tell.                                                             *)
(***************************************************************************)

Waits(s)    == \E t \in ToSet(cmpQ) \union ToSet(reqQ) : scsi_cmd[t] = s
IsOut(s)    == \E t \in ToSet(rspQ) : scsi_cmd[t] = s
StateIs(s)  == IF alloc[s] # NoTag THEN "submitted"
               ELSE IF Waits(s) THEN "waiting"
               ELSE IF IsOut(s) THEN "handed out"
               ELSE IF mid[s] = "driver" THEN "closing" ELSE "idle"

LEMMA WaitingSlots ==
    ASSUME Types
    PROVE  /\ cmpQ \o reqQ \in Seq(Tags)
           /\ ToSet(cmpQ \o reqQ) = ToSet(cmpQ) \union ToSet(reqQ)
           /\ scsi_cmd \in [Tags -> Scs \union {NoCmd}]
BY JoinFacts DEF Types

\* What the list lemmas say of slots and the commands in them.
LEMMA RowOfCommands ==
    ASSUME NEW q \in Seq(Tags), NEW f
    PROVE  /\ Len(Image(f, q)) = Len(q)
           /\ \A c \in Tags :
                 Image(f, AddTail(q, c)) = AddTail(Image(f, q), f[c])
           /\ \A a \in 1 .. Len(q) + 1, b \in 0 .. Len(q) :
                 Image(f, SubSeq(q, a, b)) = SubSeq(Image(f, q), a, b)
           /\ \A k \in 1 .. Len(q) :
                 Image(f, RemoveAt(q, k)) = RemoveAt(Image(f, q), k)
           /\ \A z : z \in ToSet(Image(f, q)) <=> \E c \in ToSet(q) : f[c] = z
           /\ \A i \in 1 .. Len(q) : Image(f, q)[i] = f[q[i]]
           /\ DOMAIN Image(f, q) = 1 .. Len(q)
<1>1. Len(Image(f, q)) = Len(q)
  BY ImageFacts
<1>2. \A c \in Tags : Image(f, AddTail(q, c)) = AddTail(Image(f, q), f[c])
  BY ImageTail
<1>3. \A a \in 1 .. Len(q) + 1, b \in 0 .. Len(q) :
          Image(f, SubSeq(q, a, b)) = SubSeq(Image(f, q), a, b)
  BY ImagePart
<1>4. \A k \in 1 .. Len(q) :
          Image(f, RemoveAt(q, k)) = RemoveAt(Image(f, q), k)
  BY ImageRemove
<1>5. \A z : z \in ToSet(Image(f, q)) <=> \E c \in ToSet(q) : f[c] = z
  BY ImageSet
<1> QED BY <1>1, <1>2, <1>3, <1>4, <1>5 DEF Image

LEMMA RowOfSlots ==
    ASSUME NEW p \in Seq(Tags), NEW q \in Seq(Tags)
    PROVE  /\ \A c \in Tags : p \o AddTail(q, c) = AddTail(p \o q, c)
           /\ q # <<>> => AddTail(p, Head(q)) \o Tail(q) = p \o q
           /\ \A n \in 1 .. Len(p) :
                 /\ SubSeq(p \o q, 1, n) = SubSeq(p, 1, n)
                 /\ SubSeq(p \o q, n + 1, Len(p \o q))
                      = SubSeq(p, n + 1, Len(p)) \o q
<1>1. \A c \in Tags : p \o AddTail(q, c) = AddTail(p \o q, c)
  BY JoinTail
<1>2. q # <<>> => AddTail(p, Head(q)) \o Tail(q) = p \o q
  BY ShiftHead
<1>3. ASSUME NEW n \in 1 .. Len(p)
      PROVE  SubSeq(p \o q, 1, n) = SubSeq(p, 1, n)
  <2>1. 1 \in 1 .. Len(p)
    BY LenProperties
  <2> QED BY <2>1, SubSeqOfConcat1
<1>4. \A n \in 1 .. Len(p) :
          SubSeq(p \o q, n + 1, Len(p \o q)) = SubSeq(p, n + 1, Len(p)) \o q
  BY DropFromJoin
<1> QED BY <1>1, <1>2, <1>3, <1>4

LEMMA SlotLeavesRow ==
    ASSUME NEW p \in Seq(Tags), NEW q \in Seq(Tags),
           ToSet(p) \intersect ToSet(q) = {},
           NEW c \in ToSet(p) \union ToSet(q)
    PROVE  \E k \in 1 .. Len(p \o q) :
               /\ (p \o q)[k] = c
               /\ Del(p, c) \o Del(q, c) = RemoveAt(p \o q, k)
BY JoinDel

\* The state of the service, before and after a step, through the sets of slots.
LEMMA States ==
    ASSUME Types, NEW s \in Scs
    PROVE  ServiceState(s) = StateIs(s)
BY WaitingSlots DEF ServiceState, StateIs, Waits, IsOut

LEMMA StatesAfter ==
    ASSUME Types', NEW s \in Scs
    PROVE  ServiceState(s)' = StateIs(s)'
<1>1. ToSet(cmpQ' \o reqQ') = ToSet(cmpQ') \union ToSet(reqQ')
  BY JoinFacts DEF Types
<1> QED BY <1>1 DEF ServiceState, StateIs, Waits, IsOut

LEMMA SubmitStep ==
    ASSUME IInv, IInv', NEW s \in Scs, QueueAlloc(s)
    PROVE  Service!Submit(s)
<1>1. Types /\ Types'
  BY DEF IInv, Inv
<1>2. PICK t \in Tags : /\ t \notin cmd_pool_bits
                        /\ scsi_cmd' = [scsi_cmd EXCEPT ![t] = NoCmd]
                        /\ alloc' = [alloc EXCEPT ![s] = t]
  BY DEF QueueAlloc, FirstFree
<1>3. /\ mid[s] = "idle" /\ mid' = [mid EXCEPT ![s] = "driver"]
      /\ UNCHANGED <<reqQ, cmpQ, rspQ>>
      /\ mid \in [Scs -> {"idle", "driver"}]
      /\ alloc \in [Scs -> Tags \union {NoTag}]
      /\ scsi_cmd \in [Tags -> Scs \union {NoCmd}]
  BY <1>1 DEF QueueAlloc, queueVars, Types, IInv, TypeOK
<1>4. \A u \in Queued : scsi_cmd'[u] = scsi_cmd[u] /\ scsi_cmd[u] # s
  <2>1. \A u \in Queued : u # t /\ u \in Tags
    BY <1>1, <1>2, QueueTypes DEF IInv, Inv, Places, QueuedTaken
  <2>2. \A u \in Queued : mid[scsi_cmd[u]] = "driver"
    BY LiveMember, LiveDriven
  <2> QED BY <1>2, <1>3, <2>1, <2>2
<1>5. Waiting' = Waiting
  <2>1. \A u \in ToSet(cmpQ \o reqQ) : scsi_cmd'[u] = scsi_cmd[u]
    BY <1>1, <1>4, WaitingSlots DEF Queued
  <2>2. Image(scsi_cmd', cmpQ \o reqQ) = Image(scsi_cmd, cmpQ \o reqQ)
    BY <1>1, <2>1, WaitingSlots, ImageSame
  <2> QED BY <1>3, <2>2 DEF Waiting
<1>6. \A z \in Scs : Waits(z)' = Waits(z) /\ IsOut(z)' = IsOut(z)
  BY <1>3, <1>4 DEF Waits, IsOut, Queued
<1>7. StateIs(s) = "idle" /\ StateIs(s)' = "submitted"
  <2>1. alloc[s] = NoTag /\ ~ Waits(s) /\ ~ IsOut(s)
    BY <1>3, <1>4 DEF Waits, IsOut, Queued, IInv, Inv, Owners, AllocOwned
  <2>2. alloc'[s] # NoTag
    BY <1>2, <1>3, PoolAssumption
  <2> QED BY <1>3, <2>1, <2>2 DEF StateIs
<1>8. ASSUME NEW z \in Scs, z # s PROVE StateIs(z)' = StateIs(z)
  BY <1>2, <1>3, <1>6, <1>8 DEF StateIs
<1>9. ServiceStates' = [ServiceStates EXCEPT ![s] = "submitted"]
  BY <1>1, <1>7, <1>8, States, StatesAfter DEF ServiceStates
<1>10. ServiceStates[s] = "idle"
  BY <1>1, <1>7, States DEF ServiceStates
<1> QED BY <1>5, <1>9, <1>10 DEF Service!Submit


LEMMA PostStep ==
    ASSUME IInv, IInv', NEW s \in Scs, QueueEnqueue(s)
    PROVE  Service!Post(s)
<1>1. Types /\ Types'
  BY DEF IInv, Inv
<1>2. PICK t : t = alloc[s]
  OBVIOUS
<1>3. /\ t # NoTag /\ t \in Tags /\ t \notin Queued
      /\ scsi_cmd' = [scsi_cmd EXCEPT ![t] = s]
      /\ reqQ' = AddTail(reqQ, t) /\ alloc' = [alloc EXCEPT ![s] = NoTag]
      /\ UNCHANGED <<cmpQ, rspQ, mid>>
      /\ alloc \in [Scs -> Tags \union {NoTag}]
      /\ scsi_cmd \in [Tags -> Scs \union {NoCmd}]
      /\ reqQ \in Seq(Tags) /\ cmpQ \in Seq(Tags)
  BY <1>1, <1>2 DEF QueueEnqueue, IInv, Inv, Types, Places, AllocTaken
<1>4. \A u \in Queued : scsi_cmd'[u] = scsi_cmd[u]
  BY <1>1, <1>3, QueueTypes
<1>5. ToSet(reqQ') = ToSet(reqQ) \union {t}
  <2>1. ToSet(AddTail(reqQ, t)) = ToSet(reqQ) \union {t}
    BY <1>3, LinkedTail
  <2> QED BY <1>3, <2>1
<1>6. Waiting' = Append(Waiting, s)
  <2> DEFINE q == cmpQ \o reqQ
  <2>1. q \in Seq(Tags) /\ ToSet(q) = ToSet(cmpQ) \union ToSet(reqQ)
    BY <1>1, WaitingSlots
  <2>2. cmpQ' \o reqQ' = AddTail(q, t)
    <3>1. cmpQ \o AddTail(reqQ, t) = AddTail(cmpQ \o reqQ, t)
      BY <1>3, RowOfSlots
    <3> QED BY <1>3, <3>1
  <2> HIDE DEF q
  <2>3. scsi_cmd'[t] = s
    BY <1>3
  <2>4. Image(scsi_cmd', AddTail(q, t)) = AddTail(Image(scsi_cmd', q), s)
    BY <1>3, <2>1, <2>3, RowOfCommands
  <2>5. \A u \in ToSet(q) : scsi_cmd'[u] = scsi_cmd[u]
    BY <1>4, <2>1 DEF Queued
  <2>6. Image(scsi_cmd', q) = Image(scsi_cmd, q)
    BY <2>1, <2>5, ImageSame
  <2> QED BY <2>2, <2>4, <2>6 DEF Waiting, AddTail, q
<1>7. StateIs(s) = "submitted"
  BY <1>2, <1>3 DEF StateIs
<1>8. StateIs(s)' = "waiting"
  <2>1. alloc'[s] = NoTag /\ Waits(s)'
    BY <1>3, <1>5 DEF Waits
  <2> QED BY <2>1 DEF StateIs
<1>9. ASSUME NEW z \in Scs, z # s PROVE StateIs(z)' = StateIs(z)
  <2>1. Waits(z)' = Waits(z)
    BY <1>3, <1>4, <1>5, <1>9 DEF Waits, Queued
  <2>2. IsOut(z)' = IsOut(z)
    BY <1>3, <1>4 DEF IsOut, Queued
  <2>3. alloc'[z] = alloc[z] /\ mid'[z] = mid[z]
    BY <1>3, <1>9
  <2> QED BY <2>1, <2>2, <2>3 DEF StateIs
<1>10. ServiceStates' = [ServiceStates EXCEPT ![s] = "waiting"]
  BY <1>1, <1>8, <1>9, States, StatesAfter DEF ServiceStates
<1>11. ServiceStates[s] = "submitted"
  BY <1>1, <1>7, States DEF ServiceStates
<1> QED BY <1>6, <1>10, <1>11 DEF Service!Post

\* vsc_start_io moves a command from reqQ to cmpQ, from the head of the one to
\* the tail of the other: its turn does not change.
LEMMA ShiftStep ==
    ASSUME IInv, IInv', StartIo
    PROVE  UNCHANGED <<ServiceStates, Waiting>>
<1>1. Types /\ Types'
  BY DEF IInv, Inv
<1>2. PICK t : t = Head(reqQ)
  OBVIOUS
<1>3. /\ reqQ # <<>> /\ reqQ' = Tail(reqQ) /\ cmpQ' = AddTail(cmpQ, t)
      /\ UNCHANGED <<scsi_cmd, rspQ, mid, alloc>>
      /\ reqQ \in Seq(Tags) /\ cmpQ \in Seq(Tags)
  BY <1>1, <1>2 DEF StartIo, Types
<1>4. cmpQ' \o reqQ' = cmpQ \o reqQ
  BY <1>2, <1>3, RowOfSlots
<1>5. Waiting' = Waiting
  BY <1>3, <1>4 DEF Waiting
<1>6. \A z \in Scs : ServiceState(z)' = ServiceState(z)
  BY <1>3, <1>4 DEF ServiceState
<1> QED BY <1>5, <1>6 DEF ServiceStates

LEMMA HandOutStep ==
    ASSUME IInv, IInv', NEW r \in Readers, ReadTake(r)
    PROVE  \E n \in 1 .. MaxBatch : Service!HandOut(n)
<1>1. Types /\ Types'
  BY DEF IInv, Inv
<1>2. /\ cmpQ # <<>> /\ rspQ' = rspQ \o Batch(cmpQ, MaxBatch)
      /\ cmpQ' = Rest(cmpQ, MaxBatch)
      /\ UNCHANGED <<reqQ, scsi_cmd, mid, alloc>>
      /\ reqQ \in Seq(Tags) /\ cmpQ \in Seq(Tags) /\ rspQ \in Seq(Tags)
      /\ scsi_cmd \in [Tags -> Scs \union {NoCmd}]
  BY <1>1 DEF ReadTake, slotVars, Types
<1> DEFINE n == IF Len(cmpQ) < MaxBatch THEN Len(cmpQ) ELSE MaxBatch
           q == cmpQ \o reqQ
           b == SubSeq(cmpQ, 1, n)
           c == SubSeq(cmpQ, n + 1, Len(cmpQ))
<1>3. /\ Len(cmpQ) \in Nat /\ Len(cmpQ) > 0 /\ Len(reqQ) \in Nat
      /\ MaxBatch \in Nat /\ MaxBatch > 0
  BY <1>2, EmptyFacts, LenProperties, BatchAssumption
<1>4. n \in 1 .. MaxBatch /\ n \in 1 .. Len(cmpQ)
  BY <1>3
<1>5. Batch(cmpQ, MaxBatch) = b /\ Rest(cmpQ, MaxBatch) = c
  BY DEF Batch, Rest
<1>6. /\ b \in Seq(Tags) /\ c \in Seq(Tags)
      /\ ToSet(cmpQ) = ToSet(b) \union ToSet(c)
      /\ ToSet(b) \intersect ToSet(c) = {}
  <2>1. NoDup(cmpQ)
    BY DEF IInv, Inv, QueuesOK
  <2> HIDE DEF b, c
  <2> QED BY <1>2, <1>5, <2>1, TagBatch
<1> HIDE DEF n, q, b, c
<1>7. ToSet(rspQ') = ToSet(rspQ) \union ToSet(b) /\ cmpQ' = c
  BY <1>2, <1>5, <1>6, JoinFacts
<1>8. /\ q \in Seq(Tags) /\ Len(q) = Len(cmpQ) + Len(reqQ)
      /\ ToSet(q) = ToSet(cmpQ) \union ToSet(reqQ)
      /\ Len(q) \in Nat /\ n <= Len(q) /\ n \in 1 .. Len(q)
  <2>1. /\ q \in Seq(Tags) /\ Len(q) = Len(cmpQ) + Len(reqQ)
        /\ ToSet(q) = ToSet(cmpQ) \union ToSet(reqQ)
    BY <1>2, JoinFacts DEF q
  <2> QED BY <2>1, <1>3, <1>4
\* The batch is the first part of the row of the two queues.
<1>9. SubSeq(q, 1, n) = b
  BY <1>2, <1>4, RowOfSlots DEF q, b
<1>10. SubSeq(q, n + 1, Len(q)) = c \o reqQ
  BY <1>2, <1>4, RowOfSlots DEF q, c
<1>11. /\ Len(Waiting) = Len(q) /\ SubSeq(Waiting, 1, n) = Image(scsi_cmd, b)
       /\ SubSeq(Waiting, n + 1, Len(Waiting)) = Waiting'
  <2>1. Waiting = Image(scsi_cmd, q)
    BY DEF Waiting, q
  <2>2. Len(Waiting) = Len(q)
    BY <1>8, <2>1, RowOfCommands
  <2>3. /\ 1 \in 1 .. Len(q) + 1 /\ n \in 0 .. Len(q)
        /\ n + 1 \in 1 .. Len(q) + 1 /\ Len(q) \in 0 .. Len(q)
    BY <1>8
  <2>4. Image(scsi_cmd, SubSeq(q, 1, n)) = SubSeq(Waiting, 1, n)
    BY <1>8, <2>1, <2>3, RowOfCommands
  <2>5. Image(scsi_cmd, SubSeq(q, n + 1, Len(q)))
          = SubSeq(Waiting, n + 1, Len(q))
    BY <1>8, <2>1, <2>3, RowOfCommands
  <2>6. Waiting' = Image(scsi_cmd, c \o reqQ)
    BY <1>2, <1>7 DEF Waiting
  <2> QED BY <1>9, <1>10, <2>2, <2>4, <2>5, <2>6
<1>12. ASSUME NEW z \in Scs
       PROVE  StateIs(z)' = IF z \in ToSet(SubSeq(Waiting, 1, n))
                            THEN "handed out" ELSE StateIs(z)
  <2>1. z \in ToSet(SubSeq(Waiting, 1, n)) <=> \E t \in ToSet(b) : scsi_cmd[t] = z
    <3>1. z \in ToSet(Image(scsi_cmd, b)) <=> \E t \in ToSet(b) : scsi_cmd[t] = z
      BY <1>6, RowOfCommands
    <3> QED BY <1>11, <3>1
  <2>2. ToSet(b) \subseteq Live /\ ToSet(b) \intersect ToSet(reqQ) = {}
    BY <1>6, LiveMember DEF Queued, IInv, Inv, QueuesOK
  <2>3. CASE \E t \in ToSet(b) : scsi_cmd[t] = z
    <3>1. PICK t \in ToSet(b) : scsi_cmd[t] = z
      BY <2>3
    <3>2. alloc'[z] = NoTag
      BY <1>2, <2>2, <3>1 DEF IInv, Inv, Owners, AllocOwned
    <3>3. \A u \in Queued : scsi_cmd[u] = z => u = t
      BY <2>2, <3>1, LiveMember DEF IInv, Inv, Owners, LiveOnce
    <3>4. ~ Waits(z)'
      BY <1>2, <1>6, <1>7, <2>2, <3>1, <3>3 DEF Waits, Queued
    <3>5. IsOut(z)'
      BY <1>2, <1>7, <3>1 DEF IsOut
    <3> QED BY <2>1, <3>1, <3>2, <3>4, <3>5 DEF StateIs
  <2>4. CASE ~ \E t \in ToSet(b) : scsi_cmd[t] = z
    <3>1. Waits(z)' = Waits(z)
      BY <1>2, <1>6, <1>7, <2>4 DEF Waits
    <3>2. IsOut(z)' = IsOut(z)
      BY <1>2, <1>7, <2>4 DEF IsOut
    <3> QED BY <1>2, <2>1, <2>4, <3>1, <3>2 DEF StateIs
  <2> QED BY <2>3, <2>4
<1>13. ServiceStates' = [s \in Scs |-> IF s \in ToSet(SubSeq(Waiting, 1, n))
                                      THEN "handed out" ELSE ServiceStates[s]]
  BY <1>1, <1>12, States, StatesAfter DEF ServiceStates
<1>14. Service!HandOut(n)
  BY <1>4, <1>8, <1>11, <1>13 DEF Service!HandOut, Service!ToSet, ToSet
<1> QED BY <1>4, <1>14


\* A thread unlinks a slot to complete its command: an answer, or a drain.
LEMMA CloseStep ==
    ASSUME IInv, IInv', NEW t \in Queued, RemoveQ(t),
           UNCHANGED <<scsi_cmd, mid, alloc>>
    PROVE  Service!Close(scsi_cmd[t])
<1>1. Types /\ Types' /\ QueuesOK
  BY DEF IInv, Inv
<1>2. PICK s : s = scsi_cmd[t]
  OBVIOUS
<1>3. /\ s \in Scs /\ mid[s] = "driver" /\ alloc[s] = NoTag
      /\ \A u \in Queued : scsi_cmd[u] = s => u = t
  BY <1>2, LiveMember, LiveDriven DEF IInv, Inv, Owners, LiveOnce, AllocOwned
<1>4. /\ ToSet(reqQ') = ToSet(reqQ) \ {t} /\ ToSet(cmpQ') = ToSet(cmpQ) \ {t}
      /\ ToSet(rspQ') = ToSet(rspQ) \ {t}
  BY <1>1, RemoveQShrinks
<1>5. StateIs(s)' = "closing"
  <2>1. ~ Waits(s)' /\ ~ IsOut(s)'
    BY <1>3, <1>4 DEF Waits, IsOut, Queued
  <2> QED BY <1>3, <2>1 DEF StateIs
<1>6. ASSUME NEW z \in Scs, z # s PROVE StateIs(z)' = StateIs(z)
  BY <1>2, <1>4, <1>6 DEF StateIs, Waits, IsOut
<1>7. ServiceStates' = [ServiceStates EXCEPT ![s] = "closing"]
  BY <1>1, <1>5, <1>6, States, StatesAfter DEF ServiceStates
<1>8. /\ reqQ \in Seq(Tags) /\ cmpQ \in Seq(Tags) /\ t \in Tags
      /\ reqQ' = Del(reqQ, t) /\ cmpQ' = Del(cmpQ, t)
      /\ ToSet(cmpQ) \intersect ToSet(reqQ) = {}
  BY <1>1, QueueTypes DEF RemoveQ, QueuesOK
<1>9. CASE t \in ToSet(cmpQ) \union ToSet(reqQ)
  <2> DEFINE q == cmpQ \o reqQ
  <2>1. q \in Seq(Tags)
    BY <1>1, WaitingSlots
  <2>2. PICK k \in 1 .. Len(q) : q[k] = t /\ cmpQ' \o reqQ' = RemoveAt(q, k)
    <3>1. \E k \in 1 .. Len(q) :
              q[k] = t /\ Del(cmpQ, t) \o Del(reqQ, t) = RemoveAt(q, k)
      BY <1>8, <1>9, SlotLeavesRow
    <3> QED BY <1>8, <3>1
  <2> HIDE DEF q
  <2>3. Waiting = Image(scsi_cmd, q) /\ Waiting' = Image(scsi_cmd, RemoveAt(q, k))
    BY <2>2 DEF Waiting, q
  <2>4. /\ Waiting' = RemoveAt(Waiting, k) /\ Waiting[k] = s
        /\ k \in DOMAIN Waiting
    BY <1>2, <2>1, <2>2, <2>3, RowOfCommands
  <2>5. ServiceStates[s] = "waiting"
    <3>1. StateIs(s) = "waiting"
      BY <1>2, <1>3, <1>9 DEF StateIs, Waits
    <3> QED BY <1>1, <1>3, <3>1, States DEF ServiceStates
  <2>6. \E i \in DOMAIN Waiting :
            Waiting[i] = s /\ Waiting' = Service!RemoveAt(Waiting, i)
    BY <2>4 DEF Service!RemoveAt, RemoveAt
  <2> QED BY <1>2, <1>7, <2>5, <2>6 DEF Service!Close
<1>10. CASE t \notin ToSet(cmpQ) \union ToSet(reqQ)
  <2>1. t \in ToSet(rspQ) /\ ~ Waits(s)
    BY <1>3, <1>10 DEF Queued, Waits
  <2>2. ServiceStates[s] = "handed out"
    <3>1. StateIs(s) = "handed out"
      BY <1>2, <1>3, <2>1 DEF StateIs, IsOut
    <3> QED BY <1>1, <1>3, <3>1, States DEF ServiceStates
  <2>3. Waiting' = Waiting
    <3>1. reqQ' = reqQ /\ cmpQ' = cmpQ
      BY <1>8, <1>10 DEF Del, On
    <3> QED BY <3>1 DEF Waiting
  <2> QED BY <1>2, <1>7, <2>2, <2>3 DEF Service!Close
<1> QED BY <1>9, <1>10

\* The thread that unlinked a slot completes its command.
LEMMA CompleteStep ==
    ASSUME IInv, IInv', NEW a \in Workers, pc[a] \in {"done", "popped"},
           ScsiDone(scsi_cmd[tag[a]]),
           UNCHANGED <<scsi_cmd, alloc, reqQ, cmpQ, rspQ>>
    PROVE  \E s \in Scs : Service!Complete(s)
<1>1. Types /\ Types'
  BY DEF IInv, Inv
<1>2. PICK s, t : t = tag[a] /\ s = scsi_cmd[t]
  OBVIOUS
<1>3. t \in Live /\ t \notin Queued
  BY <1>2, LiveMember DEF IInv, Inv, Threads, Places, TagTaken
<1>4. /\ s \in Scs /\ mid[s] = "driver" /\ alloc[s] = NoTag
      /\ \A u \in Queued : scsi_cmd[u] # s
  BY <1>2, <1>3, LiveMember, LiveDriven DEF IInv, Inv, Owners, LiveOnce, AllocOwned
<1>5. mid' = [mid EXCEPT ![s] = "idle"] /\ mid \in [Scs -> {"idle", "driver"}]
  BY <1>2, <1>4 DEF ScsiDone, IInv, TypeOK
<1>6. ~ Waits(s) /\ ~ IsOut(s) /\ ~ Waits(s)' /\ ~ IsOut(s)'
  BY <1>4 DEF Waits, IsOut, Queued
<1>7. StateIs(s) = "closing" /\ StateIs(s)' = "idle"
  BY <1>4, <1>5, <1>6 DEF StateIs
<1>8. ASSUME NEW z \in Scs, z # s PROVE StateIs(z)' = StateIs(z)
  BY <1>5, <1>8 DEF StateIs, Waits, IsOut
<1>9. ServiceStates' = [ServiceStates EXCEPT ![s] = "idle"]
  BY <1>1, <1>7, <1>8, States, StatesAfter DEF ServiceStates
<1>10. ServiceStates[s] = "closing" /\ Waiting' = Waiting
  BY <1>1, <1>4, <1>7, States DEF ServiceStates, Waiting
<1> QED BY <1>4, <1>9, <1>10 DEF Service!Complete

\* What the service does not see.
LEMMA Unseen ==
    ASSUME UNCHANGED <<scsi_cmd, mid, alloc, reqQ, cmpQ, rspQ>>
    PROVE  UNCHANGED <<ServiceStates, Waiting>>
  BY DEF ServiceStates, Waiting, ServiceState

LEMMA ServiceStep ==
    ASSUME CopyFaults = FALSE, IInv, IInv', [Next]_vars
    PROVE  [Service!SNext]_(Service!svars)
<1> USE DEF Service!svars
<1>1. ASSUME NEW s \in Scs, Queue(s) PROVE Service!SNext
  BY <1>1, SubmitStep, PostStep DEF Queue, Service!SNext
<1>2. ASSUME StartIo PROVE UNCHANGED <<ServiceStates, Waiting>>
  BY <1>2, ShiftStep
<1>3. ASSUME NEW r \in Readers, Read(r)
      PROVE  Service!SNext \/ UNCHANGED <<ServiceStates, Waiting>>
  <2>1. CASE ReadTake(r)
    BY <2>1, HandOutStep DEF Service!SNext
  <2>2. CASE StampBegin(r) \/ StampFields(r) \/ ReadDeliver(r)
    <3>1. UNCHANGED <<scsi_cmd, mid, alloc, reqQ, cmpQ, rspQ>>
      BY <2>2 DEF StampBegin, StampFields, ReadDeliver, slotVars, queueVars
    <3> QED BY <3>1, Unseen
  <2> QED BY <1>3, <2>1, <2>2 DEF Read, ReadFault
<1>4. ASSUME NEW w \in Writers, Write(w)
      PROVE  Service!SNext \/ UNCHANGED <<ServiceStates, Waiting>>
  <2>1. ASSUME NEW m \in user, RespondTake(w, m) PROVE Service!SNext
    <3>1. /\ m.tag \in Queued /\ RemoveQ(m.tag)
          /\ UNCHANGED <<scsi_cmd, mid, alloc>>
      BY <2>1 DEF RespondTake, Answerable
    <3>2. scsi_cmd[m.tag] \in Scs
      BY <3>1, LiveMember DEF IInv, Inv, Owners, LiveOwned
    <3> QED BY <3>1, <3>2, CloseStep DEF Service!SNext
  <2>2. CASE RespondDone(w)
    <3>1. /\ pc[w] = "done" /\ ScsiDone(scsi_cmd[tag[w]])
          /\ UNCHANGED <<scsi_cmd, alloc, reqQ, cmpQ, rspQ>> /\ w \in Workers
      BY <2>2 DEF RespondDone, slotVars, queueVars, IInv, Inv, Threads, Workers
    <3> QED BY <3>1, CompleteStep DEF Service!SNext
  <2>3. CASE (\E m \in user : DataFind(w, m)) \/ DataCopy(w) \/ RespondPut(w)
    <3>1. UNCHANGED <<scsi_cmd, mid, alloc, reqQ, cmpQ, rspQ>>
      BY <2>3 DEF DataFind, DataCopy, RespondPut, slotVars, queueVars
    <3> QED BY <3>1, Unseen
  <2> QED BY <1>4, <2>1, <2>2, <2>3 DEF Write
<1>5. ASSUME NEW m \in Drainers, Drain(m)
      PROVE  Service!SNext \/ UNCHANGED <<ServiceStates, Waiting>>
  <2>1. CASE DrainPop(m)
    <3>1. PICK t : t = Head(StageQueue(m))
      OBVIOUS
    <3>2. RemoveQ(t) /\ UNCHANGED <<scsi_cmd, mid, alloc>>
      BY <2>1, <3>1 DEF DrainPop, slotVars
    <3>3. t \in Queued
      BY <2>1, <3>1, PoppedLinked DEF DrainPop, IInv, Inv
    <3>4. scsi_cmd[t] \in Scs
      BY <3>3, LiveMember DEF IInv, Inv, Owners, LiveOwned
    <3> QED BY <3>2, <3>3, <3>4, CloseStep DEF Service!SNext
  <2>2. CASE DrainDone(m)
    <3>1. /\ pc[m] = "popped" /\ m \in Workers
          /\ UNCHANGED <<scsi_cmd, alloc, reqQ, cmpQ, rspQ>>
      BY <2>2 DEF DrainDone, queueVars, Workers
    <3>2. scsi_cmd[tag[m]] \in Scs
      BY <3>1, LiveMember DEF IInv, Inv, Owners, LiveOwned
    <3>3. ScsiDone(scsi_cmd[tag[m]])
      BY <2>2, <3>2, CmdAssumption DEF DrainDone
    <3> QED BY <3>1, <3>3, CompleteStep DEF Service!SNext
  <2>3. CASE DrainStart(m) \/ DrainPut(m) \/ DrainNext(m)
    <3>1. UNCHANGED <<scsi_cmd, mid, alloc, reqQ, cmpQ, rspQ>>
      BY <2>3 DEF DrainStart, DrainPut, DrainNext, slotVars, queueVars
    <3> QED BY <3>1, Unseen
  <2> QED BY <1>5, <2>1, <2>2, <2>3 DEF Drain
<1>6. CASE UNCHANGED vars
  <2>1. UNCHANGED <<scsi_cmd, mid, alloc, reqQ, cmpQ, rspQ>>
    BY <1>6 DEF vars, slotVars, queueVars
  <2> QED BY <2>1, Unseen
<1> QED BY <1>1, <1>2, <1>3, <1>4, <1>5, <1>6 DEF Next

LEMMA ServiceInit == Init => Service!SInit
<1> SUFFICES ASSUME Init PROVE Service!SInit
  OBVIOUS
<1>1. Types
  BY InitIInv DEF IInv, Inv
<1>2. /\ reqQ = <<>> /\ cmpQ = <<>> /\ rspQ = <<>>
      /\ \A s \in Scs : alloc[s] = NoTag /\ mid[s] = "idle"
  BY DEF Init
<1>3. \A s \in Scs : StateIs(s) = "idle"
  BY <1>2, EmptyFacts DEF StateIs, Waits, IsOut
<1>4. ServiceStates = [s \in Scs |-> "idle"]
  BY <1>1, <1>3, States DEF ServiceStates
<1>5. Waiting = <<>>
  <2>1. cmpQ \o reqQ = <<>> /\ Len(<<>>) = 0 /\ 1 .. 0 = {}
    BY <1>2
  <2> QED BY <2>1 DEF Waiting, Image
<1> QED BY <1>4, <1>5 DEF Service!SInit

\* As long as no copy_to_user fails, the driver keeps the safety part of the
\* promise: commands wait their turn, are handed out in order and in batches,
\* and are completed once, whatever slots, queues and threads it uses.
THEOREM ImplementsService == CopyFaults = FALSE => (Spec => Service!Safety)
<1> SUFFICES ASSUME CopyFaults = FALSE PROVE Spec => Service!Safety
  OBVIOUS
<1>1. Spec => []IInv
  BY Inductive DEF NoRelink
<1>2. IInv /\ IInv' /\ [Next]_vars => [Service!SNext]_(Service!svars)
  BY ServiceStep
<1> QED BY <1>1, <1>2, ServiceInit, PTL DEF Spec, Service!Safety

-----------------------------------------------------------------------------
(***************************************************************************)
(* Error handling.  A handler that has looked up the slot of its command    *)
(* holds a reference to it, and in release the reference of the queue too:  *)
(* they are lent to it, and the driver guarantees Inv(lent) all the while.  *)
(*                                                                         *)
(* A slot that was the command's when the handler took its reference stays  *)
(* so until the handler gives it back, because a slot somebody holds is not *)
(* handed out: whoever answers or drains the command meanwhile.  And a      *)
(* command knows the slot it is live in, so that the handler, which has it  *)
(* from scribble, unlinks or drains the only one there may be.              *)
(***************************************************************************)

\* The handler has looked up its slot and not let go of it.
Handling == {"abort", "judge", "release", "verdict", "reset wait", "drain"}
Holds(x, t) == eh[x].pc \in Handling /\ eh[x].c = t
Frees(x, t) == eh[x].pc = "release" /\ eh[x].c = t

EhTypes ==
    /\ scribble \in [Scs -> Tags \union {NoTag}]
    /\ eh \in [Drainers -> [pc : Handling \union {"idle", "reset"},
                            sc : Scs \union {NoCmd}, c : Tags \union {NoTag},
                            ok : BOOLEAN]]

\* What is lent: one reference, or two while the handler releases the slot.
LentOut(lent) == \A t \in Tags :
    /\ lent[t] > 0 <=> \E x \in Drainers : Holds(x, t)
    /\ lent[t] = 2 <=> \E x \in Drainers : Frees(x, t)
Loans == \E lent \in [Tags -> 0 .. 2] : Inv(lent) /\ LentOut(lent)

\* Each handler is at work on a command of its own.
Apart == \A x, y \in Drainers :
    eh[x].pc # "idle" /\ eh[y].pc # "idle" /\ eh[x].sc = eh[y].sc => x = y

\* The handler's command is late, and its slot is the one the command was given.
Pursues(x) == eh[x].pc # "idle" =>
    /\ eh[x].sc \in Scs /\ mid[eh[x].sc] = "late"
    /\ eh[x].pc \in Handling => /\ eh[x].c \in Tags /\ eh[x].c = scribble[eh[x].sc]
                                /\ scsi_cmd[eh[x].c] = eh[x].sc
                                /\ \A s \in Scs : alloc[s] # eh[x].c

\* Once the handler has unlinked the slot nothing is left of the command; if it
\* found it unlinked, somebody may be about to complete it.
Clears(x) ==
    /\ eh[x].pc = "release" => /\ \A t \in Live : scsi_cmd[t] # eh[x].sc
                               /\ ~ Owned(eh[x].c)
    /\ eh[x].pc = "verdict" /\ eh[x].ok => \A t \in Queued : scsi_cmd[t] # eh[x].sc

\* While it drains the queues, its own slot, if linked, is ahead.
Corners(x) == eh[x].pc = "drain" /\ eh[x].c \in Queued => eh[x].c \in Ahead(x)

\* Only a handler that resets the device drains, and it is done with a slot when it
\* goes on to the next queue.
Sweeps(x) == /\ eh[x].pc # "drain" => stage[x] = "off"
             /\ stage[x] = "off" => pc[x] = "idle"

\* A command knows the slot it is live in.
Saved == \A t \in Live : scribble[scsi_cmd[t]] = t

\* A slot that queuecommand has taken and not linked yet is no command's.
Unbound == \A s \in Scs : alloc[s] # NoTag => scsi_cmd[alloc[s]] = NoCmd

Good(x)  == Pursues(x) /\ Clears(x) /\ Corners(x) /\ Sweeps(x)
Recovery == EhTypes /\ Loans /\ Apart /\ Saved /\ Unbound
            /\ \A x \in Drainers : Good(x)
EhInv    == Sound => Recovery

\* A reference to a slot of the pool is lent.
LEMMA LendFrame ==
    ASSUME NEW lent \in [Tags -> Nat], Inv(lent), NEW t \in cmd_pool_bits, CmdGet(t),
           NEW more \in [Tags -> Nat], more[t] = lent[t] + 1,
           \A u \in Tags : u # t => more[u] = lent[u],
           UNCHANGED <<stat, sn, scsi_cmd, cmd_pool_bits, reqQ, cmpQ, rspQ, cmd_sn,
                       io_running, mid, dup, alloc, rd, pc, tag, cur, msg, stage,
                       snap, user>>
    PROVE  Inv(more)'
<1> USE DEF Inv
<1>1. /\ t \in Tags
      /\ refcnt' = [refcnt EXCEPT ![t] = @ + 1] /\ refcnt \in [Tags -> Nat]
  BY DEF CmdGet, Types
<1>2. /\ refcnt' \in [Tags -> Nat] /\ refcnt'[t] = refcnt[t] + 1
      /\ \A u \in Tags : u # t => refcnt'[u] = refcnt[u]
  BY <1>1
<1>3. /\ Queued' = Queued /\ Live' = Live /\ QueuesOK' /\ IoRunningExact'
      /\ Threads' /\ NoDoubleDone'
  BY DEF Queued, Live, Closing, QueuesOK, IoRunningExact, Threads, NoDoubleDone
<1>4. Types'
  BY <1>2 DEF Types
<1>5. \A u \in Tags : Owned(u)' <=> Owned(u)
  BY <1>3 DEF Owned
<1>6. Places(more)'
  <2>1. QueuedTaken' /\ AllocTaken' /\ AllocOnce' /\ TagTaken' /\ TagOnce'
    BY <1>3 DEF Places, QueuedTaken, AllocTaken, AllocOnce, TagTaken, TagOnce
  <2>2. TakenSomewhere(more)'
    <3>1. \A u \in cmd_pool_bits : u \in Tags /\ (Owned(u) \/ lent[u] > 0)
      BY DEF Places, TakenSomewhere, Types
    <3>2. more[t] > 0
      BY <1>1
    <3> QED BY <1>5, <3>1, <3>2 DEF TakenSomewhere
  <2> QED BY <2>1, <2>2 DEF Places
<1>7. Owners'
  BY <1>3 DEF Owners, LiveOwned, LiveOnce, AllocOwned, DriverHeld
<1>8. Refs(more)'
  <2>1. \A u \in Tags : /\ lent[u] \in Nat /\ more[u] \in Nat
                        /\ u # t => more[u] = lent[u]
    OBVIOUS
  <2>2. ASSUME NEW m \in Drainers, pc[m] = "put"
        PROVE  /\ tag[m] \in Tags /\ Owned(tag[m])
               /\ refcnt[tag[m]] = lent[tag[m]] + 2
    BY <2>2, PoolAssumption DEF Workers, Threads, Types, Places, TagTaken, Refs, Owned
  <2>3. ~ Owned(t) => refcnt[t] = lent[t]
    BY <1>1 DEF Places, TakenSomewhere, Refs
  <2>4. ASSUME NEW u \in Tags, Owned(u), \A m \in Drainers : pc[m] = "put" => tag[m] # u
        PROVE  refcnt'[u] = more[u] + 1
    BY <1>1, <1>2, <2>1, <2>4 DEF Refs
  <2>5. ASSUME NEW m \in Drainers, pc[m] = "put"
        PROVE  refcnt'[tag[m]] = more[tag[m]] + 2
    BY <1>1, <1>2, <2>1, <2>2, <2>5
  <2>6. ASSUME NEW u \in Tags, more[u] > 0
        PROVE  u \in cmd_pool_bits /\ (Owned(u) \/ refcnt'[u] = more[u])
    <3>1. CASE u = t
      BY <1>1, <1>2, <2>1, <2>3, <3>1
    <3>2. CASE u # t
      BY <1>2, <2>1, <2>6, <3>2 DEF Refs
    <3> QED BY <3>1, <3>2
  <2> QED BY <1>5, <2>4, <2>5, <2>6 DEF Refs
<1> QED BY <1>3, <1>4, <1>6, <1>7, <1>8

\* A lent reference comes back; in the same step the midlayer may take back late
\* commands for which no slot is live.
LEMMA ReturnFrame ==
    ASSUME NEW lent \in [Tags -> Nat], Inv(lent), NEW t \in Tags, CmdPut(t, 1),
           NEW less \in [Tags -> Nat], lent[t] = less[t] + 1,
           \A u \in Tags : u # t => less[u] = lent[u],
           mid' \in [Scs -> {"idle", "driver", "late"}],
           \A s \in Scs : mid'[s] = mid[s] \/ /\ mid[s] = "late" /\ mid'[s] = "idle"
                                              /\ \A u \in Live : scsi_cmd[u] # s,
           UNCHANGED <<stat, sn, scsi_cmd, reqQ, cmpQ, rspQ, cmd_sn, io_running, dup,
                       alloc, rd, pc, tag, cur, msg, stage, snap, user>>
    PROVE  Inv(less)'
<1> USE DEF Inv
<1>1. /\ t \in cmd_pool_bits /\ less[t] \in Nat
      /\ refcnt' = [refcnt EXCEPT ![t] = @ - 1] /\ refcnt \in [Tags -> Nat]
      /\ cmd_pool_bits' = IF refcnt[t] = 1 THEN cmd_pool_bits \ {t}
                                           ELSE cmd_pool_bits
  <2>1. less[t] \in Nat /\ lent[t] > 0
    OBVIOUS
  <2> QED BY <2>1 DEF CmdPut, Types, Refs
<1>2. refcnt[t] = IF Owned(t)
                  THEN IF \E m \in Drainers : pc[m] = "put" /\ tag[m] = t
                       THEN less[t] + 3 ELSE less[t] + 2
                  ELSE less[t] + 1
  <2>1. CASE ~ Owned(t)
    BY <1>1, <2>1 DEF Refs
  <2>2. CASE Owned(t) /\ \E m \in Drainers : pc[m] = "put" /\ tag[m] = t
    BY <1>1, <2>2 DEF Refs
  <2>3. CASE Owned(t) /\ ~ \E m \in Drainers : pc[m] = "put" /\ tag[m] = t
    BY <1>1, <2>3 DEF Refs
  <2> QED BY <2>1, <2>2, <2>3
<1>3. /\ refcnt' \in [Tags -> Nat] /\ refcnt'[t] = refcnt[t] - 1
      /\ \A u \in Tags : u # t => refcnt'[u] = refcnt[u]
      /\ cmd_pool_bits' \subseteq cmd_pool_bits
      /\ \A u \in cmd_pool_bits : \/ u \in cmd_pool_bits'
                                  \/ u = t /\ ~ Owned(t) /\ less[t] = 0
  <2>1. refcnt[t] \in Nat /\ refcnt[t] - 1 \in Nat
    BY <1>1, <1>2
  <2>2. refcnt[t] = 1 => ~ Owned(t) /\ less[t] = 0
    BY <1>1, <1>2
  <2> QED BY <1>1, <2>1, <2>2
<1>4. /\ Queued' = Queued /\ Live' = Live /\ QueuesOK' /\ IoRunningExact'
      /\ Threads' /\ NoDoubleDone'
  BY DEF Queued, Live, Closing, QueuesOK, IoRunningExact, Threads, NoDoubleDone
<1>5. Types'
  BY <1>3 DEF Types
<1>6. \A u \in Tags : Owned(u)' <=> Owned(u)
  BY <1>4 DEF Owned
<1>7. Places(less)'
  <2>1. \A u \in Tags : Owned(u) /\ u \in cmd_pool_bits => u \in cmd_pool_bits'
    BY <1>3
  <2>2. QueuedTaken' /\ AllocTaken' /\ AllocOnce'
    <3>1. Queued \subseteq Tags /\ \A u \in Queued : Owned(u)
      BY QueueTypes DEF Owned
    <3>2. \A s \in Scs : alloc[s] # NoTag => alloc[s] \in Tags /\ Owned(alloc[s])
      BY DEF Types, Owned
    <3> QED BY <1>4, <2>1, <3>1, <3>2 DEF Places, QueuedTaken, AllocTaken, AllocOnce
  <2>3. TagTaken' /\ TagOnce'
    <3>1. \A a \in Workers : tag[a] # NoTag => tag[a] \in Tags /\ Owned(tag[a])
      BY DEF Types, Owned
    <3> QED BY <1>4, <2>1, <3>1 DEF Places, TagTaken, TagOnce
  <2>4. TakenSomewhere(less)'
    <3> SUFFICES ASSUME NEW u \in cmd_pool_bits', ~ Owned(u)'
                 PROVE  less[u] > 0
      BY DEF TakenSomewhere
    <3>1. u \in cmd_pool_bits /\ u \in Tags /\ ~ Owned(u)
      BY <1>3, <1>6 DEF Types
    <3>2. CASE u = t
      <4>1. refcnt[t] = less[t] + 1
        BY <1>2, <3>1, <3>2
      <4>2. refcnt[t] # 1
        BY <1>1, <3>2
      <4> QED BY <1>1, <3>2, <4>1, <4>2
    <3>3. CASE u # t
      BY <3>1, <3>3 DEF Places, TakenSomewhere
    <3> QED BY <3>2, <3>3
  <2> QED BY <2>2, <2>3, <2>4 DEF Places
<1>8. Owners'
  <2>1. LiveOwned' /\ LiveOnce'
    BY <1>4 DEF Owners, LiveOwned, LiveOnce
  <2>2. AllocOwned' /\ DriverHeld'
    BY <1>4 DEF Owners, AllocOwned, DriverHeld
  <2> QED BY <2>1, <2>2 DEF Owners
<1>9. Refs(less)'
  <2>1. ASSUME NEW u \in Tags, Owned(u)',
               \A m \in Drainers : pc'[m] = "put" => tag'[m] # u
        PROVE  refcnt'[u] = less[u] + 1
    <3>1. Owned(u) /\ \A m \in Drainers : pc[m] = "put" => tag[m] # u
      BY <1>6, <2>1
    <3>2. CASE u = t
      BY <1>1, <1>2, <1>3, <3>1, <3>2
    <3>3. CASE u # t
      BY <1>3, <3>1, <3>3 DEF Refs
    <3> QED BY <3>2, <3>3
  <2>2. ASSUME NEW m \in Drainers, pc'[m] = "put"
        PROVE  refcnt'[tag'[m]] = less[tag'[m]] + 2
    <3>1. /\ m \in Workers /\ pc[m] = "put" /\ tag'[m] = tag[m] /\ tag[m] \in Tags
          /\ Owned(tag[m])
      BY <2>2 DEF Workers, Threads, Types, Owned
    <3>2. CASE tag[m] = t
      BY <1>1, <1>2, <1>3, <3>1, <3>2
    <3>3. CASE tag[m] # t
      BY <1>3, <3>1, <3>3 DEF Refs
    <3> QED BY <3>2, <3>3
  <2>3. ASSUME NEW u \in Tags, less[u] > 0
        PROVE  u \in cmd_pool_bits' /\ (Owned(u)' \/ refcnt'[u] = less[u])
    <3>1. CASE u = t
      BY <1>1, <1>2, <1>3, <1>6, <2>3, <3>1
    <3>2. CASE u # t
      BY <1>3, <1>6, <2>3, <3>2 DEF Refs
    <3> QED BY <3>1, <3>2
  <2> QED BY <2>1, <2>2, <2>3 DEF Refs
<1> QED BY <1>4, <1>5, <1>7, <1>8, <1>9

\* A handler unlinks the slot of a late command: it takes over the reference of
\* the queue.
LEMMA TakeFrame ==
    ASSUME NEW lent \in [Tags -> Nat], Inv(lent), NEW t \in Queued, RemoveQ(t),
           IoStops,
           mid[scsi_cmd[t]] = "late",
           NEW more \in [Tags -> Nat], more[t] = lent[t] + 1,
           \A u \in Tags : u # t => more[u] = lent[u],
           UNCHANGED <<stat, sn, scsi_cmd, refcnt, cmd_pool_bits, cmd_sn, mid, dup,
                       alloc, rd, pc, tag, cur, msg, stage, snap, user>>
    PROVE  Inv(more)' /\ Queued' = Queued \ {t} /\ Live' = Live \ {t} /\ ~ Owned(t)'
<1> USE DEF Inv
<1>1. /\ reqQ' \in Seq(Tags) /\ cmpQ' \in Seq(Tags) /\ rspQ' \in Seq(Tags)
      /\ QueuesOK' /\ Queued' = Queued \ {t}
      /\ Len(reqQ') + Len(cmpQ') + Len(rspQ')
           = Len(reqQ) + Len(cmpQ) + Len(rspQ) - 1
      /\ Len(reqQ') + Len(cmpQ') + Len(rspQ') \in Nat
  BY RemoveQFacts
<1>2. io_running' = Len(reqQ') + Len(cmpQ') + Len(rspQ') /\ io_running' \in Nat
  <2>1. io_running' = Len(reqQ) + Len(cmpQ) + Len(rspQ) - 1
    BY DEF IoStops, IoRunningExact
  <2> QED BY <1>1, <2>1
<1>3. /\ t \in Tags /\ t \in cmd_pool_bits /\ t # NoTag
      /\ \A a \in Workers : tag[a] # t
      /\ \A s \in Scs : alloc[s] # t
  <2>1. t \in Tags /\ t # NoTag /\ t \in cmd_pool_bits
    BY QueueTypes, PoolAssumption DEF Places, QueuedTaken
  <2> QED BY <2>1 DEF Places, TagTaken, AllocTaken
<1>4. Live' = Live \ {t}
  BY <1>1, <1>3 DEF Live, Closing
<1>5. /\ ~ Owned(t)' /\ Owned(t)
      /\ \A u \in Tags : u # t => (Owned(u)' <=> Owned(u))
  BY <1>1, <1>3 DEF Owned
<1>6. Types' /\ Threads' /\ NoDoubleDone' /\ IoRunningExact'
  BY <1>1, <1>2 DEF Types, Threads, NoDoubleDone, IoRunningExact
<1>7. Places(more)'
  <2>1. QueuedTaken' /\ AllocTaken' /\ AllocOnce' /\ TagTaken' /\ TagOnce'
    BY <1>1 DEF Places, QueuedTaken, AllocTaken, AllocOnce, TagTaken, TagOnce
  <2>2. TakenSomewhere(more)'
    <3>1. \A u \in cmd_pool_bits : u # t => Owned(u) \/ lent[u] > 0
      BY DEF Places, TakenSomewhere
    <3>2. more[t] > 0
      BY <1>3
    <3>3. cmd_pool_bits \subseteq Tags
      BY DEF Types
    <3> QED BY <1>5, <3>1, <3>2, <3>3 DEF TakenSomewhere
  <2> QED BY <2>1, <2>2 DEF Places
<1>8. Owners'
  <2>1. LiveOwned' /\ LiveOnce' /\ AllocOwned'
    BY <1>4 DEF Owners, LiveOwned, LiveOnce, AllocOwned
  <2>2. DriverHeld'
    BY <1>4 DEF Owners, DriverHeld
  <2> QED BY <2>1, <2>2 DEF Owners
<1>9. Refs(more)'
  <2>1. ASSUME NEW m \in Drainers, pc[m] = "put"
        PROVE  tag[m] \in Tags /\ tag[m] # t
    BY <1>3, <2>1 DEF Workers, Threads, Types
  <2>2. refcnt[t] = more[t]
    BY <1>3, <1>5, <2>1 DEF Refs
  <2> QED BY <1>3, <1>5, <2>1, <2>2 DEF Refs
<1> QED BY <1>1, <1>4, <1>5, <1>6, <1>7, <1>8, <1>9

\* A command times out that is in no queuecommand call.
LEMMA LateFrame ==
    ASSUME NEW lent \in [Tags -> Nat], Inv(lent), NEW s \in Scs,
           mid[s] = "driver", alloc[s] = NoTag, mid' = [mid EXCEPT ![s] = "late"],
           UNCHANGED <<stat, sn, scsi_cmd, refcnt, cmd_pool_bits, reqQ, cmpQ, rspQ,
                       cmd_sn, io_running, dup, alloc, rd, pc, tag, cur, msg, stage,
                       snap, user>>
    PROVE  Inv(lent)' /\ Queued' = Queued /\ Live' = Live
<1> USE DEF Inv
<1>1. /\ mid' \in [Scs -> {"idle", "driver", "late"}] /\ mid'[s] = "late"
      /\ \A z \in Scs : z # s => mid'[z] = mid[z]
  BY DEF Types
<1>2. /\ Queued' = Queued /\ Live' = Live /\ QueuesOK' /\ IoRunningExact'
      /\ Threads' /\ NoDoubleDone'
  BY DEF Queued, Live, Closing, QueuesOK, IoRunningExact, Threads, NoDoubleDone
<1>3. Types'
  BY <1>1 DEF Types
<1>4. Places(lent)' /\ Refs(lent)'
  <2>1. \A t \in Tags : Owned(t)' <=> Owned(t)
    BY <1>2 DEF Owned
  <2>2. Places(lent)'
    BY <1>2, <2>1 DEF Places, QueuedTaken, AllocTaken, AllocOnce, TagTaken, TagOnce,
       TakenSomewhere, Types
  <2>3. Refs(lent)'
    BY <2>1 DEF Refs
  <2> QED BY <2>2, <2>3
<1>5. Owners'
  BY <1>1, <1>2 DEF Owners, LiveOwned, LiveOnce, AllocOwned, DriverHeld
<1> QED BY <1>2, <1>3, <1>4, <1>5

\* What the loans say without the references.
LEMMA LoanFacts ==
    ASSUME Loans
    PROVE  /\ Types /\ QueuesOK /\ Threads /\ Owners
           /\ QueuedTaken /\ AllocTaken /\ AllocOnce /\ TagTaken /\ TagOnce
           /\ \A x \in Drainers, t \in Tags : Holds(x, t) => t \in cmd_pool_bits
<1>1. PICK lent \in [Tags -> 0 .. 2] : Inv(lent) /\ LentOut(lent)
  BY DEF Loans
<1>2. \A x \in Drainers, t \in Tags : Holds(x, t) => t \in cmd_pool_bits
  BY <1>1 DEF LentOut, Inv, Refs
<1> QED BY <1>1, <1>2 DEF Inv, Places

\* The steps of the command path borrow nothing and return nothing.
LEMMA LoansKept ==
    ASSUME CopyFaults = FALSE, Loans, [Next]_vars,
           \A x \in Drainers, t \in Tags : /\ Holds(x, t)' <=> Holds(x, t)
                                           /\ Frees(x, t)' <=> Frees(x, t)
    PROVE  Loans'
<1>1. PICK lent \in [Tags -> 0 .. 2] : Inv(lent) /\ LentOut(lent)
  BY DEF Loans
<1>2. lent \in [Tags -> Nat]
  BY <1>1
<1>3. Inv(lent)'
  BY <1>1, <1>2, NextStep DEF ReadFault
<1>4. LentOut(lent)'
  BY <1>1 DEF LentOut
<1> QED BY <1>3, <1>4 DEF Loans

\* They change nothing about which commands are late.
LEMMA LateKept ==
    ASSUME Types, [Next]_vars
    PROVE  \A s \in Scs : mid'[s] = "late" <=> mid[s] = "late"
<1> DEFINE G == \A s \in Scs : mid'[s] = "late" <=> mid[s] = "late"
<1>1. mid \in [Scs -> {"idle", "driver", "late"}]
  BY DEF Types
<1>2. ASSUME NEW z, ScsiDone(z) PROVE G
  <2>1. mid' = [mid EXCEPT ![z] = IF @ = "late" THEN "late" ELSE "idle"]
    BY <1>2 DEF ScsiDone
  <2> QED BY <1>1, <2>1
<1>3. ASSUME NEW s \in Scs, Queue(s) PROVE G
  BY <1>1, <1>3 DEF Queue, QueueAlloc, QueueEnqueue
<1>4. CASE StartIo
  BY <1>4 DEF StartIo
<1>5. ASSUME NEW r \in Readers, Read(r) PROVE G
  BY <1>5 DEF Read, ReadTake, StampBegin, StampFields, ReadDeliver, ReadFault
<1>6. ASSUME NEW w \in Writers, Write(w) PROVE G
  BY <1>2, <1>6 DEF Write, DataFind, DataCopy, RespondTake, RespondDone, RespondPut
<1>7. ASSUME NEW m \in Drainers, Drain(m) PROVE G
  BY <1>2, <1>7 DEF Drain, DrainStart, DrainPop, DrainDone, DrainPut, DrainNext
<1>8. CASE UNCHANGED vars
  BY <1>8 DEF vars
<1> QED BY <1>3, <1>4, <1>5, <1>6, <1>7, <1>8 DEF Next

\* A handler whose fields a step leaves alone keeps its command and its slot, if the
\* step takes no slot that was taken and links none.
LEMMA GoodFrame ==
    ASSUME Recovery, NEW y \in Drainers, eh'[y] = eh[y],
           eh[y].pc # "idle" => /\ scribble'[eh[y].sc] = scribble[eh[y].sc]
                                /\ mid'[eh[y].sc] = mid[eh[y].sc],
           \A t \in cmd_pool_bits : scsi_cmd'[t] = scsi_cmd[t],
           \A s \in Scs : alloc'[s] \in {alloc[s], NoTag}
                          \/ alloc'[s] \notin cmd_pool_bits,
           \A t \in Tags : Owned(t)' => Owned(t) \/ t \notin cmd_pool_bits,
           Live' \subseteq Live, Queued' \subseteq Queued,
           \A t \in Queued' : t \in Ahead(y) => t \in Ahead(y)'
    PROVE  Pursues(y)' /\ Clears(y)' /\ Corners(y)'
<1>1. /\ Types /\ Threads /\ QueuedTaken /\ TagTaken
      /\ \A x \in Drainers, t \in Tags : Holds(x, t) => t \in cmd_pool_bits
  BY LoanFacts DEF Recovery
<1>2. Good(y)
  BY DEF Recovery
<1>3. \A t \in Live : t \in cmd_pool_bits
  BY <1>1, LiveMember DEF QueuedTaken, TagTaken, Threads
<1>4. eh[y].pc \in Handling => eh[y].c \in Tags /\ eh[y].c \in cmd_pool_bits
  BY <1>1, <1>2 DEF Good, Pursues, Holds, Handling
<1>5. Pursues(y)'
  <2> SUFFICES ASSUME eh[y].pc # "idle"
               PROVE  /\ eh[y].sc \in Scs /\ mid'[eh[y].sc] = "late"
                      /\ eh[y].pc \in Handling
                           => /\ eh[y].c \in Tags /\ eh[y].c = scribble'[eh[y].sc]
                              /\ scsi_cmd'[eh[y].c] = eh[y].sc
                              /\ \A s \in Scs : alloc'[s] # eh[y].c
    BY DEF Pursues
  <2>1. /\ eh[y].sc \in Scs /\ mid[eh[y].sc] = "late"
        /\ eh[y].pc \in Handling => /\ eh[y].c = scribble[eh[y].sc]
                                    /\ scsi_cmd[eh[y].c] = eh[y].sc
                                    /\ \A s \in Scs : alloc[s] # eh[y].c
    BY <1>2 DEF Good, Pursues
  <2> QED BY <1>4, <2>1, PoolAssumption
<1>6. Clears(y)'
  <2>1. ASSUME eh[y].pc = "release"
        PROVE  (\A t \in Live' : scsi_cmd'[t] # eh[y].sc) /\ ~ Owned(eh[y].c)'
    <3>1. (\A t \in Live : scsi_cmd[t] # eh[y].sc) /\ ~ Owned(eh[y].c)
      BY <1>2, <2>1 DEF Good, Clears
    <3>2. eh[y].c \in Tags /\ eh[y].c \in cmd_pool_bits
      BY <1>4, <2>1 DEF Handling
    <3> QED BY <1>3, <3>1, <3>2
  <2>2. ASSUME eh[y].pc = "verdict", eh[y].ok
        PROVE  \A t \in Queued' : scsi_cmd'[t] # eh[y].sc
    <3>1. \A t \in Queued : scsi_cmd[t] # eh[y].sc
      BY <1>2, <2>2 DEF Good, Clears
    <3> QED BY <1>1, <3>1 DEF QueuedTaken
  <2> QED BY <2>1, <2>2 DEF Clears
<1>7. Corners(y)'
  BY <1>2 DEF Good, Corners
<1> QED BY <1>5, <1>6, <1>7

\* A command keeps the slot it is live in, unless a slot is linked.
LEMMA SavedFrame ==
    ASSUME Recovery, UNCHANGED scribble, Live' \subseteq Live,
           \A t \in cmd_pool_bits : scsi_cmd'[t] = scsi_cmd[t]
    PROVE  Saved'
<1>1. Threads /\ QueuedTaken /\ TagTaken
  BY LoanFacts DEF Recovery
<1>2. \A t \in Live : t \in cmd_pool_bits
  BY <1>1, LiveMember DEF QueuedTaken, TagTaken, Threads
<1> QED BY <1>2 DEF Recovery, Saved

\* So the steps of the command path keep the whole invariant.
LEMMA PathStep ==
    ASSUME CopyFaults = FALSE, Recovery, [Next]_vars, UNCHANGED <<eh, scribble>>,
           \A t \in cmd_pool_bits : scsi_cmd'[t] = scsi_cmd[t],
           \A s \in Scs : alloc'[s] \in {alloc[s], NoTag}
                          \/ /\ alloc'[s] \notin cmd_pool_bits
                             /\ scsi_cmd'[alloc'[s]] = NoCmd,
           \A t \in Tags : Owned(t)' => Owned(t) \/ t \notin cmd_pool_bits,
           Live' \subseteq Live, Queued' \subseteq Queued,
           \A y \in Drainers : \A t \in Queued' : t \in Ahead(y) => t \in Ahead(y)',
           \A y \in Drainers : Sweeps(y)'
    PROVE  Recovery'
<1>1. Types
  BY LoanFacts DEF Recovery
<1>2. \A s \in Scs : mid'[s] = "late" <=> mid[s] = "late"
  BY <1>1, LateKept
<1>3. ASSUME NEW y \in Drainers PROVE Good(y)'
  <2>1. eh[y].pc # "idle" => mid'[eh[y].sc] = mid[eh[y].sc]
    BY <1>2 DEF Recovery, Good, Pursues
  <2>2. Pursues(y)' /\ Clears(y)' /\ Corners(y)'
    BY <2>1, GoodFrame
  <2> QED BY <2>2 DEF Good
<1>4. Loans'
  <2>1. \A x \in Drainers, t \in Tags : /\ Holds(x, t)' <=> Holds(x, t)
                                        /\ Frees(x, t)' <=> Frees(x, t)
    BY DEF Holds, Frees
  <2> QED BY <2>1, LoansKept DEF Recovery
<1>5. EhTypes' /\ Apart'
  BY DEF EhTypes, Apart, Recovery
<1>6. Saved'
  BY SavedFrame
<1>7. Unbound'
  <2>1. AllocTaken
    BY LoanFacts DEF Recovery
  <2> QED BY <2>1 DEF Recovery, Unbound, AllocTaken
<1> QED BY <1>3, <1>4, <1>5, <1>6, <1>7 DEF Recovery

LEMMA EhAlloc ==
    ASSUME CopyFaults = FALSE, Recovery, NEW s \in Scs, QueueAlloc(s), UNCHANGED ehVars
    PROVE  Recovery'
<1>1. PICK t \in Tags \ cmd_pool_bits :
          /\ cmd_pool_bits' = cmd_pool_bits \union {t}
          /\ scsi_cmd' = [scsi_cmd EXCEPT ![t] = NoCmd]
          /\ alloc' = [alloc EXCEPT ![s] = t]
  BY DEF QueueAlloc, FirstFree
<1>2. UNCHANGED <<reqQ, cmpQ, rspQ, pc, tag, cur, stage, eh, scribble>>
  BY DEF QueueAlloc, queueVars, workerVars, ehVars
<1>3. Queued' = Queued /\ Live' = Live /\ \A x \in Drainers : Ahead(x)' = Ahead(x)
  BY <1>2 DEF Queued, Live, Closing, Ahead
<1>4. Types
  BY LoanFacts DEF Recovery
<1>5. \A u \in cmd_pool_bits : scsi_cmd'[u] = scsi_cmd[u]
  BY <1>1, <1>4 DEF Types
<1>6. /\ \A z \in Scs : alloc'[z] = alloc[z] \/ alloc'[z] = t
      /\ scsi_cmd'[t] = NoCmd
  BY <1>1, <1>4 DEF Types
<1>7. \A u \in Tags : Owned(u)' => Owned(u) \/ u \notin cmd_pool_bits
  BY <1>1, <1>2, <1>3, <1>6 DEF Owned
<1>8. \A y \in Drainers : Sweeps(y)'
  BY <1>2 DEF Recovery, Good, Sweeps
<1>9. [Next]_vars
  BY DEF Next, Queue
<1> QED BY <1>1, <1>2, <1>3, <1>5, <1>6, <1>7, <1>8, <1>9, PathStep

\* Steps that move slots to the next queue, or touch none.
LEMMA EhMove ==
    ASSUME CopyFaults = FALSE, Recovery, [Next]_vars, Queued' = Queued,
           UNCHANGED ehVars, UNCHANGED <<scsi_cmd, alloc, pc, tag, stage>>,
           \A x \in Drainers : Ahead(x) \subseteq Ahead(x)'
    PROVE  Recovery'
<1>1. UNCHANGED <<eh, scribble>>
  BY DEF ehVars
<1>2. Live' = Live /\ \A t \in Tags : Owned(t)' <=> Owned(t)
  BY DEF Live, Closing, Owned
<1>3. \A y \in Drainers : Sweeps(y)'
  BY <1>1 DEF Recovery, Good, Sweeps
<1> QED BY <1>1, <1>2, <1>3, PathStep

LEMMA EhRead ==
    ASSUME CopyFaults = FALSE, Recovery, NEW r \in Readers, Read(r), UNCHANGED ehVars
    PROVE  Recovery'
<1>1. [Next]_vars
  BY DEF Next
<1>2. Types
  BY LoanFacts DEF Recovery
<1>3. CASE ReadTake(r)
  <2>1. UNCHANGED <<scsi_cmd, alloc, pc, tag, stage>>
    BY <1>3 DEF ReadTake, slotVars, workerVars
  <2> QED BY <1>1, <1>2, <1>3, <2>1, ReadTakeMoves, EhMove
<1>4. CASE StampBegin(r) \/ StampFields(r) \/ ReadDeliver(r)
  <2>1. UNCHANGED <<scsi_cmd, alloc, pc, tag, stage, reqQ, cmpQ, rspQ>>
    BY <1>4 DEF StampBegin, StampFields, ReadDeliver, slotVars, queueVars, workerVars
  <2>2. Queued' = Queued /\ \A x \in Drainers : Ahead(x)' = Ahead(x)
    BY <2>1 DEF Queued, Ahead
  <2> QED BY <1>1, <2>1, <2>2, EhMove
<1> QED BY <1>3, <1>4 DEF Read, ReadFault

LEMMA EhStartIo ==
    ASSUME CopyFaults = FALSE, Recovery, StartIo, UNCHANGED ehVars
    PROVE  Recovery'
<1>1. [Next]_vars
  BY DEF Next
<1>2. UNCHANGED <<scsi_cmd, alloc, pc, tag, stage>>
  BY DEF StartIo, workerVars
<1>3. Types /\ QueuesOK
  BY LoanFacts DEF Recovery
<1> QED BY <1>1, <1>2, <1>3, StartIoMoves, EhMove

\* What the threads of the target do beside unlinking a slot.
LEMMA EhServe ==
    ASSUME CopyFaults = FALSE, Recovery, NEW w \in Writers, UNCHANGED ehVars,
           (\E m \in user : DataFind(w, m)) \/ DataCopy(w) \/ RespondDone(w)
             \/ RespondPut(w)
    PROVE  Recovery'
<1>1. [Next]_vars
  BY DEF Next, Write
<1> DEFINE G == /\ UNCHANGED <<scsi_cmd, alloc, reqQ, cmpQ, rspQ, stage, eh, scribble>>
                /\ \A a \in Workers : tag'[a] \in {tag[a], NoTag}
                /\ pc'[w] \notin {"done", "popped"}
                /\ \A a \in Workers : a # w => pc'[a] = pc[a]
                /\ \A a \in Workers : a # w => tag'[a] = tag[a]
                /\ w \in Workers
<1>2. G
  <2>1. Types /\ w \in Workers
    BY LoanFacts DEF Recovery, Workers
  <2>2. ASSUME NEW m \in user, DataFind(w, m) PROVE G
    BY <2>1, <2>2 DEF DataFind, queueVars, slotVars, ehVars, Types
  <2>3. CASE DataCopy(w)
    BY <2>1, <2>3 DEF DataCopy, queueVars, slotVars, ehVars, Types
  <2>4. CASE RespondDone(w)
    BY <2>1, <2>4 DEF RespondDone, queueVars, slotVars, ehVars, Types
  <2>5. CASE RespondPut(w)
    BY <2>1, <2>5 DEF RespondPut, queueVars, slotVars, ehVars, Types
  <2> QED BY <2>2, <2>3, <2>4, <2>5
<1>3. Queued' = Queued /\ \A x \in Drainers : Ahead(x)' = Ahead(x)
  BY <1>2 DEF Queued, Ahead
<1>4. Live' \subseteq Live
  BY <1>2, <1>3 DEF Live, Closing
<1>5. \A t \in Tags : Owned(t)' => Owned(t)
  BY <1>2, <1>3, PoolAssumption DEF Owned
<1>6. \A y \in Drainers : Sweeps(y)'
  BY <1>2, ThreadAssumption DEF Recovery, Good, Sweeps, Workers
<1> QED BY <1>1, <1>2, <1>3, <1>4, <1>5, <1>6, PathStep

\* The target answers a command, late or not.
LEMMA EhRespond ==
    ASSUME CopyFaults = FALSE, Recovery, NEW w \in Writers, NEW m \in user,
           RespondTake(w, m), UNCHANGED ehVars
    PROVE  Recovery'
<1>1. [Next]_vars
  BY DEF Next, Write
<1>2. /\ Types /\ QueuesOK
  BY LoanFacts DEF Recovery
<1>3. PICK t : t = m.tag
  OBVIOUS
<1>4. /\ t \in Queued /\ RemoveQ(t) /\ w \in Workers
      /\ pc' = [pc EXCEPT ![w] = "done"] /\ tag' = [tag EXCEPT ![w] = t]
      /\ UNCHANGED <<scsi_cmd, alloc, stage, eh, scribble>>
      /\ pc[w] = "idle"
  BY <1>3 DEF RespondTake, Answerable, Workers, ehVars
<1>5. /\ ToSet(reqQ') = ToSet(reqQ) \ {t} /\ ToSet(cmpQ') = ToSet(cmpQ) \ {t}
      /\ ToSet(rspQ') = ToSet(rspQ) \ {t}
  BY <1>2, <1>4, RemoveQShrinks
<1>6. /\ Queued' = Queued \ {t}
      /\ \A x \in Drainers : \A u \in Queued' : u \in Ahead(x) => u \in Ahead(x)'
  <2>1. Queued' = Queued \ {t}
    BY <1>5 DEF Queued
  <2> QED BY <1>2, <1>4, <1>5, <2>1, AheadFrame
<1>7. /\ \A a \in Workers : a # w => pc'[a] = pc[a] /\ tag'[a] = tag[a]
      /\ tag'[w] = t
  BY <1>2, <1>4 DEF Types
<1>8. Live' \subseteq Live
  BY <1>4, <1>6, <1>7 DEF Live, Closing
<1>9. \A u \in Tags : Owned(u)' => Owned(u)
  BY <1>4, <1>6, <1>7 DEF Owned
<1>10. \A y \in Drainers : Sweeps(y)'
  BY <1>4, <1>7, ThreadAssumption DEF Recovery, Good, Sweeps, Workers
<1> QED BY <1>1, <1>4, <1>6, <1>8, <1>9, <1>10, PathStep

\* The drain of a reset unlinks a slot ...
LEMMA EhPop ==
    ASSUME CopyFaults = FALSE, Recovery, NEW x \in Drainers, eh[x].pc = "drain",
           DrainPop(x), UNCHANGED ehVars
    PROVE  Recovery'
<1>1. [Next]_vars
  BY DEF Next, Drain
<1>2. /\ Types /\ QueuesOK /\ Threads
  BY LoanFacts DEF Recovery
<1>3. PICK t : t = Head(StageQueue(x))
  OBVIOUS
<1>4. /\ t \in Queued /\ RemoveQ(t) /\ x \in Workers
      /\ pc' = [pc EXCEPT ![x] = "popped"] /\ tag' = [tag EXCEPT ![x] = t]
      /\ UNCHANGED <<scsi_cmd, alloc, stage, eh, scribble>>
      /\ pc[x] = "idle" /\ stage[x] # "off"
  BY <1>2, <1>3, PoppedLinked DEF DrainPop, Workers, ehVars, slotVars
<1>5. /\ ToSet(reqQ') = ToSet(reqQ) \ {t} /\ ToSet(cmpQ') = ToSet(cmpQ) \ {t}
      /\ ToSet(rspQ') = ToSet(rspQ) \ {t}
  BY <1>2, <1>4, RemoveQShrinks
<1>6. /\ Queued' = Queued \ {t}
      /\ \A y \in Drainers : \A u \in Queued' : u \in Ahead(y) => u \in Ahead(y)'
  <2>1. Queued' = Queued \ {t}
    BY <1>5 DEF Queued
  <2> QED BY <1>2, <1>4, <1>5, <2>1, AheadFrame
<1>7. /\ \A a \in Workers : a # x => pc'[a] = pc[a] /\ tag'[a] = tag[a]
      /\ tag'[x] = t
  BY <1>2, <1>4 DEF Types
<1>8. Live' \subseteq Live
  BY <1>4, <1>6, <1>7 DEF Live, Closing
<1>9. \A u \in Tags : Owned(u)' => Owned(u)
  BY <1>4, <1>6, <1>7 DEF Owned
<1>10. \A y \in Drainers : Sweeps(y)'
  BY <1>4, <1>7 DEF Recovery, Good, Sweeps, Workers
<1> QED BY <1>1, <1>4, <1>6, <1>8, <1>9, <1>10, PathStep

\* ... completes its command, gives the slot back and goes on.
LEMMA EhDrainOn ==
    ASSUME CopyFaults = FALSE, Recovery, NEW x \in Drainers, eh[x].pc = "drain",
           DrainDone(x) \/ DrainPut(x) \/ DrainNext(x), UNCHANGED ehVars
    PROVE  Recovery'
<1>1. [Next]_vars
  BY DEF Next, Drain
<1>2. Types /\ x \in Workers
  BY LoanFacts DEF Recovery, Workers
<1> DEFINE G == /\ UNCHANGED <<scsi_cmd, alloc, reqQ, cmpQ, rspQ, eh, scribble>>
                /\ \A a \in Workers : tag'[a] \in {tag[a], NoTag}
                /\ \A a \in Workers : a # x => pc'[a] = pc[a] /\ tag'[a] = tag[a]
                /\ pc'[x] \in {"done", "popped"} => pc'[x] = pc[x] /\ tag'[x] = tag[x]
                /\ \A y \in Drainers : Ahead(y)' = Ahead(y)
                /\ \A y \in Drainers : y # x => stage'[y] = stage[y]
                /\ stage'[x] = "off" => pc'[x] = "idle"
<1>3. G
  <2>1. CASE DrainDone(x)
    <3>1. stage[x] # "off"
      BY <2>1 DEF DrainDone, Recovery, Good, Sweeps
    <3> QED BY <1>2, <2>1, <3>1 DEF DrainDone, queueVars, ehVars, Types, Ahead, Queued
  <2>2. CASE DrainPut(x)
    BY <1>2, <2>2 DEF DrainPut, queueVars, ehVars, Types, Ahead, Queued
  <2>3. CASE DrainNext(x)
    <3>1. \A y \in Drainers : Ahead(y)' = Ahead(y)
      BY <1>2, <2>3, NextMoves
    <3> QED BY <1>2, <2>3, <3>1 DEF DrainNext, slotVars, queueVars, ehVars, Types
  <2> QED BY <2>1, <2>2, <2>3
<1>4. Queued' = Queued
  BY <1>3 DEF Queued
<1>5. Live' \subseteq Live
  BY <1>3, <1>4 DEF Live, Closing
<1>6. \A t \in Tags : Owned(t)' => Owned(t)
  BY <1>3, <1>4, PoolAssumption DEF Owned
<1>7. \A y \in Drainers : Sweeps(y)'
  BY <1>3 DEF Recovery, Good, Sweeps, Workers
<1> QED BY <1>1, <1>3, <1>4, <1>5, <1>6, <1>7, PathStep

\* queuecommand links the slot of its command, which is not late.
LEMMA EhEnqueue ==
    ASSUME CopyFaults = FALSE, Recovery, NEW s \in Scs, QueueEnqueue(s), SaveSlot(s),
           UNCHANGED eh
    PROVE  Recovery'
<1>1. /\ Types /\ QueuesOK /\ Threads /\ Owners /\ AllocTaken /\ TagTaken
  BY LoanFacts DEF Recovery
<1>2. PICK t : t = alloc[s]
  OBVIOUS
<1>3. /\ t \in Tags /\ t # NoTag /\ t \notin Queued /\ mid[s] = "driver"
      /\ \A u \in Live : scsi_cmd[u] # s
      /\ \A a \in Workers : tag[a] # t
  BY <1>1, <1>2 DEF QueueEnqueue, Types, Owners, AllocOwned, AllocTaken, TagTaken
<1>4. /\ scsi_cmd' = [scsi_cmd EXCEPT ![t] = s] /\ reqQ' = AddTail(reqQ, t)
      /\ scribble' = [scribble EXCEPT ![s] = t]
      /\ alloc' = [alloc EXCEPT ![s] = NoTag]
      /\ UNCHANGED <<cmpQ, rspQ, mid, pc, tag, cur, stage>>
  BY <1>2 DEF QueueEnqueue, SaveSlot, workerVars
<1>5. ToSet(reqQ') = ToSet(reqQ) \union {t}
  BY <1>1, <1>3, <1>4, QueueTypes, LinkedTail
<1>6. /\ Queued' = Queued \union {t} /\ Live' = Live \union {t} /\ t \notin Live
      /\ \A x \in Drainers : Ahead(x) \subseteq Ahead(x)'
  <2>1. Queued' = Queued \union {t}
    BY <1>4, <1>5 DEF Queued
  <2>2. Live' = Live \union {t} /\ t \notin Live
    BY <1>3, <1>4, <2>1, LiveMember DEF Live, Closing
  <2>3. ASSUME NEW x \in Drainers PROVE Ahead(x) \subseteq Ahead(x)'
    <3>1. stage'[x] = stage[x] /\ stage[x] \in {"off", "reqQ", "cmpQ", "rspQ"}
      BY <1>1, <1>4 DEF Types
    <3> QED BY <1>4, <2>1, <3>1 DEF Ahead
  <2> QED BY <2>1, <2>2, <2>3
<1>7. /\ \A u \in Tags : u # t => scsi_cmd'[u] = scsi_cmd[u]
      /\ scsi_cmd'[t] = s /\ scribble'[s] = t
      /\ \A z \in Scs : z # s => scribble'[z] = scribble[z]
      /\ \A z \in Scs : alloc'[z] \in {alloc[z], NoTag}
  BY <1>1, <1>3, <1>4 DEF Types, EhTypes, Recovery
<1>8. \A u \in Live : u \in Tags /\ scsi_cmd[u] \in Scs
  BY <1>1, LiveMember, QueueTypes DEF TagTaken, Types, Threads, Owners, LiveOwned
<1>9. EhTypes' /\ Loans'
  <2>1. [Next]_vars
    BY DEF Next, Queue
  <2>2. \A x \in Drainers, u \in Tags : /\ Holds(x, u)' <=> Holds(x, u)
                                        /\ Frees(x, u)' <=> Frees(x, u)
    BY DEF Holds, Frees
  <2>3. EhTypes'
    BY <1>3, <1>4 DEF EhTypes, Recovery
  <2> QED BY <2>1, <2>2, <2>3, LoansKept DEF Recovery
<1>10. Apart'
  BY DEF Apart, Recovery
<1>11. Saved'
  BY <1>3, <1>6, <1>7, <1>8 DEF Saved, Recovery
<1>12. Unbound'
  <2>1. /\ \A z \in Scs : z # s => alloc'[z] = alloc[z]
        /\ alloc'[s] = NoTag
    BY <1>1, <1>4 DEF Types
  <2>2. \A z \in Scs : z # s => alloc[z] # t
    BY <1>2, <1>3, LoanFacts DEF Recovery, AllocOnce
  <2>3. \A z \in Scs : alloc[z] # NoTag => alloc[z] \in Tags /\ scsi_cmd[alloc[z]] = NoCmd
    BY <1>1 DEF Recovery, Unbound, Types
  <2> QED BY <1>7, <2>1, <2>2, <2>3 DEF Unbound
<1>13. ASSUME NEW x \in Drainers PROVE Good(x)'
  <2>1. Good(x)
    BY DEF Recovery
  <2>2. eh[x].pc # "idle" => /\ eh[x].sc \in Scs /\ mid[eh[x].sc] = "late"
                             /\ eh[x].sc # s
                             /\ scribble'[eh[x].sc] = scribble[eh[x].sc]
    BY <1>3, <1>7, <2>1 DEF Good, Pursues
  <2>3. eh[x].pc \in Handling => /\ eh[x].pc # "idle" /\ eh[x].c \in Tags
                                 /\ eh[x].c = scribble[eh[x].sc]
                                 /\ scsi_cmd[eh[x].c] = eh[x].sc
                                 /\ \A z \in Scs : alloc[z] # eh[x].c
                                 /\ eh[x].c # t
    BY <1>2, <2>1 DEF Good, Pursues, Handling
  <2>4. Pursues(x)'
    BY <1>4, <1>7, <2>2, <2>3, PoolAssumption DEF Pursues
  <2>5. Clears(x)'
    <3>1. ASSUME eh[x].pc = "release"
          PROVE  (\A u \in Live' : scsi_cmd'[u] # eh[x].sc) /\ ~ Owned(eh[x].c)'
      <4>1. (\A u \in Live : scsi_cmd[u] # eh[x].sc) /\ ~ Owned(eh[x].c)
        BY <2>1, <3>1 DEF Good, Clears
      <4>2. eh[x].c \in Tags /\ eh[x].c # t /\ eh[x].sc # s
        BY <2>2, <2>3, <3>1 DEF Handling
      <4>3. \A u \in Live' : scsi_cmd'[u] # eh[x].sc
        BY <1>6, <1>7, <1>8, <4>1, <4>2
      <4>4. ~ Owned(eh[x].c)'
        BY <1>4, <1>6, <1>7, <4>1, <4>2, PoolAssumption DEF Owned
      <4> QED BY <4>3, <4>4
    <3>2. ASSUME eh[x].pc = "verdict", eh[x].ok
          PROVE  \A u \in Queued' : scsi_cmd'[u] # eh[x].sc
      <4>1. \A u \in Queued : scsi_cmd[u] # eh[x].sc
        BY <2>1, <3>2 DEF Good, Clears
      <4> QED BY <1>6, <1>7, <1>8, <2>2, <3>2, <4>1 DEF Live
    <3> QED BY <3>1, <3>2 DEF Clears
  <2>6. Corners(x)'
    <3>1. eh[x].pc = "drain" => eh[x].c # t
      BY <2>3 DEF Handling
    <3> QED BY <1>6, <2>1, <3>1 DEF Good, Corners
  <2>7. Sweeps(x)'
    BY <1>4, <2>1 DEF Good, Sweeps
  <2> QED BY <2>4, <2>5, <2>6, <2>7 DEF Good
<1> QED BY <1>9, <1>10, <1>11, <1>12, <1>13 DEF Recovery

\* What is known of a handler that holds a slot: nobody else holds it.
LEMMA Mine ==
    ASSUME Recovery, NEW x \in Drainers, eh[x].pc \in Handling
    PROVE  /\ eh[x].sc \in Scs /\ mid[eh[x].sc] = "late"
           /\ eh[x].c \in Tags /\ eh[x].c \in cmd_pool_bits
           /\ eh[x].c = scribble[eh[x].sc]
           /\ scsi_cmd[eh[x].c] = eh[x].sc /\ \A s \in Scs : alloc[s] # eh[x].c
           /\ \A y \in Drainers : y # x => ~ Holds(y, eh[x].c)
           /\ \A y \in Drainers : y # x /\ eh[y].pc # "idle" => eh[y].sc # eh[x].sc
           /\ \A t \in Live : scsi_cmd[t] = eh[x].sc => t = eh[x].c
           /\ Good(x)
<1>1. \A y \in Drainers : Good(y)
  BY DEF Recovery
<1>2. eh[x].pc # "idle"
  BY DEF Handling
<1>3. /\ eh[x].sc \in Scs /\ mid[eh[x].sc] = "late"
      /\ eh[x].c \in Tags /\ eh[x].c = scribble[eh[x].sc]
      /\ scsi_cmd[eh[x].c] = eh[x].sc /\ \A s \in Scs : alloc[s] # eh[x].c
  BY <1>1, <1>2 DEF Good, Pursues
<1>4. \A y \in Drainers : y # x /\ eh[y].pc # "idle" => eh[y].sc # eh[x].sc
  BY <1>2 DEF Recovery, Apart
<1>5. ASSUME NEW y \in Drainers, y # x, Holds(y, eh[x].c) PROVE FALSE
  <2>1. eh[y].pc # "idle" /\ eh[y].c = eh[x].c /\ scsi_cmd[eh[y].c] = eh[y].sc
    BY <1>1, <1>5 DEF Good, Pursues, Holds, Handling
  <2> QED BY <1>3, <1>4, <1>5, <2>1
<1>6. eh[x].c \in cmd_pool_bits
  BY <1>3, LoanFacts DEF Recovery, Holds
<1>7. \A t \in Live : scsi_cmd[t] = eh[x].sc => t = eh[x].c
  BY <1>3 DEF Recovery, Saved
<1> QED BY <1>1, <1>3, <1>4, <1>5, <1>6, <1>7

\* How much of its slot is lent to a handler that shares it with nobody.
LEMMA LentOf ==
    ASSUME NEW lent \in [Tags -> 0 .. 2], LentOut(lent), NEW x \in Drainers,
           NEW c \in Tags, \A y \in Drainers : y # x => ~ Holds(y, c)
    PROVE  lent[c] = IF Frees(x, c) THEN 2 ELSE IF Holds(x, c) THEN 1 ELSE 0
<1>1. /\ lent[c] > 0 <=> Holds(x, c)
      /\ lent[c] = 2 <=> Frees(x, c)
  <2>1. \A y \in Drainers : Frees(y, c) => Holds(y, c)
    BY DEF Holds, Frees, Handling
  <2> QED BY <2>1 DEF LentOut
<1>2. lent[c] \in 0 .. 2
  OBVIOUS
<1>3. lent[c] = 0 \/ lent[c] = 1 \/ lent[c] = 2
  BY <1>2
<1> QED BY <1>1, <1>3

\* A handler changes what is lent of its own slot only.
LEMMA LoanMoves ==
    ASSUME NEW x \in Drainers, NEW c \in Tags, NEW n \in 0 .. 2,
           NEW lent \in [Tags -> 0 .. 2], LentOut(lent),
           NEW now \in [Tags -> 0 .. 2], now[c] = n, Inv(now)',
           \A t \in Tags : t # c => now[t] = lent[t],
           \A y \in Drainers : y # x => eh'[y] = eh[y] /\ ~ Holds(y, c),
           \A t \in Tags : t # c => ~ Holds(x, t) /\ ~ Holds(x, t)',
           n > 0 <=> Holds(x, c)', n = 2 <=> Frees(x, c)'
    PROVE  Loans'
<1>1. \A y \in Drainers, t \in Tags : y # x => /\ Holds(y, t)' <=> Holds(y, t)
                                               /\ Frees(y, t)' <=> Frees(y, t)
  BY DEF Holds, Frees
<1>2. \A y \in Drainers, t \in Tags : /\ Frees(y, t) => Holds(y, t)
                                      /\ Frees(y, t)' => Holds(y, t)'
  BY DEF Holds, Frees, Handling
<1>3. ASSUME NEW t \in Tags, t # c
      PROVE  /\ now[t] > 0 <=> \E y \in Drainers : Holds(y, t)'
             /\ now[t] = 2 <=> \E y \in Drainers : Frees(y, t)'
  <2>1. /\ lent[t] > 0 <=> \E y \in Drainers : Holds(y, t)
        /\ lent[t] = 2 <=> \E y \in Drainers : Frees(y, t)
    BY DEF LentOut
  <2>2. ~ Holds(x, t) /\ ~ Holds(x, t)' /\ ~ Frees(x, t) /\ ~ Frees(x, t)'
    BY <1>2, <1>3
  <2>3. now[t] = lent[t]
    BY <1>3
  <2> QED BY <1>1, <2>1, <2>2, <2>3
<1>4. /\ now[c] > 0 <=> \E y \in Drainers : Holds(y, c)'
      /\ now[c] = 2 <=> \E y \in Drainers : Frees(y, c)'
  <2>1. \A y \in Drainers : y # x => ~ Holds(y, c)' /\ ~ Frees(y, c)'
    BY <1>1, <1>2
  <2> QED BY <2>1
<1>5. LentOut(now)'
  BY <1>3, <1>4 DEF LentOut
<1> QED BY <1>5 DEF Loans

\* A handler gives one reference back, and perhaps its command with it.
LEMMA HandlerPut ==
    ASSUME Recovery, NEW x \in Drainers, eh[x].pc \in Handling, NEW c \in Tags,
           c = eh[x].c, CmdPut(c, 1),
           \A y \in Drainers : y # x => eh'[y] = eh[y],
           \A t \in Tags : (Holds(x, t)' <=> t = c /\ Frees(x, c)) /\ ~ Frees(x, t)',
           mid' \in [Scs -> {"idle", "driver", "late"}],
           \A s \in Scs : mid'[s] = mid[s] \/ /\ mid[s] = "late" /\ mid'[s] = "idle"
                                              /\ \A u \in Live : scsi_cmd[u] # s,
           UNCHANGED <<stat, sn, scsi_cmd, reqQ, cmpQ, rspQ, cmd_sn, io_running, dup,
                       alloc, rd, pc, tag, cur, msg, stage, snap, user>>
    PROVE  Loans'
<1>1. PICK lent \in [Tags -> 0 .. 2] : Inv(lent) /\ LentOut(lent)
  BY DEF Recovery, Loans
<1>2. \A y \in Drainers : y # x => ~ Holds(y, c)
  BY Mine
<1>3. Holds(x, c) /\ \A t \in Tags : t # c => ~ Holds(x, t)
  BY DEF Holds
<1>4. PICK n \in 0 .. 1 : n = IF Frees(x, c) THEN 1 ELSE 0
  OBVIOUS
<1>5. lent[c] = n + 1
  <2>1. lent[c] = IF Frees(x, c) THEN 2 ELSE IF Holds(x, c) THEN 1 ELSE 0
    BY <1>1, <1>2, LentOf
  <2> QED BY <1>3, <1>4, <2>1
<1>6. PICK less : less = [lent EXCEPT ![c] = n]
  OBVIOUS
<1>7. /\ less \in [Tags -> 0 .. 2] /\ less[c] = n
      /\ \A t \in Tags : t # c => less[t] = lent[t]
  BY <1>6
<1>8. lent \in [Tags -> Nat] /\ less \in [Tags -> Nat] /\ lent[c] = less[c] + 1
  BY <1>5, <1>7
<1>9. Inv(less)'
  BY <1>1, <1>7, <1>8, ReturnFrame
<1>10. /\ n > 0 <=> Holds(x, c)'
       /\ n = 2 <=> Frees(x, c)'
       /\ n \in 0 .. 2
  BY <1>4
<1> QED BY <1>1, <1>2, <1>3, <1>7, <1>9, <1>10, LoanMoves

\* A handler that holds no slot borrows one nobody else holds.
LEMMA HandlerGet ==
    ASSUME Recovery, NEW x \in Drainers, NEW c \in cmd_pool_bits, CmdGet(c),
           \A y \in Drainers : y # x => eh'[y] = eh[y] /\ ~ Holds(y, c),
           \A t \in Tags : ~ Holds(x, t),
           \A t \in Tags : (Holds(x, t)' <=> t = c) /\ ~ Frees(x, t)',
           UNCHANGED <<stat, sn, scsi_cmd, cmd_pool_bits, reqQ, cmpQ, rspQ, cmd_sn,
                       io_running, mid, dup, alloc, rd, pc, tag, cur, msg, stage,
                       snap, user>>
    PROVE  Loans'
<1>1. PICK lent \in [Tags -> 0 .. 2] : Inv(lent) /\ LentOut(lent)
  BY DEF Recovery, Loans
<1>2. c \in Tags
  BY LoanFacts DEF Recovery, Types
<1>3. lent[c] = 0
  <2>1. lent[c] = IF Frees(x, c) THEN 2 ELSE IF Holds(x, c) THEN 1 ELSE 0
    BY <1>1, <1>2, LentOf
  <2>2. ~ Frees(x, c)
    BY <1>2 DEF Holds, Frees, Handling
  <2> QED BY <1>2, <2>1, <2>2
<1>4. PICK more : more = [lent EXCEPT ![c] = 1]
  OBVIOUS
<1>5. /\ more \in [Tags -> 0 .. 2] /\ more[c] = 1
      /\ \A t \in Tags : t # c => more[t] = lent[t]
  BY <1>2, <1>4
<1>6. lent \in [Tags -> Nat] /\ more \in [Tags -> Nat] /\ more[c] = lent[c] + 1
  BY <1>3, <1>5
<1>7. Inv(more)'
  BY <1>1, <1>5, <1>6, LendFrame
<1>8. PICK n \in {1} : n = 1
  OBVIOUS
<1>9. n \in 0 .. 2 /\ (n > 0 <=> Holds(x, c)') /\ (n = 2 <=> Frees(x, c)')
  BY <1>2, <1>8
<1> QED BY <1>1, <1>2, <1>5, <1>7, <1>8, <1>9, LoanMoves

\* A handler's step leaves the other handlers what they have.
LEMMA HandlerStep ==
    ASSUME Recovery, NEW x \in Drainers, EhTypes', Loans', Good(x)',
           \A y \in Drainers : y # x => eh'[y] = eh[y] /\ stage'[y] = stage[y],
           UNCHANGED <<scribble, scsi_cmd, alloc, pc, tag>>,
           \A y \in Drainers : y # x /\ eh[y].pc # "idle" =>
               /\ mid'[eh[y].sc] = mid[eh[y].sc]
               /\ eh'[x].pc # "idle" => eh'[x].sc # eh[y].sc,
           Live' \subseteq Live, Queued' \subseteq Queued,
           \A y \in Drainers : y # x =>
               \A t \in Queued' : t \in Ahead(y) => t \in Ahead(y)'
    PROVE  Recovery'
<1>1. \A t \in Tags : Owned(t)' => Owned(t)
  BY DEF Owned
<1>2. ASSUME NEW y \in Drainers, y # x PROVE Good(y)'
  <2>1. \A t \in Queued' : t \in Ahead(y) => t \in Ahead(y)'
    BY <1>2
  <2>2. eh'[y] = eh[y] /\ (eh[y].pc # "idle" => mid'[eh[y].sc] = mid[eh[y].sc])
    BY <1>2
  <2>3. Pursues(y)' /\ Clears(y)' /\ Corners(y)'
    BY <1>1, <2>1, <2>2, GoodFrame
  <2>4. Sweeps(y)'
    BY <1>2 DEF Recovery, Good, Sweeps
  <2> QED BY <2>3, <2>4 DEF Good
<1>3. Apart'
  <2> SUFFICES ASSUME NEW y \in Drainers, NEW z \in Drainers, y # z,
                      eh'[y].pc # "idle", eh'[z].pc # "idle", eh'[y].sc = eh'[z].sc
               PROVE  FALSE
    BY DEF Apart
  <2>1. CASE y # x /\ z # x
    BY <2>1 DEF Recovery, Apart
  <2>2. CASE y = x
    <3>1. eh'[z] = eh[z] /\ z # x
      BY <2>2
    <3> QED BY <2>2, <3>1
  <2>3. CASE z = x
    <3>1. eh'[y] = eh[y] /\ y # x
      BY <2>3
    <3> QED BY <2>3, <3>1
  <2> QED BY <2>1, <2>2, <2>3
<1>4. Saved'
  BY SavedFrame
<1>5. Unbound'
  BY DEF Recovery, Unbound
<1> QED BY <1>2, <1>3, <1>4, <1>5 DEF Recovery


\* The types of a handler's fields, when a step sets one or two of them.
LEMMA EhTyped ==
    ASSUME EhTypes, NEW x \in Drainers, UNCHANGED scribble,
           NEW p \in Handling \union {"idle", "reset"}, NEW c \in Tags \union {NoTag},
           NEW b \in BOOLEAN,
           \/ eh' = [eh EXCEPT ![x].pc = p]
           \/ eh' = [eh EXCEPT ![x].pc = p, ![x].c = c]
           \/ eh' = [eh EXCEPT ![x].pc = p, ![x].ok = b]
    PROVE  EhTypes'
BY DEF EhTypes

\* A handler looks up the slot of its command and finds it still its own.
LEMMA Lookup ==
    ASSUME Recovery, NEW x \in Drainers, NEW s \in Scs, NEW c, c = scribble[s],
           eh[x].pc \in {"idle", "reset"}, mid[s] = "late", Belongs(c, s), CmdGet(c),
           \A y \in Drainers : y # x /\ eh[y].pc # "idle" => eh[y].sc # s,
           EhTypes', eh'[x].pc \in {"abort", "reset wait"}, eh'[x].sc = s,
           eh'[x].c = c, \A y \in Drainers : y # x => eh'[y] = eh[y],
           UNCHANGED <<stat, sn, scsi_cmd, cmd_pool_bits, reqQ, cmpQ, rspQ, cmd_sn,
                       io_running, mid, dup, alloc, rd, pc, tag, cur, msg, stage,
                       snap, user, scribble>>
    PROVE  Recovery'
<1>1. c \in cmd_pool_bits /\ scsi_cmd[c] = s /\ c \in Tags
  BY LoanFacts DEF Belongs, Recovery, Types
<1>3. \A y \in Drainers : y # x => ~ Holds(y, c)
  <2> SUFFICES ASSUME NEW y \in Drainers, y # x, Holds(y, c) PROVE FALSE
    OBVIOUS
  <2>1. eh[y].pc \in Handling /\ eh[y].pc # "idle" /\ eh[y].c = c
    BY DEF Holds, Handling
  <2>2. Pursues(y)
    BY DEF Recovery, Good
  <2>3. scsi_cmd[c] = eh[y].sc
    BY <2>1, <2>2 DEF Pursues
  <2> QED
    BY <1>1, <2>1, <2>3
<1>4. \A t \in Tags : ~ Holds(x, t)
  BY DEF Holds, Handling
<1>5. \A t \in Tags : (Holds(x, t)' <=> t = c) /\ ~ Frees(x, t)'
  BY DEF Holds, Frees, Handling
<1>6. Loans'
  BY <1>1, <1>3, <1>4, <1>5, HandlerGet
<1>7. Queued' = Queued /\ Live' = Live /\ \A y \in Drainers : Ahead(y)' = Ahead(y)
  BY DEF Queued, Live, Closing, Ahead
<1>8. Good(x)'
  <2>1. \A z \in Scs : alloc[z] # c
    BY <1>1, CmdAssumption, PoolAssumption DEF Recovery, Unbound
  <2>2. Pursues(x)'
    BY <1>1, <2>1 DEF Pursues
  <2>3. Clears(x)' /\ Corners(x)'
    BY DEF Clears, Corners
  <2>4. Sweeps(x)'
    BY DEF Recovery, Good, Sweeps
  <2> QED BY <2>2, <2>3, <2>4 DEF Good
<1>9. \A y \in Drainers : y # x /\ eh[y].pc # "idle" =>
          /\ mid'[eh[y].sc] = mid[eh[y].sc]
          /\ eh'[x].pc # "idle" => eh'[x].sc # eh[y].sc
  OBVIOUS
<1> QED BY <1>6, <1>7, <1>8, <1>9, HandlerStep

LEMMA EhAbortBegin ==
    ASSUME Recovery, NEW x \in Drainers, NEW s \in Scs, AbortBegin(x, s), ~ astray'
    PROVE  Recovery'
<1>1. PICK c : c = scribble[s]
  OBVIOUS
<1>2. /\ eh[x].pc = "idle" /\ mid[s] = "late" /\ Belongs(c, s) /\ CmdGet(c)
      /\ \A y \in Drainers : eh[y].sc # s
      /\ eh' = [eh EXCEPT ![x] = [pc |-> "abort", sc |-> s, c |-> c, ok |-> FALSE]]
      /\ UNCHANGED <<stat, sn, scsi_cmd, cmd_pool_bits, reqQ, cmpQ, rspQ, cmd_sn,
                     io_running, mid, dup, alloc, rd, pc, tag, cur, msg, stage,
                     snap, user, scribble>>
  BY <1>1 DEF AbortBegin, untouched, workerVars, queueVars
<1>3. EhTypes'
  BY <1>1, <1>2 DEF Recovery, EhTypes, Handling
<1>4. /\ eh'[x].pc = "abort" /\ eh'[x].sc = s /\ eh'[x].c = c
      /\ \A y \in Drainers : y # x => eh'[y] = eh[y]
  BY <1>2 DEF Recovery, EhTypes
<1>5. /\ eh[x].pc \in {"idle", "reset"} /\ eh'[x].pc \in {"abort", "reset wait"}
      /\ \A y \in Drainers : y # x /\ eh[y].pc # "idle" => eh[y].sc # s
  BY <1>2, <1>4
<1> QED BY <1>1, <1>2, <1>3, <1>4, <1>5, Lookup

LEMMA EhResetBegin ==
    ASSUME Recovery, NEW x \in Drainers, ResetBegin(x), ~ astray'
    PROVE  Recovery'
<1>1. PICK s, c : s = eh[x].sc /\ c = scribble[s]
  OBVIOUS
<1>2. /\ eh[x].pc = "reset" /\ Belongs(c, s) /\ CmdGet(c)
      /\ eh' = [eh EXCEPT ![x].pc = "reset wait", ![x].c = c]
      /\ UNCHANGED <<stat, sn, scsi_cmd, cmd_pool_bits, reqQ, cmpQ, rspQ, cmd_sn,
                     io_running, mid, dup, alloc, rd, pc, tag, cur, msg, stage,
                     snap, user, scribble>>
  BY <1>1 DEF ResetBegin, untouched, workerVars, queueVars
<1>3. s \in Scs /\ mid[s] = "late"
  BY <1>1, <1>2 DEF Recovery, Good, Pursues
<1>4. \A y \in Drainers : y # x /\ eh[y].pc # "idle" => eh[y].sc # s
  BY <1>1, <1>2 DEF Recovery, Apart
<1>5. EhTypes'
  <2>1. "reset wait" \in Handling /\ c \in Tags \union {NoTag}
    BY <1>1, <1>3 DEF Handling, Recovery, EhTypes
  <2> QED BY <1>2, <2>1, EhTyped DEF Recovery
<1>6. /\ eh'[x].pc = "reset wait" /\ eh'[x].sc = s /\ eh'[x].c = c
      /\ \A y \in Drainers : y # x => eh'[y] = eh[y]
  BY <1>1, <1>2 DEF Recovery, EhTypes
<1>7. eh[x].pc \in {"idle", "reset"} /\ eh'[x].pc \in {"abort", "reset wait"}
  BY <1>2, <1>6
<1> QED BY <1>1, <1>2, <1>3, <1>4, <1>5, <1>6, <1>7, Lookup

\* A step that changes a handler's position and the outcome it remembers and touches
\* neither slots nor queues nor commands.
LEMMA EhGoto ==
    ASSUME CopyFaults = FALSE, Recovery, NEW x \in Drainers, eh[x].pc \in Handling,
           eh[x].pc # "release",
           EhTypes', NEW p \in Handling, p # "release", eh'[x].pc = p,
           eh'[x].sc = eh[x].sc, eh'[x].c = eh[x].c,
           \A y \in Drainers : y # x => eh'[y] = eh[y],
           [Next]_vars,
           UNCHANGED <<scribble, scsi_cmd, mid, alloc, pc, tag, reqQ, cmpQ, rspQ>>,
           \A y \in Drainers : y # x => stage'[y] = stage[y],
           p # "drain" => stage'[x] = "off" /\ stage[x] = "off",
           p = "drain" => stage'[x] = "reqQ",
           p = "verdict" /\ eh'[x].ok => eh[x].c \notin Queued
    PROVE  Recovery'
<1>1. /\ eh[x].sc \in Scs /\ mid[eh[x].sc] = "late"
      /\ eh[x].c \in Tags /\ eh[x].c = scribble[eh[x].sc]
      /\ scsi_cmd[eh[x].c] = eh[x].sc /\ \A s \in Scs : alloc[s] # eh[x].c
      /\ \A y \in Drainers : y # x /\ eh[y].pc # "idle" => eh[y].sc # eh[x].sc
      /\ \A t \in Live : scsi_cmd[t] = eh[x].sc => t = eh[x].c
  BY Mine
<1>3. /\ Queued' = Queued /\ Live' = Live
      /\ \A y \in Drainers : y # x => Ahead(y)' = Ahead(y)
  BY DEF Queued, Live, Closing, Ahead
<1>4. Loans'
  <2>1. \A y \in Drainers, t \in Tags : /\ Holds(y, t)' <=> Holds(y, t)
                                        /\ Frees(y, t)' <=> Frees(y, t)
    BY DEF Holds, Frees, Handling
  <2> QED BY <2>1, LoansKept DEF Recovery
<1>5. Good(x)'
  <2>1. Pursues(x)'
    BY <1>1 DEF Pursues, Handling
  <2>2. Clears(x)'
    <3>1. ASSUME p = "verdict", eh'[x].ok, NEW t \in Queued PROVE scsi_cmd[t] # eh[x].sc
      BY <1>1, <3>1 DEF Live
    <3> QED BY <1>3, <3>1 DEF Clears
  <2>3. Corners(x)'
    BY <1>3 DEF Corners, Ahead
  <2>4. Sweeps(x)'
    BY DEF Recovery, Good, Sweeps
  <2> QED BY <2>1, <2>2, <2>3, <2>4 DEF Good
<1>6. \A y \in Drainers : y # x /\ eh[y].pc # "idle" =>
          /\ mid'[eh[y].sc] = mid[eh[y].sc]
          /\ eh'[x].pc # "idle" => eh'[x].sc # eh[y].sc
  BY <1>1
<1> QED BY <1>3, <1>4, <1>5, <1>6, HandlerStep

LEMMA EhAbortWaited ==
    ASSUME CopyFaults = FALSE, Recovery, NEW x \in Drainers, AbortWaited(x)
    PROVE  Recovery'
<1>1. PICK b \in BOOLEAN : eh' = [eh EXCEPT ![x].pc = "judge", ![x].ok = b]
  BY DEF AbortWaited
<1>2. /\ eh[x].pc = "abort"
      /\ UNCHANGED vars /\ UNCHANGED scribble
  BY DEF AbortWaited, untouched, vars
<1>3. UNCHANGED <<scribble, scsi_cmd, mid, alloc, pc, tag, reqQ, cmpQ, rspQ, stage>>
  BY <1>2 DEF vars, slotVars, queueVars, workerVars
<1>4. PICK p \in Handling : p = "judge"
  BY DEF Handling
<1>5. EhTypes'
  <2>1. EhTypes
    BY DEF Recovery
  <2> QED BY <1>1, <1>2, <1>4, <2>1, EhTyped
<1>6. /\ eh'[x].pc = p /\ eh'[x].sc = eh[x].sc /\ eh'[x].c = eh[x].c
      /\ \A y \in Drainers : y # x => eh'[y] = eh[y]
  BY <1>1, <1>4 DEF Recovery, EhTypes
<1>7. eh[x].pc \in Handling /\ stage[x] = "off"
  BY <1>2 DEF Handling, Recovery, Good, Sweeps
<1>8. \A y \in Drainers : stage'[y] = stage[y]
  BY <1>3
<1> QED BY <1>2, <1>3, <1>4, <1>5, <1>6, <1>7, <1>8, EhGoto

LEMMA EhResetDrain ==
    ASSUME CopyFaults = FALSE, Recovery, NEW x \in Drainers, ResetDrain(x)
    PROVE  Recovery'
<1>1. /\ eh[x].pc = "reset wait" /\ DrainStart(x) /\ UNCHANGED scribble
      /\ eh' = [eh EXCEPT ![x].pc = "drain"]
      /\ stage' = [stage EXCEPT ![x] = "reqQ"]
      /\ UNCHANGED <<mid, reqQ, cmpQ, rspQ, scsi_cmd, alloc, pc, tag>>
  BY DEF ResetDrain, Goto, DrainStart, slotVars, queueVars
<1>2. [Next]_vars
  BY <1>1 DEF Next, Drain
<1>3. stage'[x] = "reqQ" /\ \A y \in Drainers : y # x => stage'[y] = stage[y]
  BY <1>1, LoanFacts DEF Recovery, Types
<1>4. PICK p \in Handling : p = "drain"
  BY DEF Handling
<1>5. EhTypes'
  <2>1. EhTypes
    BY DEF Recovery
  <2> QED BY <1>1, <1>4, <2>1, EhTyped
<1>6. /\ eh'[x].pc = p /\ eh'[x].sc = eh[x].sc /\ eh'[x].c = eh[x].c
      /\ \A y \in Drainers : y # x => eh'[y] = eh[y]
  BY <1>1, <1>4 DEF Recovery, EhTypes
<1>7. eh[x].pc \in Handling
  BY <1>1 DEF Handling
<1> QED BY <1>1, <1>2, <1>3, <1>4, <1>5, <1>6, <1>7, EhGoto

\* A command times out that no handler is at work on.
LEMMA EhTimeout ==
    ASSUME Recovery, NEW s \in Scs, Timeout(s)
    PROVE  Recovery'
<1>1. /\ mid[s] = "driver" /\ alloc[s] = NoTag /\ mid' = [mid EXCEPT ![s] = "late"]
      /\ UNCHANGED <<stat, sn, scsi_cmd, refcnt, cmd_pool_bits, reqQ, cmpQ, rspQ,
                     cmd_sn, io_running, dup, alloc, rd, pc, tag, cur, msg, stage,
                     snap, user, scribble, eh>>
  BY DEF Timeout, slotVars, queueVars, workerVars
<1>2. mid'[s] = "late" /\ \A z \in Scs : z # s => mid'[z] = mid[z]
  BY <1>1, LoanFacts DEF Recovery, Types
<1>3. Loans' /\ Queued' = Queued /\ Live' = Live
  <2>1. PICK lent \in [Tags -> 0 .. 2] : Inv(lent) /\ LentOut(lent)
    BY DEF Recovery, Loans
  <2>2. lent \in [Tags -> Nat]
    BY <2>1
  <2>3. Inv(lent)' /\ Queued' = Queued /\ Live' = Live
    BY <1>1, <2>1, <2>2, LateFrame
  <2>4. LentOut(lent)'
    BY <1>1, <2>1 DEF LentOut, Holds, Frees
  <2> QED BY <2>3, <2>4 DEF Loans
<1>4. EhTypes' /\ Apart' /\ Unbound'
  BY <1>1 DEF Recovery, EhTypes, Apart, Unbound
<1>5. Saved'
  BY <1>1, <1>3 DEF Recovery, Saved
<1>6. ASSUME NEW y \in Drainers PROVE Good(y)'
  <2>1. Pursues(y)'
    BY <1>1, <1>2 DEF Recovery, Good, Pursues
  <2>2. Clears(y)'
    <3>1. Owned(eh[y].c)' <=> Owned(eh[y].c)
      BY <1>1, <1>3 DEF Owned
    <3> QED BY <1>1, <1>3, <3>1 DEF Recovery, Good, Clears
  <2>3. Corners(y)' /\ Sweeps(y)'
    <3>1. Ahead(y)' = Ahead(y)
      BY <1>1, <1>3 DEF Ahead
    <3> QED BY <1>1, <1>3, <3>1 DEF Recovery, Good, Corners, Sweeps
  <2> QED BY <2>1, <2>2, <2>3 DEF Good
<1> QED BY <1>3, <1>4, <1>5, <1>6 DEF Recovery

\* The handler unlinks its slot and takes over the reference of the queue.
LEMMA EhTakes ==
    ASSUME Recovery, NEW x \in Drainers, AbortTake(x), eh[x].ok, eh[x].c \in Queued
    PROVE  Recovery'
<1>1. PICK c, s : c = eh[x].c /\ s = eh[x].sc
  OBVIOUS
<1>2. /\ eh[x].pc = "judge" /\ RemoveQ(c) /\ IoStops /\ c \in Queued
      /\ eh' = [eh EXCEPT ![x].pc = "release"]
      /\ UNCHANGED <<stat, sn, scsi_cmd, refcnt, cmd_pool_bits, cmd_sn, mid, dup,
                     alloc, rd, pc, tag, cur, msg, stage, snap, user, scribble>>
  BY <1>1 DEF AbortTake, Unlink, Goto, untouched, workerVars
<1>3. eh[x].pc \in Handling
  BY <1>2 DEF Handling
<1>4. /\ s \in Scs /\ mid[s] = "late" /\ c \in Tags /\ c = scribble[s]
      /\ scsi_cmd[c] = s /\ \A z \in Scs : alloc[z] # c
      /\ \A y \in Drainers : y # x => ~ Holds(y, c)
      /\ \A y \in Drainers : y # x /\ eh[y].pc # "idle" => eh[y].sc # s
      /\ \A t \in Live : scsi_cmd[t] = s => t = c
  BY <1>1, <1>3, Mine
<1>5. EhTypes'
  <2>1. EhTypes /\ UNCHANGED scribble /\ "release" \in Handling
    BY <1>2 DEF Recovery, Handling
  <2> QED BY <1>2, <2>1, EhTyped
<1>6. /\ \A y \in Drainers : y # x => eh'[y] = eh[y]
      /\ eh'[x].pc = "release" /\ eh'[x].sc = s /\ eh'[x].c = c
  BY <1>1, <1>2 DEF Recovery, EhTypes
<1>7. PICK lent \in [Tags -> 0 .. 2] : Inv(lent) /\ LentOut(lent)
  BY DEF Recovery, Loans
<1>8. lent[c] = 1
  <2>1. lent[c] = IF Frees(x, c) THEN 2 ELSE IF Holds(x, c) THEN 1 ELSE 0
    BY <1>4, <1>7, LentOf
  <2>2. Holds(x, c) /\ ~ Frees(x, c)
    BY <1>1, <1>2, <1>3 DEF Holds, Frees
  <2> QED BY <2>1, <2>2
<1>9. PICK more : more = [lent EXCEPT ![c] = 2]
  OBVIOUS
<1>10. /\ more \in [Tags -> 0 .. 2] /\ more[c] = 2
       /\ \A t \in Tags : t # c => more[t] = lent[t]
  BY <1>4, <1>7, <1>9
<1>11. lent \in [Tags -> Nat] /\ more \in [Tags -> Nat] /\ more[c] = lent[c] + 1
  BY <1>7, <1>8, <1>10
<1>12. Inv(more)' /\ Queued' = Queued \ {c} /\ Live' = Live \ {c} /\ ~ Owned(c)'
  <2>1. mid[scsi_cmd[c]] = "late"
    BY <1>4
  <2> QED BY <1>2, <1>7, <1>10, <1>11, <2>1, TakeFrame
<1>13. Loans'
  <2>1. \A t \in Tags : t # c => ~ Holds(x, t) /\ ~ Holds(x, t)'
    BY <1>1, <1>6 DEF Holds
  <2>2. Holds(x, c)' /\ Frees(x, c)'
    BY <1>6 DEF Holds, Frees, Handling
  <2>3. PICK n \in {2} : n = 2
    OBVIOUS
  <2>4. n \in 0 .. 2 /\ more[c] = n /\ (n > 0 <=> Holds(x, c)') /\ (n = 2 <=> Frees(x, c)')
    BY <1>10, <2>2, <2>3
  <2> QED BY <1>4, <1>6, <1>7, <1>10, <1>12, <2>1, <2>4, LoanMoves
<1>14. Good(x)'
  <2>1. Pursues(x)'
    BY <1>2, <1>4, <1>6 DEF Pursues
  <2>2. Clears(x)'
    <3>1. \A t \in Live' : scsi_cmd'[t] # s
      BY <1>2, <1>4, <1>12
    <3> QED BY <1>6, <1>12, <3>1 DEF Clears, Owned
  <2>3. Corners(x)'
    BY <1>6 DEF Corners
  <2>4. Sweeps(x)'
    BY <1>2 DEF Recovery, Good, Sweeps
  <2> QED BY <2>1, <2>2, <2>3, <2>4 DEF Good
<1>15. \A y \in Drainers : \A t \in Queued' : t \in Ahead(y) => t \in Ahead(y)'
  <2>1. Types /\ QueuesOK
    BY LoanFacts DEF Recovery
  <2>2. /\ ToSet(reqQ') = ToSet(reqQ) \ {c} /\ ToSet(cmpQ') = ToSet(cmpQ) \ {c}
        /\ ToSet(rspQ') = ToSet(rspQ) \ {c}
    BY <1>2, <2>1, RemoveQShrinks
  <2> QED BY <1>2, <1>12, <2>1, <2>2, AheadFrame
<1>16. \A y \in Drainers : y # x /\ eh[y].pc # "idle" =>
          /\ mid'[eh[y].sc] = mid[eh[y].sc]
          /\ eh'[x].pc # "idle" => eh'[x].sc # eh[y].sc
  BY <1>2, <1>4, <1>6
<1>17. Live' \subseteq Live /\ Queued' \subseteq Queued
  BY <1>12
<1> QED BY <1>2, <1>5, <1>6, <1>13, <1>14, <1>15, <1>16, <1>17, HandlerStep

LEMMA EhAbortTake ==
    ASSUME CopyFaults = FALSE, Recovery, NEW x \in Drainers, AbortTake(x)
    PROVE  Recovery'
<1>1. CASE eh[x].ok /\ eh[x].c \in Queued
  BY <1>1, EhTakes
<1>2. CASE ~ (eh[x].ok /\ eh[x].c \in Queued)
  <2>1. /\ eh[x].pc = "judge" /\ eh' = [eh EXCEPT ![x].pc = "verdict"]
        /\ UNCHANGED vars /\ UNCHANGED scribble
    BY <1>2 DEF AbortTake, Goto, untouched, vars, slotVars
  <2>2. UNCHANGED <<scribble, scsi_cmd, mid, alloc, pc, tag, reqQ, cmpQ, rspQ, stage>>
    BY <2>1 DEF vars, slotVars, queueVars, workerVars
  <2>3. PICK p \in Handling : p = "verdict"
    BY DEF Handling
  <2>4. EhTypes'
    <3>1. EhTypes
      BY DEF Recovery
    <3> QED BY <2>1, <2>3, <3>1, EhTyped
  <2>5. /\ eh'[x].pc = p /\ eh'[x].sc = eh[x].sc /\ eh'[x].c = eh[x].c
        /\ eh'[x].ok = eh[x].ok /\ \A y \in Drainers : y # x => eh'[y] = eh[y]
    BY <2>1, <2>3 DEF Recovery, EhTypes
  <2>6. eh[x].pc \in Handling /\ stage[x] = "off"
    BY <2>1 DEF Handling, Recovery, Good, Sweeps
  <2>7. \A y \in Drainers : stage'[y] = stage[y]
    BY <2>2
  <2>8. p = "verdict" /\ eh'[x].ok => eh[x].c \notin Queued
    BY <1>2, <2>5
  <2> QED BY <2>1, <2>2, <2>3, <2>4, <2>5, <2>6, <2>7, <2>8, EhGoto
<1> QED BY <1>1, <1>2

\* A handler gives a reference back, and nothing but its own fields and perhaps the
\* state of its command changes beside the pool.
LEMMA EhPut ==
    ASSUME Recovery, NEW x \in Drainers, eh[x].pc \in Handling, NEW c \in Tags,
           c = eh[x].c, CmdPut(c, 1), EhTypes',
           \A y \in Drainers : y # x => eh'[y] = eh[y],
           \A t \in Tags : (Holds(x, t)' <=> t = c /\ Frees(x, c)) /\ ~ Frees(x, t)',
           mid' \in [Scs -> {"idle", "driver", "late"}],
           \A s \in Scs : mid'[s] = mid[s] \/ /\ mid[s] = "late" /\ mid'[s] = "idle"
                                              /\ \A u \in Live : scsi_cmd[u] # s
                                              /\ s = eh[x].sc,
           eh'[x].pc # "idle" => eh'[x].sc = eh[x].sc,
           (Pursues(x) /\ Clears(x) /\ Corners(x))',
           eh'[x].pc # "drain" => stage[x] = "off",
           UNCHANGED <<stat, sn, scsi_cmd, reqQ, cmpQ, rspQ, cmd_sn, io_running, dup,
                       alloc, rd, pc, tag, cur, msg, stage, snap, user, scribble>>
    PROVE  Recovery'
<1>1. Loans'
  BY HandlerPut
<1>2. Queued' = Queued /\ Live' = Live /\ \A y \in Drainers : Ahead(y)' = Ahead(y)
  BY DEF Queued, Live, Closing, Ahead
<1>3. Sweeps(x)'
  BY DEF Recovery, Good, Sweeps
<1>4. \A y \in Drainers : y # x /\ eh[y].pc # "idle" => /\ eh[y].sc # eh[x].sc
                                                        /\ eh[y].sc \in Scs
  BY Mine DEF Recovery, Good, Pursues
<1>5. \A y \in Drainers : y # x /\ eh[y].pc # "idle" =>
          /\ mid'[eh[y].sc] = mid[eh[y].sc]
          /\ eh'[x].pc # "idle" => eh'[x].sc # eh[y].sc
  BY <1>4
<1>6. Good(x)'
  BY <1>3 DEF Good
<1> QED BY <1>1, <1>2, <1>5, <1>6, HandlerStep

\* The handler's scsi_done is ignored, since the command timed out.
LEMMA EhAbortRelease ==
    ASSUME Recovery, NEW x \in Drainers, AbortRelease(x)
    PROVE  Recovery'
<1>1. PICK c, s : c = eh[x].c /\ s = eh[x].sc
  OBVIOUS
<1>2. /\ eh[x].pc = "release" /\ CmdPut(c, 1) /\ ScsiDone(s)
      /\ eh' = [eh EXCEPT ![x].pc = "verdict"]
      /\ UNCHANGED <<stat, sn, scsi_cmd, reqQ, cmpQ, rspQ, cmd_sn, io_running,
                     alloc, rd, pc, tag, cur, msg, stage, snap, user, scribble>>
  BY <1>1 DEF AbortRelease, Goto, untouched, workerVars, queueVars
<1>3. eh[x].pc \in Handling
  BY <1>2 DEF Handling
<1>4. /\ s \in Scs /\ mid[s] = "late" /\ c \in Tags /\ c = scribble[s]
      /\ scsi_cmd[c] = s /\ \A z \in Scs : alloc[z] # c
      /\ \A t \in Live : scsi_cmd[t] # s
  BY <1>1, <1>2, <1>3, Mine DEF Good, Clears
<1>5. mid' = mid /\ dup' = dup /\ mid \in [Scs -> {"idle", "driver", "late"}]
  <2>1. mid \in [Scs -> {"idle", "driver", "late"}]
    BY LoanFacts DEF Recovery, Types
  <2> QED BY <1>2, <1>4, <2>1 DEF ScsiDone
<1>6. EhTypes'
  <2>1. EhTypes /\ UNCHANGED scribble /\ "verdict" \in Handling
    BY <1>2 DEF Recovery, Handling
  <2> QED BY <1>2, <2>1, EhTyped
<1>7. /\ \A y \in Drainers : y # x => eh'[y] = eh[y]
      /\ eh'[x].pc = "verdict" /\ eh'[x].sc = s /\ eh'[x].c = c
  BY <1>1, <1>2 DEF Recovery, EhTypes
<1>8. \A t \in Tags : (Holds(x, t)' <=> t = c /\ Frees(x, c)) /\ ~ Frees(x, t)'
  BY <1>1, <1>2, <1>7 DEF Holds, Frees, Handling
<1>9. Pursues(x)'
  BY <1>2, <1>4, <1>5, <1>7 DEF Pursues
<1>10. Clears(x)' /\ Corners(x)'
  <2>1. \A t \in Queued' : scsi_cmd'[t] # s
    BY <1>2, <1>4 DEF Live, Queued
  <2> QED BY <1>7, <2>1 DEF Clears, Corners
<1>11. stage[x] = "off"
  BY <1>2 DEF Recovery, Good, Sweeps
<1> QED BY <1>1, <1>2, <1>3, <1>4, <1>5, <1>6, <1>7, <1>8, <1>9, <1>10, <1>11, EhPut

\* A handler ends whose command is nowhere in the driver any more.
LEMMA EhFinish ==
    ASSUME Recovery, NEW x \in Drainers, eh[x].pc \in Handling, eh[x].pc # "release",
           CmdPut(eh[x].c, 1), Finish(eh[x].sc), Leave(x), stage[x] = "off",
           \A t \in Live : scsi_cmd[t] # eh[x].sc,
           UNCHANGED <<untouched, queueVars, io_running, dup>>
    PROVE  Recovery'
<1>1. PICK c, s : c = eh[x].c /\ s = eh[x].sc
  OBVIOUS
<1>2. /\ CmdPut(c, 1) /\ mid' = [mid EXCEPT ![s] = "idle"]
      /\ eh' = [eh EXCEPT ![x] = NoHandling]
      /\ UNCHANGED <<stat, sn, scsi_cmd, reqQ, cmpQ, rspQ, cmd_sn, io_running, dup,
                     alloc, rd, pc, tag, cur, msg, stage, snap, user, scribble>>
  BY <1>1 DEF Finish, Leave, untouched, workerVars, queueVars
<1>3. s \in Scs /\ mid[s] = "late" /\ c \in Tags /\ \A t \in Live : scsi_cmd[t] # s
  BY <1>1, Mine
<1>4. /\ mid' \in [Scs -> {"idle", "driver", "late"}] /\ mid'[s] = "idle"
      /\ \A z \in Scs : z # s => mid'[z] = mid[z]
  BY <1>2, <1>3, LoanFacts DEF Recovery, Types
<1>5. EhTypes'
  <2>1. NoHandling \in [pc : Handling \union {"idle", "reset"},
                        sc : Scs \union {NoCmd}, c : Tags \union {NoTag},
                        ok : BOOLEAN]
    BY DEF NoHandling
  <2> QED BY <1>2, <2>1 DEF Recovery, EhTypes
<1>6. eh'[x].pc = "idle" /\ \A y \in Drainers : y # x => eh'[y] = eh[y]
  BY <1>2 DEF Recovery, EhTypes, NoHandling
<1>7. \A t \in Tags : (Holds(x, t)' <=> t = c /\ Frees(x, c)) /\ ~ Frees(x, t)'
  BY <1>1, <1>6 DEF Holds, Frees, Handling
<1>8. (Pursues(x) /\ Clears(x) /\ Corners(x))'
  BY <1>6 DEF Pursues, Clears, Corners
<1>9. \A z \in Scs : mid'[z] = mid[z] \/ /\ mid[z] = "late" /\ mid'[z] = "idle"
                                         /\ \A u \in Live : scsi_cmd[u] # z
                                         /\ z = eh[x].sc
  BY <1>1, <1>3, <1>4
<1> QED BY <1>1, <1>2, <1>3, <1>4, <1>5, <1>6, <1>7, <1>8, <1>9, EhPut

LEMMA EhAbortEnd ==
    ASSUME Recovery, NEW x \in Drainers, AbortEnd(x), ~ forgone'
    PROVE  Recovery'
<1>1. /\ eh[x].pc = "verdict" /\ CmdPut(eh[x].c, 1)
      /\ \/ Finish(eh[x].sc) /\ Leave(x) /\ eh[x].ok /\ ~ Closes(eh[x].sc)
         \/ Goto(x, "reset") /\ UNCHANGED mid
      /\ UNCHANGED <<untouched, queueVars, io_running, dup>>
  BY DEF AbortEnd
<1>2. eh[x].pc \in Handling /\ stage[x] = "off"
  BY <1>1 DEF Handling, Recovery, Good, Sweeps
<1>3. CASE Finish(eh[x].sc) /\ Leave(x) /\ eh[x].ok /\ ~ Closes(eh[x].sc)
  <2>1. \A t \in Live : scsi_cmd[t] # eh[x].sc
    BY <1>1, <1>3 DEF Recovery, Good, Clears, Live, Closes
  <2> QED BY <1>1, <1>2, <1>3, <2>1, EhFinish
<1>4. CASE Goto(x, "reset") /\ UNCHANGED mid
  <2>1. PICK c, s : c = eh[x].c /\ s = eh[x].sc
    OBVIOUS
  <2>2. /\ CmdPut(c, 1) /\ eh' = [eh EXCEPT ![x].pc = "reset"]
        /\ UNCHANGED <<stat, sn, scsi_cmd, reqQ, cmpQ, rspQ, cmd_sn, io_running, mid,
                       dup, alloc, rd, pc, tag, cur, msg, stage, snap, user, scribble>>
    BY <1>1, <1>4, <2>1 DEF Goto, untouched, workerVars, queueVars
  <2>3. s \in Scs /\ mid[s] = "late" /\ c \in Tags
    BY <1>2, <2>1, Mine
  <2>4. EhTypes'
    <3>1. EhTypes /\ UNCHANGED scribble
      BY <2>2 DEF Recovery
    <3> QED BY <2>2, <3>1, EhTyped
  <2>5. /\ eh'[x].pc = "reset" /\ eh'[x].sc = s
        /\ \A y \in Drainers : y # x => eh'[y] = eh[y]
    BY <2>1, <2>2 DEF Recovery, EhTypes
  <2>6. \A t \in Tags : (Holds(x, t)' <=> t = c /\ Frees(x, c)) /\ ~ Frees(x, t)'
    BY <1>1, <2>5 DEF Holds, Frees, Handling
  <2>7. (Pursues(x) /\ Clears(x) /\ Corners(x))'
    BY <2>2, <2>3, <2>5 DEF Pursues, Clears, Corners, Handling
  <2>8. mid' \in [Scs -> {"idle", "driver", "late"}] /\ \A z \in Scs : mid'[z] = mid[z]
    BY <2>2, LoanFacts DEF Recovery, Types
  <2> QED BY <1>2, <2>1, <2>2, <2>3, <2>4, <2>5, <2>6, <2>7, <2>8, EhPut
<1> QED BY <1>1, <1>3, <1>4

\* A drain that is over has taken the handler's slot, or it was unlinked before.
LEMMA EhResetEnd ==
    ASSUME Recovery, NEW x \in Drainers, ResetEnd(x), ~ forgone'
    PROVE  Recovery'
<1>1. /\ eh[x].pc = "drain" /\ stage[x] = "off" /\ CmdPut(eh[x].c, 1)
      /\ Finish(eh[x].sc) /\ Leave(x) /\ ~ Closes(eh[x].sc)
      /\ UNCHANGED <<untouched, queueVars, io_running, dup>>
  BY DEF ResetEnd
<1>2. eh[x].pc \in Handling /\ eh[x].pc # "release"
  BY <1>1 DEF Handling
<1>3. eh[x].c \notin Queued
  BY <1>1 DEF Recovery, Good, Corners, Ahead
<1>4. \A t \in Live : scsi_cmd[t] # eh[x].sc
  <2>1. \A t \in Live : scsi_cmd[t] = eh[x].sc => t = eh[x].c
    BY <1>2, Mine
  <2> QED BY <1>1, <1>3, <2>1 DEF Live, Closes
<1> QED BY <1>1, <1>2, <1>4, EhFinish


LEMMA EhStart ==
    ASSUME EhInit
    PROVE  EhInv
<1>1. Init /\ scribble = [s \in Scs |-> NoTag] /\ eh = [x \in Drainers |-> NoHandling]
  BY DEF EhInit
<1>2. PICK none : none = [t \in Tags |-> 0]
  OBVIOUS
<1>3. none \in [Tags -> 0 .. 2] /\ none = Nothing /\ \A t \in Tags : none[t] = 0
  BY <1>2 DEF Nothing
<1>4. Inv(Nothing)
  BY <1>1, InitIInv DEF IInv
<1>5. \A x \in Drainers : eh[x].pc = "idle"
  BY <1>1 DEF NoHandling
<1>6. Loans
  <2>1. \A x \in Drainers, t \in Tags : ~ Holds(x, t) /\ ~ Frees(x, t)
    BY <1>5 DEF Holds, Frees, Handling
  <2>2. LentOut(none)
    BY <1>3, <2>1 DEF LentOut
  <2> QED BY <1>3, <1>4, <2>2 DEF Loans
<1>7. /\ \A s \in Scs : mid[s] # "late"
      /\ Queued = {} /\ \A x \in Drainers : stage[x] = "off"
      /\ \A a \in Workers : pc[a] = "idle"
  BY <1>1, EmptyFacts DEF Init, Queued
<1>8. EhTypes
  BY <1>1 DEF EhTypes, NoHandling
<1>9. Apart /\ \A x \in Drainers : Good(x)
  BY <1>5, <1>7 DEF Apart, Good, Pursues, Clears, Corners, Sweeps, Workers, Handling
<1>10. Saved /\ Unbound
  <2>1. Live = {} /\ \A s \in Scs : alloc[s] = NoTag
    BY <1>1, <1>7 DEF Live, Closing, Init
  <2> QED BY <2>1 DEF Saved, Unbound
<1> QED BY <1>6, <1>8, <1>9, <1>10 DEF EhInv, Recovery

\* The rest of EhInv's induction: nothing is known once a handler has gone astray or
\* has forgone its command, and neither is ever undone.
LEMMA EhStep ==
    ASSUME CopyFaults = FALSE, EhInv, [EhNext]_allVars
    PROVE  EhInv'
<1> SUFFICES ASSUME ~ forgone', ~ astray' PROVE Recovery'
  BY DEF EhInv, Sound
<1>1. ~ forgone /\ ~ astray
  <2>1. CASE UNCHANGED allVars
    BY <2>1 DEF allVars, ehVars
  <2>2. ASSUME NEW x \in Drainers, Recover(x) PROVE forgone => forgone'
    <3>1. ASSUME NEW s \in Scs, AbortBegin(x, s) PROVE forgone' = forgone
      BY <3>1 DEF AbortBegin
    <3>2. CASE AbortEnd(x)
      BY <3>2 DEF AbortEnd
    <3>3. CASE AbortNoEvent(x) \/ AbortWaited(x) \/ AbortTake(x) \/ AbortRelease(x)
      BY <3>3 DEF AbortNoEvent, AbortWaited, AbortTake, AbortRelease
    <3>4. CASE ResetBegin(x) \/ ResetNoEvent(x) \/ ResetDrain(x) \/ EhDrain(x)
                 \/ ResetEnd(x)
      BY <3>4 DEF ResetBegin, ResetNoEvent, ResetDrain, EhDrain, ResetEnd, ehVars
    <3> QED BY <2>2, <3>1, <3>2, <3>3, <3>4 DEF Recover
  <2>3. ASSUME NEW s \in Scs, EhQueue(s) \/ Timeout(s) PROVE forgone' = forgone
    BY <2>3 DEF EhQueue, Timeout, ehVars
  <2>4. CASE UNCHANGED ehVars
    BY <2>4 DEF ehVars
  <2>5. CASE EhNext
    BY <2>2, <2>3, <2>4, <2>5 DEF EhNext, Steps
  <2> QED BY <2>1, <2>5
<1>2. Recovery
  BY <1>1 DEF EhInv, Sound
<1>3. CASE UNCHANGED allVars
  <2>1. /\ UNCHANGED vars /\ UNCHANGED ehVars
        /\ UNCHANGED <<scsi_cmd, mid, alloc, pc, tag, cur, stage, reqQ, cmpQ, rspQ>>
    BY <1>3 DEF allVars, vars, slotVars, queueVars, workerVars
  <2>2. Queued' = Queued /\ \A x \in Drainers : Ahead(x) \subseteq Ahead(x)'
    BY <2>1 DEF Queued, Ahead
  <2> QED BY <1>2, <2>1, <2>2, EhMove
<1>4. ASSUME NEW s \in Scs, EhQueue(s) PROVE Recovery'
  BY <1>2, <1>4, EhAlloc, EhEnqueue DEF EhQueue
<1>5. ASSUME NEW s \in Scs, Timeout(s) PROVE Recovery'
  BY <1>2, <1>5, EhTimeout
<1>6. CASE StartIo /\ UNCHANGED ehVars
  BY <1>2, <1>6, EhStartIo
<1>7. ASSUME NEW r \in Readers, Read(r), UNCHANGED ehVars PROVE Recovery'
  BY <1>2, <1>7, EhRead
<1>8. ASSUME NEW w \in Writers, Write(w), UNCHANGED ehVars PROVE Recovery'
  <2>1. CASE DataCopy(w) \/ RespondDone(w) \/ RespondPut(w)
    BY <1>2, <1>8, <2>1, EhServe
  <2>2. ASSUME NEW m \in user, DataFind(w, m) PROVE Recovery'
    BY <1>2, <1>8, <2>2, EhServe
  <2>3. ASSUME NEW m \in user, RespondTake(w, m) PROVE Recovery'
    BY <1>2, <1>8, <2>3, EhRespond
  <2> QED BY <1>8, <2>1, <2>2, <2>3 DEF Write
<1>9. ASSUME NEW x \in Drainers, Recover(x) PROVE Recovery'
  <2>1. ASSUME NEW s \in Scs, AbortBegin(x, s) PROVE Recovery'
    BY <1>2, <2>1, EhAbortBegin
  <2>2. CASE AbortWaited(x)
    BY <1>2, <2>2, EhAbortWaited
  <2>3. CASE AbortTake(x)
    BY <1>2, <2>3, EhAbortTake
  <2>4. CASE AbortRelease(x)
    BY <1>2, <2>4, EhAbortRelease
  <2>5. CASE AbortEnd(x)
    BY <1>2, <2>5, EhAbortEnd
  <2>6. CASE ResetBegin(x)
    BY <1>2, <2>6, EhResetBegin
  <2>7. CASE ResetDrain(x)
    BY <1>2, <2>7, EhResetDrain
  <2>8. CASE EhDrain(x)
    BY <1>2, <2>8, EhPop, EhDrainOn DEF EhDrain
  <2>9. CASE ResetEnd(x)
    BY <1>2, <2>9, EhResetEnd
  <2>10. CASE AbortNoEvent(x) \/ ResetNoEvent(x)
    BY <2>10 DEF AbortNoEvent, ResetNoEvent
  <2> QED BY <1>9, <2>1, <2>2, <2>3, <2>4, <2>5, <2>6, <2>7, <2>8, <2>9, <2>10
     DEF Recover
<1> QED BY <1>3, <1>4, <1>5, <1>6, <1>7, <1>8, <1>9 DEF EhNext, Steps

\* If no copy to the target's buffers fails, every reachable state of the command path
\* under its error handlers satisfies EhInv.
THEOREM EhInductive == CopyFaults = FALSE => (EhSpec => []EhInv)
<1> SUFFICES ASSUME CopyFaults = FALSE PROVE EhSpec => []EhInv
  OBVIOUS
<1>1. EhInit => EhInv
  BY EhStart
<1>2. EhInv /\ [EhNext]_allVars => EhInv'
  BY EhStep
<1> QED BY <1>1, <1>2, PTL DEF EhSpec

LEMMA EhInvCustody == EhInv => EhCustody
<1> SUFFICES ASSUME Recovery, NEW s \in Scs
             PROVE  LET held == {t \in Live : scsi_cmd[t] = s} IN
                    CASE mid[s] = "idle"   -> alloc[s] = NoTag /\ held = {}
                      [] mid[s] = "driver" -> IF alloc[s] # NoTag THEN held = {}
                                              ELSE \E t \in Tags : held = {t}
                      [] mid[s] = "late"   -> Cardinality(held) <= 1
  BY DEF EhInv, EhCustody
<1> DEFINE held == {t \in Live : scsi_cmd[t] = s}
<1>1. Types /\ Threads /\ Owners /\ TagTaken
  BY LoanFacts DEF Recovery
<1>2. mid[s] \in {"idle", "driver", "late"}
  BY <1>1 DEF Types
<1>3. CASE mid[s] = "idle"
  BY <1>1, <1>3 DEF Owners, AllocOwned, LiveOwned
<1>4. CASE mid[s] = "driver" /\ alloc[s] # NoTag
  BY <1>1, <1>4 DEF Owners, AllocOwned
<1>5. CASE mid[s] = "driver" /\ alloc[s] = NoTag
  <2>1. PICK t \in Live : scsi_cmd[t] = s
    BY <1>1, <1>5 DEF Owners, DriverHeld
  <2>2. held = {t}
    BY <1>1, <2>1 DEF Owners, LiveOnce
  <2>3. t \in Tags
    BY <1>1, <2>1, LiveMember, QueueTypes DEF Types, Threads, TagTaken
  <2> QED BY <1>5, <2>2, <2>3
<1>6. CASE mid[s] = "late"
  <2>1. CASE held = {}
    <3>1. Cardinality(held) = 0
      BY <2>1, FS_EmptySet
    <3> QED BY <1>6, <3>1
  <2>2. CASE held # {}
    <3>1. PICK t \in Live : held = {t}
      BY <1>1, <2>2 DEF Owners, LiveOnce
    <3>2. Cardinality(held) = 1
      BY <3>1, FS_Singleton
    <3> QED BY <1>6, <3>2
  <2> QED BY <2>1, <2>2
<1> QED BY <1>2, <1>3, <1>4, <1>5, <1>6

LEMMA EhInvSlots == EhInv => EhSlots
<1> SUFFICES ASSUME Recovery
             PROVE  /\ cmd_pool_bits = Queued
                          \union {alloc[s] : s \in {z \in Scs : alloc[z] # NoTag}}
                          \union {tag[a] : a \in {b \in Workers : tag[b] # NoTag}}
                          \union {eh[x].c : x \in {y \in Drainers :
                                                   eh[y].pc \notin {"idle", "reset"}}}
                    /\ NoDup(reqQ \o cmpQ \o rspQ)
                    /\ \A a, b \in Workers : tag[a] # NoTag /\ tag[a] = tag[b] => a = b
  BY DEF EhInv, EhSlots
<1>1. /\ Types /\ QueuesOK /\ Threads /\ Owners
      /\ QueuedTaken /\ AllocTaken /\ AllocOnce /\ TagTaken /\ TagOnce
      /\ \A x \in Drainers, t \in Tags : Holds(x, t) => t \in cmd_pool_bits
  BY LoanFacts DEF Recovery
<1> DEFINE allocd == {alloc[s] : s \in {z \in Scs : alloc[z] # NoTag}}
           worked == {tag[a] : a \in {b \in Workers : tag[b] # NoTag}}
           lookup == {y \in Drainers : eh[y].pc \notin {"idle", "reset"}}
           lentTo == {eh[x].c : x \in lookup}
<1>2. ASSUME NEW t \in cmd_pool_bits PROVE t \in Queued \union allocd \union worked
                                                        \union lentTo
  <2>1. t \in Tags /\ t # NoTag
    BY <1>1, PoolAssumption DEF Types
  <2>2. Owned(t) \/ \E x \in Drainers : Holds(x, t)
    BY <2>1 DEF Recovery, Loans, LentOut, Inv, Places, TakenSomewhere
  <2>3. CASE \E s \in Scs : alloc[s] = t
    BY <2>1, <2>3
  <2>4. CASE \E a \in Workers : tag[a] = t
    BY <2>1, <2>4
  <2>5. CASE \E x \in Drainers : Holds(x, t)
    BY <2>5 DEF Holds, Handling
  <2> QED BY <2>2, <2>3, <2>4, <2>5 DEF Owned
<1>3. Queued \union allocd \union worked \subseteq cmd_pool_bits
  BY <1>1 DEF QueuedTaken, AllocTaken, TagTaken
<1>4. ASSUME NEW x \in lookup PROVE eh[x].c \in cmd_pool_bits
  <2>1. eh[x].pc \in Handling /\ eh[x].pc # "idle"
    BY DEF Recovery, EhTypes
  <2>2. eh[x].c \in Tags
    BY <2>1 DEF Recovery, Good, Pursues
  <2> QED BY <1>1, <2>1, <2>2 DEF Holds
<1>5. cmd_pool_bits = Queued \union allocd \union worked \union lentTo
  <2> HIDE DEF lookup
  <2>1. lentTo \subseteq cmd_pool_bits
    BY <1>4
  <2> QED BY <1>2, <1>3, <2>1
<1>6. NoDup(reqQ \o cmpQ \o rspQ)
  BY <1>1, LinkedOnce
<1>7. \A a, b \in Workers : tag[a] # NoTag /\ tag[a] = tag[b] => a = b
  BY <1>1 DEF TagOnce
<1> QED BY <1>5, <1>6, <1>7

\* Whatever is aborted or reset, answered late or by another handler's drain, and
\* whatever commands time out meanwhile, a command is held at one place while the
\* driver has it and nowhere once the midlayer has it back.
THEOREM RecoveredOnce == CopyFaults = FALSE => (EhSpec => []EhCustody)
<1> QED BY EhInvCustody, EhInductive, PTL

\* The error handlers neither leak a slot nor let one be used twice.
THEOREM EhSlotsExact == CopyFaults = FALSE => (EhSpec => []EhSlots)
<1> QED BY EhInvSlots, EhInductive, PTL

\* A handler that has found the slot of its command has it to the end, however the
\* command was answered or drained and the free slots used anew meanwhile.
THEOREM AbortsRight == CopyFaults = FALSE => (EhSpec => []AbortRightCommand)
<1>1. EhInv => AbortRightCommand
  <2> SUFFICES ASSUME Recovery, NEW x \in Drainers, eh[x].pc \notin {"idle", "reset"}
               PROVE  Belongs(eh[x].c, eh[x].sc)
    BY DEF EhInv, AbortRightCommand
  <2>1. eh[x].pc \in Handling
    BY DEF Recovery, EhTypes
  <2> QED BY <2>1, Mine DEF Belongs
<1> QED BY <1>1, EhInductive, PTL

=============================================================================
