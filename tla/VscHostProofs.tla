---------------------------- MODULE VscHostProofs ----------------------------
(***************************************************************************)
(* The properties of VscHost hold for any number of open files, as long as  *)
(* a host is not attached before its last detach has returned.             *)
(***************************************************************************)
EXTENDS VscOutage, FiniteSetTheorems, TLAPS

Working == {"unblock", "resume", "abort", "offline"}
Letting == {"block", "requeue", "mark suspend", "start timer"}

\* An attach past the gate that has not returned.
Attaching(f) == \/ pc[f] \in {"attached", "guard off"}
                \/ pc[f] \in {"unblock", "resume"} /\ f \notin owner

\* Where a file may stand: who has the host, is taking it, or is letting it go,
\* and what the midlayer's flag is by then ...
Place(f) ==
    /\ f \in owner => /\ h.file = f
                     /\ pc[f] \in {"idle", "suspend", "unblock", "resume"}
    /\ pc[f] = "suspend" => f \in owner
    /\ Attaching(f) => h.file = f
    /\ pc[f] \in {"sync", "retreat"} => h.file = NoFile
    /\ pc[f] \in Letting => h.file = NoFile /\ ~ h.timer /\ tpc = "idle"
    /\ pc[f] \in {"suspend", "requeue", "mark suspend", "start timer"}
         => h.blocked
    /\ pc[f] = "resume" => ~ h.blocked

\* ... and who is alone with the host.
Apart(f, g) ==
    /\ pc[f] \in {"sync", "retreat"} /\ pc[g] \in {"sync", "retreat"} => f = g
    /\ pc[f] \in Letting /\ pc[g] \in Letting => f = g
    /\ pc[f] = "sync" => pc[g] \notin Letting

Places == \A f \in Files : Place(f)
Alone  == \A f, g \in Files : Apart(f, g)

\* A pending or running timer means that there is no target.
TimerMeansNoTarget == h.timer \/ tpc # "idle" => h.file = NoFile

\* The midlayer's flag and h->suspend, step by step.
Suspended == h.suspend => \/ h.blocked \/ tpc = "resume"
                          \/ \E f \in Files : pc[f] = "resume"
Blocked   == h.file # NoFile /\ h.blocked /\ ~ h.suspend
                => \E f \in Files : pc[f] \in {"suspend", "attached", "unblock"}
Stages    == tpc = "resume" => ~ h.blocked

Rest == /\ Types /\ Places /\ Alone
        /\ TimerMeansNoTarget /\ SyncNeverStuck
        /\ Suspended /\ Blocked /\ Stages

IInv == TypeOK /\ Rest

-----------------------------------------------------------------------------

\* Whoever is past the increment of target_abnormal_lock is counted in it.
LEMMA Counted ==
    ASSUME TypeOK
    PROVE  /\ IsFiniteSet(Guards) /\ Cardinality(Guards) \in Nat
           /\ \A f \in Guards : h.abn > 0
           /\ tpc \notin {"idle", "fired"} => h.abn > 0
<1>1. IsFiniteSet(Guards) /\ Cardinality(Guards) \in Nat
  <2>1. Guards \subseteq Files
    BY DEF Guards
  <2> QED
    BY <2>1, FileAssumption, FS_Subset, FS_CardinalityType
<1>2. ASSUME NEW f \in Guards PROVE Cardinality(Guards) # 0
  BY <1>1, FS_EmptySet
<1>3. h.abn = Cardinality(Guards) + IF tpc \in {"idle", "fired"} THEN 0 ELSE 1
  BY DEF TypeOK
<1>4. ASSUME NEW f \in Guards PROVE h.abn > 0
  BY <1>1, <1>2, <1>3
<1>5. tpc \notin {"idle", "fired"} => h.abn > 0
  BY <1>1, <1>3
<1> QED
  BY <1>1, <1>4, <1>5

\* The callback's share in target_abnormal_lock.
Share(t) == IF t \in {"idle", "fired"} THEN 0 ELSE 1

\* target_abnormal_lock stays exact when one thread takes it, leaves it, or
\* nobody does.
CountKept ==
    \/ Guards' = Guards /\ h'.abn = h.abn + Share(tpc') - Share(tpc)
    \/ /\ Share(tpc') = Share(tpc)
       /\ \/ \E f \in Files \ Guards : /\ Guards' = Guards \union {f}
                                      /\ h'.abn = h.abn + 1
          \/ \E f \in Guards : /\ Guards' = Guards \ {f}
                              /\ h'.abn = h.abn - 1

LEMMA GuardCount ==
    ASSUME TypeOK, Types', CountKept
    PROVE  TypeOK'
<1>1. IsFiniteSet(Guards) /\ Cardinality(Guards) \in Nat
  BY Counted
<1>2. \A f : /\ f \notin Guards => Cardinality(Guards \union {f})
                                     = Cardinality(Guards) + 1
             /\ f \in Guards => Cardinality(Guards \ {f})
                                     = Cardinality(Guards) - 1
  BY <1>1, FS_AddElement, FS_RemoveElement
<1>3. /\ h.abn = Cardinality(Guards) + Share(tpc) /\ h.abn \in Nat
      /\ Share(tpc) \in {0, 1} /\ Share(tpc') \in {0, 1}
  BY DEF TypeOK, Types, Share
<1>4. h'.abn = Cardinality(Guards') + Share(tpc')
  BY <1>1, <1>2, <1>3 DEF CountKept
<1> QED
  BY <1>4 DEF TypeOK, Share

LEMMA InitInv == Init => IInv
<1> SUFFICES ASSUME Init PROVE IInv
  OBVIOUS
<1>1. Guards = {}
  BY DEF Init, Guards
<1>2. Cardinality(Guards) = 0
  BY <1>1, FS_EmptySet
<1>3. Rest
  BY FileAssumption DEF Init, Rest, Types, Places, Place, Alone, Apart, Attaching,
     Letting, TimerMeansNoTarget, SyncNeverStuck, Suspended, Blocked, Stages
<1> QED
  BY <1>2, <1>3 DEF IInv, TypeOK, Rest, Init

-----------------------------------------------------------------------------

\* What a step of a call does to pc.
LEMMA Moved ==
    ASSUME Types, NEW f \in Files, NEW from, NEW to, Call(f, from, to)
    PROVE  /\ pc[f] = from /\ tpc' = tpc
           /\ pc'[f] = to /\ \A g \in Files : g # f => pc'[g] = pc[g]
BY DEF Types, Call

\* The fields of h keep their types, and abn never passes below zero.
LEMMA TypesStep ==
    ASSUME IInv, [Next]_vars
    PROVE  Types'
<1>1. Types /\ FileAssumption
  BY FileAssumption DEF IInv, Rest
<1>2. h.abn \in Nat
  BY <1>1 DEF Types
<1>3. \A g \in Guards : h.abn > 0
  BY Counted DEF IInv
<1>4. tpc = "leave" => h.abn > 0
  BY Counted DEF IInv
<1>5. ASSUME NEW f \in Files, AttachBegin(f) PROVE Types'
  <2>1. h.abn + 1 \in Nat
    BY <1>2
  <2> QED
    BY <1>1, <1>5, <2>1 DEF AttachBegin, Call, GuardOn, Gate, Types
<1>6. ASSUME NEW f \in Files, AttachRetreat(f) PROVE Types'
  <2>1. f \in Guards
    BY <1>6 DEF AttachRetreat, Call, Guards
  <2>2. h.abn - 1 \in Nat
    BY <1>2, <1>3, <2>1
  <2> QED
    BY <1>1, <1>6, <2>2 DEF AttachRetreat, Call, GuardOff, Types
<1>7. ASSUME NEW f \in Files, AttachSync(f) PROVE Types'
  BY <1>1, <1>7 DEF AttachSync, Call, DelTimer, Types
<1>8. ASSUME NEW f \in Files, AttachTest(f) PROVE Types'
  BY <1>1, <1>8 DEF AttachTest, Call, ResumeOrNot, Types
<1>9. ASSUME NEW f \in Files, AttachEnd(f) PROVE Types'
  <2>1. f \in Guards
    BY <1>9 DEF AttachEnd, Call, Guards
  <2>2. h.abn - 1 \in Nat
    BY <1>2, <1>3, <2>1
  <2> QED
    BY <1>1, <1>9, <2>2 DEF AttachEnd, Call, GuardOff, Types
<1>10. ASSUME NEW f \in Files, SuspendBegin(f) PROVE Types'
  BY <1>1, <1>10 DEF SuspendBegin, Call, Types
<1>11. ASSUME NEW f \in Files, SuspendEnd(f) PROVE Types'
  BY <1>1, <1>11 DEF SuspendEnd, Call, Types
<1>12. ASSUME NEW f \in Files, ResumeBegin(f) PROVE Types'
  BY <1>1, <1>12 DEF ResumeBegin, Call, Types
<1>13. ASSUME NEW f \in Files, ResumeUnblock(f) PROVE Types'
  BY <1>1, <1>13 DEF ResumeUnblock, Call, Types
<1>14. ASSUME NEW f \in Files, ResumeEnd(f) PROVE Types'
  BY <1>1, <1>14 DEF ResumeEnd, Call, Types
<1>15. ASSUME NEW f \in Files, NEW b \in BOOLEAN, DetachBegin(f, b) PROVE Types'
  BY <1>1, <1>15 DEF DetachBegin, Call, Types
<1>16. ASSUME NEW f \in Files, DetachBlock(f) PROVE Types'
  BY <1>1, <1>16 DEF DetachBlock, Call, Types
<1>17. ASSUME NEW f \in Files, DetachRequeue(f) PROVE Types'
  BY <1>1, <1>17 DEF DetachRequeue, Call, Types
<1>18. ASSUME NEW f \in Files, DetachMark(f) PROVE Types'
  BY <1>1, <1>18 DEF DetachMark, Call, Types
<1>19. ASSUME NEW f \in Files, DetachTimer(f) PROVE Types'
  BY <1>1, <1>19 DEF DetachTimer, Call, Types
<1>20. ASSUME TimerExpires PROVE Types'
  BY <1>1, <1>20 DEF TimerExpires, Fired, Types
<1>21. ASSUME CallbackBegin PROVE Types'
  <2>1. h.abn + 1 \in Nat
    BY <1>2
  <2> QED
    BY <1>1, <1>21, <2>1 DEF CallbackBegin, Fired, GuardOn, Types
<1>22. ASSUME CallbackUnblock PROVE Types'
  BY <1>1, <1>22 DEF CallbackUnblock, Fired, Types
<1>23. ASSUME CallbackResume PROVE Types'
  BY <1>1, <1>23 DEF CallbackResume, Fired, Types
<1>24. ASSUME CallbackAbort PROVE Types'
  BY <1>1, <1>24 DEF CallbackAbort, Fired, Types
<1>25. ASSUME CallbackOffline PROVE Types'
  BY <1>1, <1>25 DEF CallbackOffline, Fired, Types
<1>26. ASSUME CallbackEnd PROVE Types'
  <2>1. h.abn - 1 \in Nat
    BY <1>2, <1>4, <1>26 DEF CallbackEnd, Fired
  <2> QED
    BY <1>1, <1>26, <2>1 DEF CallbackEnd, Fired, GuardOff, Types
<1>27. ASSUME SetTimeout PROVE Types'
  BY <1>1, <1>27 DEF SetTimeout, Types
<1>28. ASSUME Online PROVE Types'
  BY <1>1, <1>28 DEF Online, Types
<1>29. CASE UNCHANGED vars
  BY <1>1, <1>29 DEF vars, Types
<1> QED
  BY <1>5, <1>6, <1>7, <1>8, <1>9, <1>10, <1>11, <1>12, <1>13, <1>14, <1>15,
     <1>16, <1>17, <1>18, <1>19, <1>20, <1>21, <1>22, <1>23, <1>24, <1>25,
     <1>26, <1>27, <1>28, <1>29 DEF Next, Attach, SuspendResume, Detach,
     Callback

\* Every action keeps who has the host, who is alone with it, and the flags.
LEMMA RestStep ==
    ASSUME Overlap = FALSE, IInv, [Next]_vars
    PROVE  Rest'
<1>1. /\ Types /\ Places /\ Alone
      /\ TimerMeansNoTarget /\ SyncNeverStuck
      /\ Suspended /\ Blocked /\ Stages
  BY DEF IInv, Rest
<1>2. Types' /\ NoFile \notin Files
  BY TypesStep, FileAssumption
<1>3. /\ \A g \in Guards : h.abn > 0
      /\ tpc \notin {"idle", "fired"} => h.abn > 0
  BY Counted DEF IInv
<1>4. ASSUME NEW f \in Files, AttachBegin(f) PROVE Rest'
  <2>1. /\ pc[f] = "idle" /\ tpc' = tpc
        /\ pc'[f] = Gate
        /\ \A g \in Files : g # f => pc'[g] = pc[g]
    BY <1>1, <1>4, Moved DEF AttachBegin
  <2>2. /\ owner' = owner /\ h'.file = h.file
        /\ h'.suspend = h.suspend /\ h'.blocked = h.blocked
        /\ h'.timer = h.timer
        /\ f \notin owner
        /\ h.file = NoFile
        /\ ~ Locked
        /\ ~ Detaching
    BY <1>1, <1>4, Overlap = FALSE DEF AttachBegin, GuardOn, Types
  <2>3. ASSUME NEW g \in Files PROVE Place(g)'
    <3>1. /\ Place(f) /\ Place(g) /\ Apart(f, g) /\ Apart(g, f)
          /\ g # f => pc'[g] = pc[g]
      BY <1>1, <2>1 DEF Places, Alone
    <3>2. pc'[f] = "sync" => tpc \in {"idle", "fired"}
      BY <1>3, <2>1 DEF Gate
    <3> QED
      BY <1>2, <2>1, <2>2, <3>1 DEF Place, Apart, Attaching, Letting, Gate
  <2>4. ASSUME NEW a \in Files, NEW c \in Files PROVE Apart(a, c)'
    <3>1. /\ Apart(a, c) /\ Place(a) /\ Place(c) /\ Place(f)
          /\ a # f => pc'[a] = pc[a]
          /\ c # f => pc'[c] = pc[c]
      BY <1>1, <2>1 DEF Places, Alone
    <3> QED
      BY <1>2, <2>1, <2>2, <3>1 DEF Apart, Letting, Place, Locked, Detaching,
         Gate
  <2>5. Place(f)
    BY <1>1 DEF Places
  <2>6. TimerMeansNoTarget' /\ SyncNeverStuck'
    BY <1>1, <1>2, <1>3, <2>1, <2>2, <2>5 DEF TimerMeansNoTarget,
       SyncNeverStuck, Place, Letting, Locked, Detaching, Gate, Guards
  <2>7. Suspended'
    BY <1>1, <1>2, <1>3, <2>1, <2>2, <2>5 DEF Suspended, Place, Gate
  <2>8. Blocked'
    BY <1>1, <1>2, <1>3, <2>1, <2>2, <2>5 DEF Blocked, Place, Attaching,
       Letting, Gate
  <2>9. Stages'
    BY <1>1, <1>2, <1>3, <2>1, <2>2, <2>5 DEF Stages, TimerMeansNoTarget,
       Place, Letting
  <2> QED
    BY <1>2, <2>3, <2>4, <2>6, <2>7, <2>8, <2>9 DEF Rest, Places, Alone
<1>5. ASSUME NEW f \in Files, AttachRetreat(f) PROVE Rest'
  <2>1. /\ pc[f] = "retreat" /\ tpc' = tpc
        /\ pc'[f] = "idle"
        /\ \A g \in Files : g # f => pc'[g] = pc[g]
    BY <1>1, <1>5, Moved DEF AttachRetreat
  <2>2. /\ owner' = owner /\ h'.file = h.file
        /\ h'.suspend = h.suspend /\ h'.blocked = h.blocked
        /\ h'.timer = h.timer
    BY <1>1, <1>5 DEF AttachRetreat, GuardOff, Types
  <2>3. ASSUME NEW g \in Files PROVE Place(g)'
    <3>1. /\ Place(f) /\ Place(g) /\ Apart(f, g) /\ Apart(g, f)
          /\ g # f => pc'[g] = pc[g]
      BY <1>1, <2>1 DEF Places, Alone
    <3> QED
      BY <1>2, <2>1, <2>2, <3>1 DEF Place, Apart, Attaching, Letting
  <2>4. ASSUME NEW a \in Files, NEW c \in Files PROVE Apart(a, c)'
    <3>1. /\ Apart(a, c) /\ Place(a) /\ Place(c) /\ Place(f)
          /\ a # f => pc'[a] = pc[a]
          /\ c # f => pc'[c] = pc[c]
      BY <1>1, <2>1 DEF Places, Alone
    <3> QED
      BY <1>2, <2>1, <2>2, <3>1 DEF Apart, Letting
  <2>5. Place(f)
    BY <1>1 DEF Places
  <2>6. TimerMeansNoTarget' /\ SyncNeverStuck'
    BY <1>1, <1>2, <2>1, <2>2, <2>5 DEF TimerMeansNoTarget, SyncNeverStuck,
       Place, Letting
  <2>7. Suspended'
    BY <1>1, <1>2, <2>1, <2>2, <2>5 DEF Suspended, Place
  <2>8. Blocked'
    BY <1>1, <1>2, <2>1, <2>2, <2>5 DEF Blocked, Place, Attaching, Letting
  <2>9. Stages'
    BY <1>1, <1>2, <2>1, <2>2, <2>5 DEF Stages, TimerMeansNoTarget, Place,
       Letting
  <2> QED
    BY <1>2, <2>3, <2>4, <2>6, <2>7, <2>8, <2>9 DEF Rest, Places, Alone
<1>6. ASSUME NEW f \in Files, AttachSync(f) PROVE Rest'
  <2>1. /\ pc[f] = "sync" /\ tpc' = tpc
        /\ pc'[f] = "attached"
        /\ \A g \in Files : g # f => pc'[g] = pc[g]
    BY <1>1, <1>6, Moved DEF AttachSync
  <2>2. /\ owner' = owner /\ h'.file = f
        /\ h'.suspend = h.suspend /\ h'.blocked = h.blocked
        /\ h'.timer = FALSE
        /\ tpc = "idle"
    BY <1>1, <1>6 DEF AttachSync, DelTimer, Types
  <2>3. ASSUME NEW g \in Files PROVE Place(g)'
    <3>1. /\ Place(f) /\ Place(g) /\ Apart(f, g) /\ Apart(g, f)
          /\ g # f => pc'[g] = pc[g]
      BY <1>1, <2>1 DEF Places, Alone
    <3> QED
      BY <1>2, <2>1, <2>2, <3>1 DEF Place, Apart, Attaching, Letting
  <2>4. ASSUME NEW a \in Files, NEW c \in Files PROVE Apart(a, c)'
    <3>1. /\ Apart(a, c) /\ Place(a) /\ Place(c) /\ Place(f)
          /\ a # f => pc'[a] = pc[a]
          /\ c # f => pc'[c] = pc[c]
      BY <1>1, <2>1 DEF Places, Alone
    <3> QED
      BY <1>2, <2>1, <2>2, <3>1 DEF Apart, Letting
  <2>5. Place(f)
    BY <1>1 DEF Places
  <2>6. TimerMeansNoTarget' /\ SyncNeverStuck'
    BY <1>1, <1>2, <2>1, <2>2, <2>5 DEF TimerMeansNoTarget, SyncNeverStuck,
       Place, Letting
  <2>7. Suspended'
    BY <1>1, <1>2, <2>1, <2>2, <2>5 DEF Suspended, Place
  <2>8. Blocked'
    BY <1>1, <1>2, <2>1, <2>2, <2>5 DEF Blocked, Place, Attaching, Letting
  <2>9. Stages'
    BY <1>1, <1>2, <2>1, <2>2, <2>5 DEF Stages, TimerMeansNoTarget, Place,
       Letting
  <2> QED
    BY <1>2, <2>3, <2>4, <2>6, <2>7, <2>8, <2>9 DEF Rest, Places, Alone
<1>7. ASSUME NEW f \in Files, AttachTest(f) PROVE Rest'
  <2>1. /\ pc[f] = "attached" /\ tpc' = tpc
        /\ pc'[f] = ResumeOrNot
        /\ \A g \in Files : g # f => pc'[g] = pc[g]
    BY <1>1, <1>7, Moved DEF AttachTest
  <2>2. /\ owner' = owner /\ h'.file = h.file
        /\ h'.suspend = h.suspend /\ h'.blocked = h.blocked
        /\ h'.timer = h.timer
    BY <1>1, <1>7 DEF AttachTest, Types
  <2>3. ASSUME NEW g \in Files PROVE Place(g)'
    <3>1. /\ Place(f) /\ Place(g) /\ Apart(f, g) /\ Apart(g, f)
          /\ g # f => pc'[g] = pc[g]
      BY <1>1, <2>1 DEF Places, Alone
    <3> QED
      BY <1>2, <2>1, <2>2, <3>1 DEF Place, Apart, Attaching, Letting,
         ResumeOrNot
  <2>4. ASSUME NEW a \in Files, NEW c \in Files PROVE Apart(a, c)'
    <3>1. /\ Apart(a, c) /\ Place(a) /\ Place(c) /\ Place(f)
          /\ a # f => pc'[a] = pc[a]
          /\ c # f => pc'[c] = pc[c]
      BY <1>1, <2>1 DEF Places, Alone
    <3> QED
      BY <1>2, <2>1, <2>2, <3>1 DEF Apart, Letting, ResumeOrNot
  <2>5. Place(f)
    BY <1>1 DEF Places
  <2>6. TimerMeansNoTarget' /\ SyncNeverStuck'
    BY <1>1, <1>2, <2>1, <2>2, <2>5 DEF TimerMeansNoTarget, SyncNeverStuck,
       Place, Letting, ResumeOrNot
  <2>7. Suspended'
    BY <1>1, <1>2, <2>1, <2>2, <2>5 DEF Suspended, Place, ResumeOrNot
  <2>8. Blocked'
    BY <1>1, <1>2, <2>1, <2>2, <2>5 DEF Blocked, Place, Attaching, Letting,
       ResumeOrNot
  <2>9. Stages'
    BY <1>1, <1>2, <2>1, <2>2, <2>5 DEF Stages, TimerMeansNoTarget, Place,
       Letting
  <2> QED
    BY <1>2, <2>3, <2>4, <2>6, <2>7, <2>8, <2>9 DEF Rest, Places, Alone
<1>8. ASSUME NEW f \in Files, AttachEnd(f) PROVE Rest'
  <2>1. /\ pc[f] = "guard off" /\ tpc' = tpc
        /\ pc'[f] = "idle"
        /\ \A g \in Files : g # f => pc'[g] = pc[g]
    BY <1>1, <1>8, Moved DEF AttachEnd
  <2>2. /\ owner' = owner \union {f} /\ h'.file = h.file
        /\ h'.suspend = h.suspend /\ h'.blocked = h.blocked
        /\ h'.timer = h.timer
    BY <1>1, <1>8 DEF AttachEnd, GuardOff, Types
  <2>3. ASSUME NEW g \in Files PROVE Place(g)'
    <3>1. /\ Place(f) /\ Place(g) /\ Apart(f, g) /\ Apart(g, f)
          /\ g # f => pc'[g] = pc[g]
      BY <1>1, <2>1 DEF Places, Alone
    <3> QED
      BY <1>2, <2>1, <2>2, <3>1 DEF Place, Apart, Attaching, Letting
  <2>4. ASSUME NEW a \in Files, NEW c \in Files PROVE Apart(a, c)'
    <3>1. /\ Apart(a, c) /\ Place(a) /\ Place(c) /\ Place(f)
          /\ a # f => pc'[a] = pc[a]
          /\ c # f => pc'[c] = pc[c]
      BY <1>1, <2>1 DEF Places, Alone
    <3> QED
      BY <1>2, <2>1, <2>2, <3>1 DEF Apart, Letting
  <2>5. Place(f)
    BY <1>1 DEF Places
  <2>6. TimerMeansNoTarget' /\ SyncNeverStuck'
    BY <1>1, <1>2, <2>1, <2>2, <2>5 DEF TimerMeansNoTarget, SyncNeverStuck,
       Place, Letting
  <2>7. Suspended'
    BY <1>1, <1>2, <2>1, <2>2, <2>5 DEF Suspended, Place
  <2>8. Blocked'
    BY <1>1, <1>2, <2>1, <2>2, <2>5 DEF Blocked, Place, Attaching, Letting
  <2>9. Stages'
    BY <1>1, <1>2, <2>1, <2>2, <2>5 DEF Stages, TimerMeansNoTarget, Place,
       Letting
  <2> QED
    BY <1>2, <2>3, <2>4, <2>6, <2>7, <2>8, <2>9 DEF Rest, Places, Alone
<1>9. ASSUME NEW f \in Files, SuspendBegin(f) PROVE Rest'
  <2>1. /\ pc[f] = "idle" /\ tpc' = tpc
        /\ pc'[f] = "suspend"
        /\ \A g \in Files : g # f => pc'[g] = pc[g]
    BY <1>1, <1>9, Moved DEF SuspendBegin
  <2>2. /\ owner' = owner /\ h'.file = h.file
        /\ h'.suspend = h.suspend /\ h'.blocked = TRUE
        /\ h'.timer = h.timer
        /\ f \in owner
    BY <1>1, <1>9 DEF SuspendBegin, Types
  <2>3. ASSUME NEW g \in Files PROVE Place(g)'
    <3>1. /\ Place(f) /\ Place(g) /\ Apart(f, g) /\ Apart(g, f)
          /\ g # f => pc'[g] = pc[g]
      BY <1>1, <2>1 DEF Places, Alone
    <3> QED
      BY <1>2, <2>1, <2>2, <3>1 DEF Place, Apart, Attaching, Letting
  <2>4. ASSUME NEW a \in Files, NEW c \in Files PROVE Apart(a, c)'
    <3>1. /\ Apart(a, c) /\ Place(a) /\ Place(c) /\ Place(f)
          /\ a # f => pc'[a] = pc[a]
          /\ c # f => pc'[c] = pc[c]
      BY <1>1, <2>1 DEF Places, Alone
    <3> QED
      BY <1>2, <2>1, <2>2, <3>1 DEF Apart, Letting
  <2>5. Place(f)
    BY <1>1 DEF Places
  <2>6. TimerMeansNoTarget' /\ SyncNeverStuck'
    BY <1>1, <1>2, <2>1, <2>2, <2>5 DEF TimerMeansNoTarget, SyncNeverStuck,
       Place, Letting
  <2>7. Suspended'
    BY <1>1, <1>2, <2>1, <2>2, <2>5 DEF Suspended, Place
  <2>8. Blocked'
    BY <1>1, <1>2, <2>1, <2>2, <2>5 DEF Blocked, Place, Attaching, Letting
  <2>9. Stages'
    BY <1>1, <1>2, <2>1, <2>2, <2>5 DEF Stages, TimerMeansNoTarget, Place,
       Letting
  <2> QED
    BY <1>2, <2>3, <2>4, <2>6, <2>7, <2>8, <2>9 DEF Rest, Places, Alone
<1>10. ASSUME NEW f \in Files, SuspendEnd(f) PROVE Rest'
  <2>1. /\ pc[f] = "suspend" /\ tpc' = tpc
        /\ pc'[f] = "idle"
        /\ \A g \in Files : g # f => pc'[g] = pc[g]
    BY <1>1, <1>10, Moved DEF SuspendEnd
  <2>2. /\ owner' = owner /\ h'.file = h.file
        /\ h'.suspend = TRUE /\ h'.blocked = h.blocked
        /\ h'.timer = h.timer
    BY <1>1, <1>10 DEF SuspendEnd, Types
  <2>3. ASSUME NEW g \in Files PROVE Place(g)'
    <3>1. /\ Place(f) /\ Place(g) /\ Apart(f, g) /\ Apart(g, f)
          /\ g # f => pc'[g] = pc[g]
      BY <1>1, <2>1 DEF Places, Alone
    <3> QED
      BY <1>2, <2>1, <2>2, <3>1 DEF Place, Apart, Attaching, Letting
  <2>4. ASSUME NEW a \in Files, NEW c \in Files PROVE Apart(a, c)'
    <3>1. /\ Apart(a, c) /\ Place(a) /\ Place(c) /\ Place(f)
          /\ a # f => pc'[a] = pc[a]
          /\ c # f => pc'[c] = pc[c]
      BY <1>1, <2>1 DEF Places, Alone
    <3> QED
      BY <1>2, <2>1, <2>2, <3>1 DEF Apart, Letting
  <2>5. Place(f)
    BY <1>1 DEF Places
  <2>6. TimerMeansNoTarget' /\ SyncNeverStuck'
    BY <1>1, <1>2, <2>1, <2>2, <2>5 DEF TimerMeansNoTarget, SyncNeverStuck,
       Place, Letting
  <2>7. Suspended'
    BY <1>1, <1>2, <2>1, <2>2, <2>5 DEF Suspended, Place
  <2>8. Blocked'
    BY <1>1, <1>2, <2>1, <2>2, <2>5 DEF Blocked, Place, Attaching, Letting
  <2>9. Stages'
    BY <1>1, <1>2, <2>1, <2>2, <2>5 DEF Stages, TimerMeansNoTarget, Place,
       Letting
  <2> QED
    BY <1>2, <2>3, <2>4, <2>6, <2>7, <2>8, <2>9 DEF Rest, Places, Alone
<1>11. ASSUME NEW f \in Files, ResumeBegin(f) PROVE Rest'
  <2>1. /\ pc[f] = "idle" /\ tpc' = tpc
        /\ pc'[f] = "unblock"
        /\ \A g \in Files : g # f => pc'[g] = pc[g]
    BY <1>1, <1>11, Moved DEF ResumeBegin
  <2>2. /\ owner' = owner /\ h'.file = h.file
        /\ h'.suspend = h.suspend /\ h'.blocked = h.blocked
        /\ h'.timer = h.timer
        /\ f \in owner
    BY <1>1, <1>11 DEF ResumeBegin, Types
  <2>3. ASSUME NEW g \in Files PROVE Place(g)'
    <3>1. /\ Place(f) /\ Place(g) /\ Apart(f, g) /\ Apart(g, f)
          /\ g # f => pc'[g] = pc[g]
      BY <1>1, <2>1 DEF Places, Alone
    <3> QED
      BY <1>2, <2>1, <2>2, <3>1 DEF Place, Apart, Attaching, Letting
  <2>4. ASSUME NEW a \in Files, NEW c \in Files PROVE Apart(a, c)'
    <3>1. /\ Apart(a, c) /\ Place(a) /\ Place(c) /\ Place(f)
          /\ a # f => pc'[a] = pc[a]
          /\ c # f => pc'[c] = pc[c]
      BY <1>1, <2>1 DEF Places, Alone
    <3> QED
      BY <1>2, <2>1, <2>2, <3>1 DEF Apart, Letting
  <2>5. Place(f)
    BY <1>1 DEF Places
  <2>6. TimerMeansNoTarget' /\ SyncNeverStuck'
    BY <1>1, <1>2, <2>1, <2>2, <2>5 DEF TimerMeansNoTarget, SyncNeverStuck,
       Place, Letting
  <2>7. Suspended'
    BY <1>1, <1>2, <2>1, <2>2, <2>5 DEF Suspended, Place
  <2>8. Blocked'
    BY <1>1, <1>2, <2>1, <2>2, <2>5 DEF Blocked, Place, Attaching, Letting
  <2>9. Stages'
    BY <1>1, <1>2, <2>1, <2>2, <2>5 DEF Stages, TimerMeansNoTarget, Place,
       Letting
  <2> QED
    BY <1>2, <2>3, <2>4, <2>6, <2>7, <2>8, <2>9 DEF Rest, Places, Alone
<1>12. ASSUME NEW f \in Files, ResumeUnblock(f) PROVE Rest'
  <2>1. /\ pc[f] = "unblock" /\ tpc' = tpc
        /\ pc'[f] = "resume"
        /\ \A g \in Files : g # f => pc'[g] = pc[g]
    BY <1>1, <1>12, Moved DEF ResumeUnblock
  <2>2. /\ owner' = owner /\ h'.file = h.file
        /\ h'.suspend = h.suspend /\ h'.blocked = FALSE
        /\ h'.timer = h.timer
    BY <1>1, <1>12 DEF ResumeUnblock, Types
  <2>3. ASSUME NEW g \in Files PROVE Place(g)'
    <3>1. /\ Place(f) /\ Place(g) /\ Apart(f, g) /\ Apart(g, f)
          /\ g # f => pc'[g] = pc[g]
      BY <1>1, <2>1 DEF Places, Alone
    <3> QED
      BY <1>2, <2>1, <2>2, <3>1 DEF Place, Apart, Attaching, Letting
  <2>4. ASSUME NEW a \in Files, NEW c \in Files PROVE Apart(a, c)'
    <3>1. /\ Apart(a, c) /\ Place(a) /\ Place(c) /\ Place(f)
          /\ a # f => pc'[a] = pc[a]
          /\ c # f => pc'[c] = pc[c]
      BY <1>1, <2>1 DEF Places, Alone
    <3> QED
      BY <1>2, <2>1, <2>2, <3>1 DEF Apart, Letting
  <2>5. Place(f)
    BY <1>1 DEF Places
  <2>6. TimerMeansNoTarget' /\ SyncNeverStuck'
    BY <1>1, <1>2, <2>1, <2>2, <2>5 DEF TimerMeansNoTarget, SyncNeverStuck,
       Place, Letting
  <2>7. Suspended'
    BY <1>1, <1>2, <2>1, <2>2, <2>5 DEF Suspended, Place
  <2>8. Blocked'
    BY <1>1, <1>2, <2>1, <2>2, <2>5 DEF Blocked, Place, Attaching, Letting
  <2>9. Stages'
    BY <1>1, <1>2, <2>1, <2>2, <2>5 DEF Stages, TimerMeansNoTarget, Place,
       Letting
  <2> QED
    BY <1>2, <2>3, <2>4, <2>6, <2>7, <2>8, <2>9 DEF Rest, Places, Alone
<1>13. ASSUME NEW f \in Files, ResumeEnd(f) PROVE Rest'
  <2>1. /\ pc[f] = "resume" /\ tpc' = tpc
        /\ pc'[f] = (IF f \in owner THEN "idle" ELSE "guard off")
        /\ \A g \in Files : g # f => pc'[g] = pc[g]
    BY <1>1, <1>13, Moved DEF ResumeEnd
  <2>2. /\ owner' = owner /\ h'.file = h.file
        /\ h'.suspend = FALSE /\ h'.blocked = h.blocked
        /\ h'.timer = h.timer
    BY <1>1, <1>13 DEF ResumeEnd, Types
  <2>3. ASSUME NEW g \in Files PROVE Place(g)'
    <3>1. /\ Place(f) /\ Place(g) /\ Apart(f, g) /\ Apart(g, f)
          /\ g # f => pc'[g] = pc[g]
      BY <1>1, <2>1 DEF Places, Alone
    <3> QED
      BY <1>2, <2>1, <2>2, <3>1 DEF Place, Apart, Attaching, Letting
  <2>4. ASSUME NEW a \in Files, NEW c \in Files PROVE Apart(a, c)'
    <3>1. /\ Apart(a, c) /\ Place(a) /\ Place(c) /\ Place(f)
          /\ a # f => pc'[a] = pc[a]
          /\ c # f => pc'[c] = pc[c]
      BY <1>1, <2>1 DEF Places, Alone
    <3> QED
      BY <1>2, <2>1, <2>2, <3>1 DEF Apart, Letting
  <2>5. Place(f)
    BY <1>1 DEF Places
  <2>6. TimerMeansNoTarget' /\ SyncNeverStuck'
    BY <1>1, <1>2, <2>1, <2>2, <2>5 DEF TimerMeansNoTarget, SyncNeverStuck,
       Place, Letting
  <2>7. Suspended'
    BY <1>1, <1>2, <2>1, <2>2, <2>5 DEF Suspended, Place
  <2>8. Blocked'
    BY <1>1, <1>2, <2>1, <2>2, <2>5 DEF Blocked, Place, Attaching, Letting
  <2>9. Stages'
    BY <1>1, <1>2, <2>1, <2>2, <2>5 DEF Stages, TimerMeansNoTarget, Place,
       Letting
  <2> QED
    BY <1>2, <2>3, <2>4, <2>6, <2>7, <2>8, <2>9 DEF Rest, Places, Alone
<1>14. ASSUME NEW f \in Files, NEW b \in BOOLEAN, DetachBegin(f, b) PROVE Rest'
  <2>1. /\ pc[f] = "idle" /\ tpc' = tpc
        /\ pc'[f] = (IF h.file = NoFile THEN "idle" ELSE "block")
        /\ \A g \in Files : g # f => pc'[g] = pc[g]
    BY <1>1, <1>14, Moved DEF DetachBegin
  <2>2. /\ owner' = owner \ {f} /\ h'.file = NoFile
        /\ h'.suspend = h.suspend /\ h'.blocked = h.blocked
        /\ h'.timer = h.timer
        /\ f \in owner
        /\ ~ Locked
    BY <1>1, <1>14 DEF DetachBegin, Types
  <2>3. ASSUME NEW g \in Files PROVE Place(g)'
    <3>1. /\ Place(f) /\ Place(g) /\ Apart(f, g) /\ Apart(g, f)
          /\ g # f => pc'[g] = pc[g]
      BY <1>1, <2>1 DEF Places, Alone
    <3>2. CASE g = f
      BY <1>1, <1>2, <2>1, <2>2, <3>1, <3>2 DEF Place, Attaching, Letting,
         TimerMeansNoTarget
    <3>3. CASE g # f
      BY <1>1, <1>2, <2>1, <2>2, <3>1, <3>3 DEF Place, Attaching, Letting,
         TimerMeansNoTarget
    <3> QED
      BY <3>2, <3>3
  <2>4. ASSUME NEW a \in Files, NEW c \in Files PROVE Apart(a, c)'
    <3>1. /\ Apart(a, c) /\ Place(a) /\ Place(c) /\ Place(f)
          /\ a # f => pc'[a] = pc[a]
          /\ c # f => pc'[c] = pc[c]
      BY <1>1, <2>1 DEF Places, Alone
    <3> QED
      BY <1>2, <2>1, <2>2, <3>1 DEF Apart, Letting, Place, Locked
  <2>5. Place(f)
    BY <1>1 DEF Places
  <2>6. TimerMeansNoTarget' /\ SyncNeverStuck'
    BY <1>1, <1>2, <2>1, <2>2, <2>5 DEF TimerMeansNoTarget, SyncNeverStuck,
       Place, Letting, Locked
  <2>7. Suspended'
    BY <1>1, <1>2, <2>1, <2>2, <2>5 DEF Suspended, Place
  <2>8. Blocked'
    BY <1>1, <1>2, <2>1, <2>2, <2>5 DEF Blocked, Place, Attaching, Letting
  <2>9. Stages'
    BY <1>1, <1>2, <2>1, <2>2, <2>5 DEF Stages, TimerMeansNoTarget, Place,
       Letting
  <2> QED
    BY <1>2, <2>3, <2>4, <2>6, <2>7, <2>8, <2>9 DEF Rest, Places, Alone
<1>15. ASSUME NEW f \in Files, DetachBlock(f) PROVE Rest'
  <2>1. /\ pc[f] = "block" /\ tpc' = tpc
        /\ pc'[f] = "requeue"
        /\ \A g \in Files : g # f => pc'[g] = pc[g]
    BY <1>1, <1>15, Moved DEF DetachBlock
  <2>2. /\ owner' = owner /\ h'.file = h.file
        /\ h'.suspend = h.suspend /\ h'.blocked = TRUE
        /\ h'.timer = h.timer
    BY <1>1, <1>15 DEF DetachBlock, Types
  <2>3. ASSUME NEW g \in Files PROVE Place(g)'
    <3>1. /\ Place(f) /\ Place(g) /\ Apart(f, g) /\ Apart(g, f)
          /\ g # f => pc'[g] = pc[g]
      BY <1>1, <2>1 DEF Places, Alone
    <3> QED
      BY <1>2, <2>1, <2>2, <3>1 DEF Place, Apart, Attaching, Letting
  <2>4. ASSUME NEW a \in Files, NEW c \in Files PROVE Apart(a, c)'
    <3>1. /\ Apart(a, c) /\ Place(a) /\ Place(c) /\ Place(f)
          /\ a # f => pc'[a] = pc[a]
          /\ c # f => pc'[c] = pc[c]
      BY <1>1, <2>1 DEF Places, Alone
    <3> QED
      BY <1>2, <2>1, <2>2, <3>1 DEF Apart, Letting
  <2>5. Place(f)
    BY <1>1 DEF Places
  <2>6. TimerMeansNoTarget' /\ SyncNeverStuck'
    BY <1>1, <1>2, <2>1, <2>2, <2>5 DEF TimerMeansNoTarget, SyncNeverStuck,
       Place, Letting
  <2>7. Suspended'
    BY <1>1, <1>2, <2>1, <2>2, <2>5 DEF Suspended, Place
  <2>8. Blocked'
    BY <1>1, <1>2, <2>1, <2>2, <2>5 DEF Blocked, Place, Attaching, Letting
  <2>9. Stages'
    BY <1>1, <1>2, <2>1, <2>2, <2>5 DEF Stages, TimerMeansNoTarget, Place,
       Letting
  <2> QED
    BY <1>2, <2>3, <2>4, <2>6, <2>7, <2>8, <2>9 DEF Rest, Places, Alone
<1>16. ASSUME NEW f \in Files, DetachRequeue(f) PROVE Rest'
  <2>1. /\ pc[f] = "requeue" /\ tpc' = tpc
        /\ pc'[f] = (IF f \in closing THEN "mark suspend" ELSE "idle")
        /\ \A g \in Files : g # f => pc'[g] = pc[g]
    BY <1>1, <1>16, Moved DEF DetachRequeue
  <2>2. /\ owner' = owner /\ h'.file = h.file
        /\ h'.suspend = h.suspend /\ h'.blocked = h.blocked
        /\ h'.timer = h.timer
        /\ ~ Locked
    BY <1>1, <1>16 DEF DetachRequeue, Types
  <2>3. ASSUME NEW g \in Files PROVE Place(g)'
    <3>1. /\ Place(f) /\ Place(g) /\ Apart(f, g) /\ Apart(g, f)
          /\ g # f => pc'[g] = pc[g]
      BY <1>1, <2>1 DEF Places, Alone
    <3> QED
      BY <1>2, <2>1, <2>2, <3>1 DEF Place, Apart, Attaching, Letting
  <2>4. ASSUME NEW a \in Files, NEW c \in Files PROVE Apart(a, c)'
    <3>1. /\ Apart(a, c) /\ Place(a) /\ Place(c) /\ Place(f)
          /\ a # f => pc'[a] = pc[a]
          /\ c # f => pc'[c] = pc[c]
      BY <1>1, <2>1 DEF Places, Alone
    <3> QED
      BY <1>2, <2>1, <2>2, <3>1 DEF Apart, Letting, Locked
  <2>5. Place(f)
    BY <1>1 DEF Places
  <2>6. TimerMeansNoTarget' /\ SyncNeverStuck'
    BY <1>1, <1>2, <2>1, <2>2, <2>5 DEF TimerMeansNoTarget, SyncNeverStuck,
       Place, Letting, Locked
  <2>7. Suspended'
    BY <1>1, <1>2, <2>1, <2>2, <2>5 DEF Suspended, Place
  <2>8. Blocked'
    BY <1>1, <1>2, <2>1, <2>2, <2>5 DEF Blocked, Place, Attaching, Letting
  <2>9. Stages'
    BY <1>1, <1>2, <2>1, <2>2, <2>5 DEF Stages, TimerMeansNoTarget, Place,
       Letting
  <2> QED
    BY <1>2, <2>3, <2>4, <2>6, <2>7, <2>8, <2>9 DEF Rest, Places, Alone
<1>17. ASSUME NEW f \in Files, DetachMark(f) PROVE Rest'
  <2>1. /\ pc[f] = "mark suspend" /\ tpc' = tpc
        /\ pc'[f] = "start timer"
        /\ \A g \in Files : g # f => pc'[g] = pc[g]
    BY <1>1, <1>17, Moved DEF DetachMark
  <2>2. /\ owner' = owner /\ h'.file = h.file
        /\ h'.suspend = TRUE /\ h'.blocked = h.blocked
        /\ h'.timer = h.timer
    BY <1>1, <1>17 DEF DetachMark, Types
  <2>3. ASSUME NEW g \in Files PROVE Place(g)'
    <3>1. /\ Place(f) /\ Place(g) /\ Apart(f, g) /\ Apart(g, f)
          /\ g # f => pc'[g] = pc[g]
      BY <1>1, <2>1 DEF Places, Alone
    <3> QED
      BY <1>2, <2>1, <2>2, <3>1 DEF Place, Apart, Attaching, Letting
  <2>4. ASSUME NEW a \in Files, NEW c \in Files PROVE Apart(a, c)'
    <3>1. /\ Apart(a, c) /\ Place(a) /\ Place(c) /\ Place(f)
          /\ a # f => pc'[a] = pc[a]
          /\ c # f => pc'[c] = pc[c]
      BY <1>1, <2>1 DEF Places, Alone
    <3> QED
      BY <1>2, <2>1, <2>2, <3>1 DEF Apart, Letting
  <2>5. Place(f)
    BY <1>1 DEF Places
  <2>6. TimerMeansNoTarget' /\ SyncNeverStuck'
    BY <1>1, <1>2, <2>1, <2>2, <2>5 DEF TimerMeansNoTarget, SyncNeverStuck,
       Place, Letting
  <2>7. Suspended'
    BY <1>1, <1>2, <2>1, <2>2, <2>5 DEF Suspended, Place
  <2>8. Blocked'
    BY <1>1, <1>2, <2>1, <2>2, <2>5 DEF Blocked, Place, Attaching, Letting
  <2>9. Stages'
    BY <1>1, <1>2, <2>1, <2>2, <2>5 DEF Stages, TimerMeansNoTarget, Place,
       Letting
  <2> QED
    BY <1>2, <2>3, <2>4, <2>6, <2>7, <2>8, <2>9 DEF Rest, Places, Alone
<1>18. ASSUME NEW f \in Files, DetachTimer(f) PROVE Rest'
  <2>1. /\ pc[f] = "start timer" /\ tpc' = tpc
        /\ pc'[f] = "idle"
        /\ \A g \in Files : g # f => pc'[g] = pc[g]
    BY <1>1, <1>18, Moved DEF DetachTimer
  <2>2. /\ owner' = owner /\ h'.file = h.file
        /\ h'.suspend = h.suspend /\ h'.blocked = h.blocked
        /\ h'.timer = (h.timer \/ h.timed)
    BY <1>1, <1>18 DEF DetachTimer, Types
  <2>3. ASSUME NEW g \in Files PROVE Place(g)'
    <3>1. /\ Place(f) /\ Place(g) /\ Apart(f, g) /\ Apart(g, f)
          /\ g # f => pc'[g] = pc[g]
      BY <1>1, <2>1 DEF Places, Alone
    <3> QED
      BY <1>2, <2>1, <2>2, <3>1 DEF Place, Apart, Attaching, Letting
  <2>4. ASSUME NEW a \in Files, NEW c \in Files PROVE Apart(a, c)'
    <3>1. /\ Apart(a, c) /\ Place(a) /\ Place(c) /\ Place(f)
          /\ a # f => pc'[a] = pc[a]
          /\ c # f => pc'[c] = pc[c]
      BY <1>1, <2>1 DEF Places, Alone
    <3> QED
      BY <1>2, <2>1, <2>2, <3>1 DEF Apart, Letting
  <2>5. Place(f)
    BY <1>1 DEF Places
  <2>6. TimerMeansNoTarget' /\ SyncNeverStuck'
    BY <1>1, <1>2, <2>1, <2>2, <2>5 DEF TimerMeansNoTarget, SyncNeverStuck,
       Place, Letting
  <2>7. Suspended'
    BY <1>1, <1>2, <2>1, <2>2, <2>5 DEF Suspended, Place
  <2>8. Blocked'
    BY <1>1, <1>2, <2>1, <2>2, <2>5 DEF Blocked, Place, Attaching, Letting
  <2>9. Stages'
    BY <1>1, <1>2, <2>1, <2>2, <2>5 DEF Stages, TimerMeansNoTarget, Place,
       Letting
  <2> QED
    BY <1>2, <2>3, <2>4, <2>6, <2>7, <2>8, <2>9 DEF Rest, Places, Alone
<1>19. ASSUME TimerExpires PROVE Rest'
  <2>1. /\ tpc = "idle" /\ tpc' = "fired"
        /\ UNCHANGED <<pc, owner, closing>>
        /\ h'.file = h.file /\ h'.suspend = h.suspend
        /\ h'.blocked = h.blocked /\ h'.timer = FALSE
        /\ h.timer
    BY <1>1, <1>19 DEF TimerExpires, Fired, Types
  <2>2. Places' /\ Alone'
    BY <1>1, <1>2, <2>1 DEF Places, Place, Alone, Apart, TimerMeansNoTarget,
       Attaching, Letting
  <2>3. TimerMeansNoTarget' /\ SyncNeverStuck'
    BY <1>1, <1>2, <2>1 DEF TimerMeansNoTarget, SyncNeverStuck
  <2>4. Suspended' /\ Stages'
    BY <1>1, <1>2, <2>1 DEF Suspended, Stages, Places, Place
  <2>5. Blocked'
    BY <1>1, <1>2, <2>1 DEF Blocked, TimerMeansNoTarget
  <2> QED
    BY <1>2, <2>2, <2>3, <2>4, <2>5 DEF Rest
<1>20. ASSUME CallbackBegin PROVE Rest'
  <2>1. /\ tpc = "fired" /\ tpc' = (IF h.abn > 0 THEN "leave" ELSE "unblock")
        /\ UNCHANGED <<pc, owner, closing>>
        /\ h'.file = h.file /\ h'.suspend = h.suspend
        /\ h'.blocked = h.blocked /\ h'.timer = h.timer
    BY <1>1, <1>20 DEF CallbackBegin, Fired, GuardOn, Types
  <2>2. Places' /\ Alone'
    BY <1>1, <1>2, <1>3, <2>1 DEF Places, Place, Alone, Apart,
       TimerMeansNoTarget, Attaching, Letting, Guards
  <2>3. TimerMeansNoTarget' /\ SyncNeverStuck'
    BY <1>1, <1>2, <1>3, <2>1 DEF TimerMeansNoTarget, SyncNeverStuck, Guards
  <2>4. Suspended' /\ Stages'
    BY <1>1, <1>2, <1>3, <2>1 DEF Suspended, Stages, Places, Place, Guards
  <2>5. Blocked'
    BY <1>1, <1>2, <1>3, <2>1 DEF Blocked, TimerMeansNoTarget, Guards
  <2> QED
    BY <1>2, <2>2, <2>3, <2>4, <2>5 DEF Rest
<1>21. ASSUME CallbackUnblock PROVE Rest'
  <2>1. /\ tpc = "unblock" /\ tpc' = "resume"
        /\ UNCHANGED <<pc, owner, closing>>
        /\ h'.file = h.file /\ h'.suspend = h.suspend
        /\ h'.blocked = FALSE /\ h'.timer = h.timer
    BY <1>1, <1>21 DEF CallbackUnblock, Fired, Types
  <2>2. Places' /\ Alone'
    BY <1>1, <1>2, <2>1 DEF Places, Place, Alone, Apart, TimerMeansNoTarget,
       Attaching, Letting
  <2>3. TimerMeansNoTarget' /\ SyncNeverStuck'
    BY <1>1, <1>2, <2>1 DEF TimerMeansNoTarget, SyncNeverStuck
  <2>4. Suspended' /\ Stages'
    BY <1>1, <1>2, <2>1 DEF Suspended, Stages, Places, Place
  <2>5. Blocked'
    BY <1>1, <1>2, <2>1 DEF Blocked, TimerMeansNoTarget
  <2> QED
    BY <1>2, <2>2, <2>3, <2>4, <2>5 DEF Rest
<1>22. ASSUME CallbackResume PROVE Rest'
  <2>1. /\ tpc = "resume" /\ tpc' = "abort"
        /\ UNCHANGED <<pc, owner, closing>>
        /\ h'.file = h.file /\ h'.suspend = FALSE
        /\ h'.blocked = h.blocked /\ h'.timer = h.timer
    BY <1>1, <1>22 DEF CallbackResume, Fired, Types
  <2>2. Places' /\ Alone'
    BY <1>1, <1>2, <2>1 DEF Places, Place, Alone, Apart, TimerMeansNoTarget,
       Attaching, Letting
  <2>3. TimerMeansNoTarget' /\ SyncNeverStuck'
    BY <1>1, <1>2, <2>1 DEF TimerMeansNoTarget, SyncNeverStuck
  <2>4. Suspended' /\ Stages'
    BY <1>1, <1>2, <2>1 DEF Suspended, Stages, Places, Place
  <2>5. Blocked'
    BY <1>1, <1>2, <2>1 DEF Blocked, TimerMeansNoTarget
  <2> QED
    BY <1>2, <2>2, <2>3, <2>4, <2>5 DEF Rest
<1>23. ASSUME CallbackAbort PROVE Rest'
  <2>1. /\ tpc = "abort" /\ tpc' = "offline"
        /\ UNCHANGED <<pc, owner, closing>>
        /\ h'.file = h.file /\ h'.suspend = h.suspend
        /\ h'.blocked = h.blocked /\ h'.timer = h.timer
        /\ ~ Locked
    BY <1>1, <1>23 DEF CallbackAbort, Fired, Types
  <2>2. Places' /\ Alone'
    BY <1>1, <1>2, <2>1 DEF Places, Place, Alone, Apart, TimerMeansNoTarget,
       Attaching, Letting
  <2>3. TimerMeansNoTarget' /\ SyncNeverStuck'
    BY <1>1, <1>2, <2>1 DEF TimerMeansNoTarget, SyncNeverStuck, Locked
  <2>4. Suspended' /\ Stages'
    BY <1>1, <1>2, <2>1 DEF Suspended, Stages, Places, Place
  <2>5. Blocked'
    BY <1>1, <1>2, <2>1 DEF Blocked, TimerMeansNoTarget
  <2> QED
    BY <1>2, <2>2, <2>3, <2>4, <2>5 DEF Rest
<1>24. ASSUME CallbackOffline PROVE Rest'
  <2>1. /\ tpc = "offline" /\ tpc' = "leave"
        /\ UNCHANGED <<pc, owner, closing>>
        /\ h'.file = h.file /\ h'.suspend = h.suspend
        /\ h'.blocked = h.blocked /\ h'.timer = h.timer
    BY <1>1, <1>24 DEF CallbackOffline, Fired, Types
  <2>2. Places' /\ Alone'
    BY <1>1, <1>2, <2>1 DEF Places, Place, Alone, Apart, TimerMeansNoTarget,
       Attaching, Letting
  <2>3. TimerMeansNoTarget' /\ SyncNeverStuck'
    BY <1>1, <1>2, <2>1 DEF TimerMeansNoTarget, SyncNeverStuck
  <2>4. Suspended' /\ Stages'
    BY <1>1, <1>2, <2>1 DEF Suspended, Stages, Places, Place
  <2>5. Blocked'
    BY <1>1, <1>2, <2>1 DEF Blocked, TimerMeansNoTarget
  <2> QED
    BY <1>2, <2>2, <2>3, <2>4, <2>5 DEF Rest
<1>25. ASSUME CallbackEnd PROVE Rest'
  <2>1. /\ tpc = "leave" /\ tpc' = "idle"
        /\ UNCHANGED <<pc, owner, closing>>
        /\ h'.file = h.file /\ h'.suspend = h.suspend
        /\ h'.blocked = h.blocked /\ h'.timer = h.timer
    BY <1>1, <1>25 DEF CallbackEnd, Fired, GuardOff, Types
  <2>2. Places' /\ Alone'
    BY <1>1, <1>2, <2>1 DEF Places, Place, Alone, Apart, TimerMeansNoTarget,
       Attaching, Letting
  <2>3. TimerMeansNoTarget' /\ SyncNeverStuck'
    BY <1>1, <1>2, <2>1 DEF TimerMeansNoTarget, SyncNeverStuck
  <2>4. Suspended' /\ Stages'
    BY <1>1, <1>2, <2>1 DEF Suspended, Stages, Places, Place
  <2>5. Blocked'
    BY <1>1, <1>2, <2>1 DEF Blocked, TimerMeansNoTarget
  <2> QED
    BY <1>2, <2>2, <2>3, <2>4, <2>5 DEF Rest
<1>26. CASE SetTimeout \/ Online \/ UNCHANGED vars
  <2>1. /\ UNCHANGED <<pc, tpc, owner, closing>>
        /\ h'.file = h.file /\ h'.suspend = h.suspend
        /\ h'.blocked = h.blocked /\ h'.timer = h.timer
    BY <1>1, <1>26 DEF SetTimeout, Online, vars, Types
  <2> QED
    BY <1>1, <1>2, <2>1 DEF Rest, Places, Place, Alone, Apart, Attaching,
       Letting, TimerMeansNoTarget, SyncNeverStuck, Suspended, Blocked, Stages
<1> QED
  BY <1>4, <1>5, <1>6, <1>7, <1>8, <1>9, <1>10, <1>11, <1>12, <1>13, <1>14,
     <1>15, <1>16, <1>17, <1>18, <1>19, <1>20, <1>21, <1>22, <1>23, <1>24,
     <1>25, <1>26 DEF Next, Attach, SuspendResume, Detach, Callback

\* target_abnormal_lock counts who is between its increment and its decrement.
LEMMA CountStep ==
    ASSUME IInv, [Next]_vars
    PROVE  CountKept
<1>1. Types /\ Places /\ Types'
  BY TypesStep DEF IInv, Rest
<1>2. Share(tpc) \in {0, 1}
  BY DEF Share
<1>3. ASSUME NEW f \in Files, AttachBegin(f) PROVE CountKept
  <2>1. /\ pc[f] = "idle" /\ tpc' = tpc
        /\ pc'[f] = Gate
        /\ \A g \in Files : g # f => pc'[g] = pc[g]
    BY <1>1, <1>3, Moved DEF AttachBegin
  <2>2. owner' = owner /\ h'.abn = h.abn + 1 /\ h.abn \in Nat
    BY <1>1, <1>3 DEF AttachBegin, GuardOn, Types
  <2>3. Place(f)
    BY <1>1 DEF Places
  <2>4. f \notin Guards /\ Guards' = Guards \union {f}
    BY <2>1, <2>2, <2>3 DEF Guards, Place, Gate
  <2>5. Share(tpc') = Share(tpc)
    BY <2>1
  <2> QED
    BY <1>2, <2>2, <2>4, <2>5 DEF CountKept
<1>4. ASSUME NEW f \in Files, AttachRetreat(f) PROVE CountKept
  <2>1. /\ pc[f] = "retreat" /\ tpc' = tpc
        /\ pc'[f] = "idle"
        /\ \A g \in Files : g # f => pc'[g] = pc[g]
    BY <1>1, <1>4, Moved DEF AttachRetreat
  <2>2. owner' = owner /\ h'.abn = h.abn - 1 /\ h.abn \in Nat
    BY <1>1, <1>4 DEF AttachRetreat, GuardOff, Types
  <2>3. Place(f)
    BY <1>1 DEF Places
  <2>4. f \in Guards /\ Guards' = Guards \ {f}
    BY <2>1, <2>2, <2>3 DEF Guards, Place
  <2>5. Share(tpc') = Share(tpc)
    BY <2>1
  <2> QED
    BY <1>2, <2>2, <2>4, <2>5 DEF CountKept
<1>5. ASSUME NEW f \in Files, AttachSync(f) PROVE CountKept
  <2>1. /\ pc[f] = "sync" /\ tpc' = tpc
        /\ pc'[f] = "attached"
        /\ \A g \in Files : g # f => pc'[g] = pc[g]
    BY <1>1, <1>5, Moved DEF AttachSync
  <2>2. owner' = owner /\ h'.abn = h.abn /\ h.abn \in Nat
    BY <1>1, <1>5 DEF AttachSync, DelTimer, Types
  <2>3. Place(f)
    BY <1>1 DEF Places
  <2>4. Guards' = Guards
    BY <2>1, <2>2, <2>3 DEF Guards, Place
  <2>5. Share(tpc') = Share(tpc)
    BY <2>1
  <2> QED
    BY <1>2, <2>2, <2>4, <2>5 DEF CountKept
<1>6. ASSUME NEW f \in Files, AttachTest(f) PROVE CountKept
  <2>1. /\ pc[f] = "attached" /\ tpc' = tpc
        /\ pc'[f] = ResumeOrNot
        /\ \A g \in Files : g # f => pc'[g] = pc[g]
    BY <1>1, <1>6, Moved DEF AttachTest
  <2>2. owner' = owner /\ h'.abn = h.abn /\ h.abn \in Nat
    BY <1>1, <1>6 DEF AttachTest, Types
  <2>3. Place(f)
    BY <1>1 DEF Places
  <2>4. Guards' = Guards
    BY <2>1, <2>2, <2>3 DEF Guards, Place, ResumeOrNot
  <2>5. Share(tpc') = Share(tpc)
    BY <2>1
  <2> QED
    BY <1>2, <2>2, <2>4, <2>5 DEF CountKept
<1>7. ASSUME NEW f \in Files, AttachEnd(f) PROVE CountKept
  <2>1. /\ pc[f] = "guard off" /\ tpc' = tpc
        /\ pc'[f] = "idle"
        /\ \A g \in Files : g # f => pc'[g] = pc[g]
    BY <1>1, <1>7, Moved DEF AttachEnd
  <2>2. owner' = owner \union {f} /\ h'.abn = h.abn - 1 /\ h.abn \in Nat
    BY <1>1, <1>7 DEF AttachEnd, GuardOff, Types
  <2>3. Place(f)
    BY <1>1 DEF Places
  <2>4. f \in Guards /\ Guards' = Guards \ {f}
    BY <2>1, <2>2, <2>3 DEF Guards, Place
  <2>5. Share(tpc') = Share(tpc)
    BY <2>1
  <2> QED
    BY <1>2, <2>2, <2>4, <2>5 DEF CountKept
<1>8. ASSUME NEW f \in Files, SuspendBegin(f) PROVE CountKept
  <2>1. /\ pc[f] = "idle" /\ tpc' = tpc
        /\ pc'[f] = "suspend"
        /\ \A g \in Files : g # f => pc'[g] = pc[g]
    BY <1>1, <1>8, Moved DEF SuspendBegin
  <2>2. owner' = owner /\ h'.abn = h.abn /\ h.abn \in Nat
    BY <1>1, <1>8 DEF SuspendBegin, Types
  <2>3. Place(f)
    BY <1>1 DEF Places
  <2>4. Guards' = Guards
    BY <2>1, <2>2, <2>3 DEF Guards, Place
  <2>5. Share(tpc') = Share(tpc)
    BY <2>1
  <2> QED
    BY <1>2, <2>2, <2>4, <2>5 DEF CountKept
<1>9. ASSUME NEW f \in Files, SuspendEnd(f) PROVE CountKept
  <2>1. /\ pc[f] = "suspend" /\ tpc' = tpc
        /\ pc'[f] = "idle"
        /\ \A g \in Files : g # f => pc'[g] = pc[g]
    BY <1>1, <1>9, Moved DEF SuspendEnd
  <2>2. owner' = owner /\ h'.abn = h.abn /\ h.abn \in Nat
    BY <1>1, <1>9 DEF SuspendEnd, Types
  <2>3. Place(f)
    BY <1>1 DEF Places
  <2>4. Guards' = Guards
    BY <2>1, <2>2, <2>3 DEF Guards, Place
  <2>5. Share(tpc') = Share(tpc)
    BY <2>1
  <2> QED
    BY <1>2, <2>2, <2>4, <2>5 DEF CountKept
<1>10. ASSUME NEW f \in Files, ResumeBegin(f) PROVE CountKept
  <2>1. /\ pc[f] = "idle" /\ tpc' = tpc
        /\ pc'[f] = "unblock"
        /\ \A g \in Files : g # f => pc'[g] = pc[g]
    BY <1>1, <1>10, Moved DEF ResumeBegin
  <2>2. owner' = owner /\ f \in owner /\ h'.abn = h.abn /\ h.abn \in Nat
    BY <1>1, <1>10 DEF ResumeBegin, Types
  <2>3. Place(f)
    BY <1>1 DEF Places
  <2>4. Guards' = Guards
    BY <2>1, <2>2, <2>3 DEF Guards, Place
  <2>5. Share(tpc') = Share(tpc)
    BY <2>1
  <2> QED
    BY <1>2, <2>2, <2>4, <2>5 DEF CountKept
<1>11. ASSUME NEW f \in Files, ResumeUnblock(f) PROVE CountKept
  <2>1. /\ pc[f] = "unblock" /\ tpc' = tpc
        /\ pc'[f] = "resume"
        /\ \A g \in Files : g # f => pc'[g] = pc[g]
    BY <1>1, <1>11, Moved DEF ResumeUnblock
  <2>2. owner' = owner /\ h'.abn = h.abn /\ h.abn \in Nat
    BY <1>1, <1>11 DEF ResumeUnblock, Types
  <2>3. Place(f)
    BY <1>1 DEF Places
  <2>4. Guards' = Guards
    BY <2>1, <2>2, <2>3 DEF Guards, Place
  <2>5. Share(tpc') = Share(tpc)
    BY <2>1
  <2> QED
    BY <1>2, <2>2, <2>4, <2>5 DEF CountKept
<1>12. ASSUME NEW f \in Files, ResumeEnd(f) PROVE CountKept
  <2>1. /\ pc[f] = "resume" /\ tpc' = tpc
        /\ pc'[f] = (IF f \in owner THEN "idle" ELSE "guard off")
        /\ \A g \in Files : g # f => pc'[g] = pc[g]
    BY <1>1, <1>12, Moved DEF ResumeEnd
  <2>2. owner' = owner /\ h'.abn = h.abn /\ h.abn \in Nat
    BY <1>1, <1>12 DEF ResumeEnd, Types
  <2>3. Place(f)
    BY <1>1 DEF Places
  <2>4. Guards' = Guards
    BY <2>1, <2>2, <2>3 DEF Guards, Place
  <2>5. Share(tpc') = Share(tpc)
    BY <2>1
  <2> QED
    BY <1>2, <2>2, <2>4, <2>5 DEF CountKept
<1>13. ASSUME NEW f \in Files, NEW b \in BOOLEAN, DetachBegin(f, b) PROVE CountKept
  <2>1. /\ pc[f] = "idle" /\ tpc' = tpc
        /\ pc'[f] = (IF h.file = NoFile THEN "idle" ELSE "block")
        /\ \A g \in Files : g # f => pc'[g] = pc[g]
    BY <1>1, <1>13, Moved DEF DetachBegin
  <2>2. owner' = owner \ {f} /\ h'.abn = h.abn /\ h.abn \in Nat
    BY <1>1, <1>13 DEF DetachBegin, Types
  <2>3. Place(f)
    BY <1>1 DEF Places
  <2>4. Guards' = Guards
    BY <2>1, <2>2, <2>3 DEF Guards, Place
  <2>5. Share(tpc') = Share(tpc)
    BY <2>1
  <2> QED
    BY <1>2, <2>2, <2>4, <2>5 DEF CountKept
<1>14. ASSUME NEW f \in Files, DetachBlock(f) PROVE CountKept
  <2>1. /\ pc[f] = "block" /\ tpc' = tpc
        /\ pc'[f] = "requeue"
        /\ \A g \in Files : g # f => pc'[g] = pc[g]
    BY <1>1, <1>14, Moved DEF DetachBlock
  <2>2. owner' = owner /\ h'.abn = h.abn /\ h.abn \in Nat
    BY <1>1, <1>14 DEF DetachBlock, Types
  <2>3. Place(f)
    BY <1>1 DEF Places
  <2>4. Guards' = Guards
    BY <2>1, <2>2, <2>3 DEF Guards, Place
  <2>5. Share(tpc') = Share(tpc)
    BY <2>1
  <2> QED
    BY <1>2, <2>2, <2>4, <2>5 DEF CountKept
<1>15. ASSUME NEW f \in Files, DetachRequeue(f) PROVE CountKept
  <2>1. /\ pc[f] = "requeue" /\ tpc' = tpc
        /\ pc'[f] = (IF f \in closing THEN "mark suspend" ELSE "idle")
        /\ \A g \in Files : g # f => pc'[g] = pc[g]
    BY <1>1, <1>15, Moved DEF DetachRequeue
  <2>2. owner' = owner /\ h'.abn = h.abn /\ h.abn \in Nat
    BY <1>1, <1>15 DEF DetachRequeue, Types
  <2>3. Place(f)
    BY <1>1 DEF Places
  <2>4. Guards' = Guards
    BY <2>1, <2>2, <2>3 DEF Guards, Place
  <2>5. Share(tpc') = Share(tpc)
    BY <2>1
  <2> QED
    BY <1>2, <2>2, <2>4, <2>5 DEF CountKept
<1>16. ASSUME NEW f \in Files, DetachMark(f) PROVE CountKept
  <2>1. /\ pc[f] = "mark suspend" /\ tpc' = tpc
        /\ pc'[f] = "start timer"
        /\ \A g \in Files : g # f => pc'[g] = pc[g]
    BY <1>1, <1>16, Moved DEF DetachMark
  <2>2. owner' = owner /\ h'.abn = h.abn /\ h.abn \in Nat
    BY <1>1, <1>16 DEF DetachMark, Types
  <2>3. Place(f)
    BY <1>1 DEF Places
  <2>4. Guards' = Guards
    BY <2>1, <2>2, <2>3 DEF Guards, Place
  <2>5. Share(tpc') = Share(tpc)
    BY <2>1
  <2> QED
    BY <1>2, <2>2, <2>4, <2>5 DEF CountKept
<1>17. ASSUME NEW f \in Files, DetachTimer(f) PROVE CountKept
  <2>1. /\ pc[f] = "start timer" /\ tpc' = tpc
        /\ pc'[f] = "idle"
        /\ \A g \in Files : g # f => pc'[g] = pc[g]
    BY <1>1, <1>17, Moved DEF DetachTimer
  <2>2. owner' = owner /\ h'.abn = h.abn /\ h.abn \in Nat
    BY <1>1, <1>17 DEF DetachTimer, Types
  <2>3. Place(f)
    BY <1>1 DEF Places
  <2>4. Guards' = Guards
    BY <2>1, <2>2, <2>3 DEF Guards, Place
  <2>5. Share(tpc') = Share(tpc)
    BY <2>1
  <2> QED
    BY <1>2, <2>2, <2>4, <2>5 DEF CountKept
<1>18. ASSUME TimerExpires PROVE CountKept
  <2>1. UNCHANGED Guards /\ h'.abn = h.abn /\ h.abn \in Nat
    BY <1>1, <1>18 DEF TimerExpires, Fired, Types, Guards
  <2>2. Share(tpc') = Share(tpc)
    BY <1>18 DEF TimerExpires, Fired, Share
  <2> QED
    BY <1>2, <2>1, <2>2 DEF CountKept
<1>19. ASSUME CallbackBegin PROVE CountKept
  <2>1. UNCHANGED Guards /\ h'.abn = h.abn + 1 /\ h.abn \in Nat
    BY <1>1, <1>19 DEF CallbackBegin, Fired, GuardOn, Types, Guards
  <2>2. Share(tpc) = 0 /\ Share(tpc') = 1
    BY <1>19 DEF CallbackBegin, Fired, Share
  <2> QED
    BY <1>2, <2>1, <2>2 DEF CountKept
<1>20. ASSUME CallbackUnblock PROVE CountKept
  <2>1. UNCHANGED Guards /\ h'.abn = h.abn /\ h.abn \in Nat
    BY <1>1, <1>20 DEF CallbackUnblock, Fired, Types, Guards
  <2>2. Share(tpc') = Share(tpc)
    BY <1>20 DEF CallbackUnblock, Fired, Share
  <2> QED
    BY <1>2, <2>1, <2>2 DEF CountKept
<1>21. ASSUME CallbackResume PROVE CountKept
  <2>1. UNCHANGED Guards /\ h'.abn = h.abn /\ h.abn \in Nat
    BY <1>1, <1>21 DEF CallbackResume, Fired, Types, Guards
  <2>2. Share(tpc') = Share(tpc)
    BY <1>21 DEF CallbackResume, Fired, Share
  <2> QED
    BY <1>2, <2>1, <2>2 DEF CountKept
<1>22. ASSUME CallbackAbort PROVE CountKept
  <2>1. UNCHANGED Guards /\ h'.abn = h.abn /\ h.abn \in Nat
    BY <1>1, <1>22 DEF CallbackAbort, Fired, Types, Guards
  <2>2. Share(tpc') = Share(tpc)
    BY <1>22 DEF CallbackAbort, Fired, Share
  <2> QED
    BY <1>2, <2>1, <2>2 DEF CountKept
<1>23. ASSUME CallbackOffline PROVE CountKept
  <2>1. UNCHANGED Guards /\ h'.abn = h.abn /\ h.abn \in Nat
    BY <1>1, <1>23 DEF CallbackOffline, Fired, Types, Guards
  <2>2. Share(tpc') = Share(tpc)
    BY <1>23 DEF CallbackOffline, Fired, Share
  <2> QED
    BY <1>2, <2>1, <2>2 DEF CountKept
<1>24. ASSUME CallbackEnd PROVE CountKept
  <2>1. UNCHANGED Guards /\ h'.abn = h.abn - 1 /\ h.abn \in Nat
    BY <1>1, <1>24 DEF CallbackEnd, Fired, GuardOff, Types, Guards
  <2>2. Share(tpc) = 1 /\ Share(tpc') = 0
    BY <1>24 DEF CallbackEnd, Fired, Share
  <2> QED
    BY <1>2, <2>1, <2>2 DEF CountKept
<1>25. CASE SetTimeout \/ Online \/ UNCHANGED vars
  <2>1. UNCHANGED <<Guards, tpc>> /\ h'.abn = h.abn /\ h.abn \in Nat
    BY <1>1, <1>25 DEF SetTimeout, Online, vars, Types, Guards
  <2> QED
    BY <1>2, <2>1 DEF CountKept
<1> QED
  BY <1>3, <1>4, <1>5, <1>6, <1>7, <1>8, <1>9, <1>10, <1>11, <1>12, <1>13,
     <1>14, <1>15, <1>16, <1>17, <1>18, <1>19, <1>20, <1>21, <1>22, <1>23,
     <1>24, <1>25 DEF Next, Attach, SuspendResume, Detach, Callback

LEMMA Inductive ==
    ASSUME Overlap = FALSE, IInv, [Next]_vars
    PROVE  IInv'
<1>1. Rest'
  BY RestStep
<1>2. TypeOK'
  BY <1>1, CountStep, GuardCount DEF IInv, Rest
<1> QED
  BY <1>1, <1>2 DEF IInv

LEMMA Invariance == Overlap = FALSE => (Spec => []IInv)
<1> SUFFICES ASSUME Overlap = FALSE PROVE Spec => []IInv
  OBVIOUS
<1>1. IInv /\ [Next]_vars => IInv'
  BY Inductive
<1> QED
  BY InitInv, <1>1, PTL DEF Spec

\* target_abnormal_lock counts exactly the attaches and the callback at work, so
\* that no attach is refused for ever (vsc_scsi_attach, vsc_target_abnormal).
THEOREM TypeCorrect == Overlap = FALSE => (Spec => []TypeOK)
<1>1. IInv => TypeOK
  BY DEF IInv
<1> QED
  BY <1>1, Invariance, PTL

\* del_timer_sync, called with h->lock held, never waits for a callback that is
\* yet to take h->lock.
THEOREM NoDeadlock == Overlap = FALSE => (Spec => []SyncNeverStuck)
<1>1. IInv => SyncNeverStuck
  BY DEF IInv, Rest
<1> QED
  BY <1>1, Invariance, PTL

\* The timer's callback works on a host that no target has, and none takes the
\* host over before it is done (vsc_target_abnormal).
THEOREM TimerSparesTargets == Overlap = FALSE => (Spec => []OfflineWithoutTarget)
<1>1. IInv => OfflineWithoutTarget
  BY DEF IInv, Rest, TimerMeansNoTarget, OfflineWithoutTarget
<1> QED
  BY <1>1, Invariance, PTL

\* When nothing is under way the midlayer holds the commands of a host with a
\* target if and only if it is suspended (vsc_suspend_host, vsc_resume_host).
THEOREM BlockedWhenSuspended == Overlap = FALSE => (Spec => []BlockedIffSuspended)
<1>1. IInv => BlockedIffSuspended
  BY DEF IInv, Rest, Suspended, Blocked, Quiet, BlockedIffSuspended
<1> QED
  BY <1>1, Invariance, PTL

-----------------------------------------------------------------------------
(***************************************************************************)
(* A host with its commands is a host, and what a detach leaves behind, for *)
(* any number of open files and commands, as long as a host is not attached *)
(* before its last detach has returned.                                    *)
(***************************************************************************)

\* The commands take no part in the life of the host: each step of the
\* composition is one of vsc_scsi_attach, vsc_scsi_detach, vsc_target_abnormal
\* and the others, or leaves the host alone.
LEMMA HostStep == OutageNext => [Next]_vars
<1> SUFFICES ASSUME OutageNext PROVE [Next]_vars
  OBVIOUS
<1>1. ASSUME NEW f \in Files, Host(Attach(f) \/ SuspendResume(f) \/ Detach(f))
      PROVE  Next
  BY <1>1 DEF Host, Next
<1>2. CASE Host(TimerExpires) \/ Host(Callback) \/ Host(SetTimeout) \/ Host(Online)
  BY <1>2 DEF Host, Next
<1>3. ASSUME NEW s \in Scs, Midlayer(s) \/ Answer(s) \/ DetachPop(s) \/ CallbackPop(s)
      PROVE  UNCHANGED vars
  BY <1>3 DEF Midlayer, Submit, Dispatch, Refuse, Enqueue, TimesOut, Recover,
     Retry, Answer, DetachPop, CallbackPop, Move
<1> QED
  BY <1>1, <1>2, <1>3 DEF OutageNext

\* What VscHost says of a host holds of a host whose commands are sent, drained
\* and answered meanwhile (vsc_scsi_attach, vsc_scsi_detach).
THEOREM OutageIsHost == OutageSpec => Spec
<1>1. OutageInit => Init
  BY DEF OutageInit
<1>2. [OutageNext]_outageVars => [Next]_vars
  BY HostStep DEF outageVars
<1> QED
  BY <1>1, <1>2, PTL DEF OutageSpec, Spec

-----------------------------------------------------------------------------

Stations == {"ended", "waits", "passed", "queued", "late"}

\* From the end of a drain until a target comes or the timer's callback is
\* about to let the commands go on, the host is blocked, so that nothing sets
\* out for it but what already has, and the commands of its siblings' disks.
SweptInv ==
    /\ cmd \in [Scs -> Stations]
    /\ swept => /\ h.file = NoFile /\ h.blocked /\ tpc \notin Working
                /\ OnTheWay \ Foreign \subseteq racing

OutInv == IInv /\ SweptInv

LEMMA OutageInitInv == OutageInit => OutInv
<1> SUFFICES ASSUME OutageInit PROVE OutInv
  OBVIOUS
<1>1. IInv
  BY InitInv DEF OutageInit
<1>2. SweptInv
  BY DEF OutageInit, SweptInv, Stations
<1> QED
  BY <1>1, <1>2 DEF OutInv

\* While nobody has the host, nobody but the callback lifts the block.
LEMMA StaysBlocked ==
    ASSUME IInv, Next, h.file = NoFile, h.blocked, tpc \notin Working
    PROVE  /\ h'.blocked
           /\ tpc' \in Working => tpc' = "unblock"
<1>1. Types /\ Places /\ NoFile \notin Files
  BY FileAssumption DEF IInv, Rest
<1>2. ASSUME NEW f \in Files, Attach(f) \/ SuspendResume(f) \/ Detach(f)
      PROVE  h'.blocked /\ tpc' = tpc
  <2>1. pc[f] # "unblock"
    BY <1>1 DEF Places, Place, Attaching
  <2>2. CASE Attach(f)
    BY <1>1, <2>2 DEF Attach, AttachBegin, AttachRetreat, AttachSync, AttachTest,
       AttachEnd, Call, GuardOn, GuardOff, Types
  <2>3. CASE SuspendResume(f)
    BY <1>1, <2>1, <2>3 DEF SuspendResume, SuspendBegin, SuspendEnd, ResumeBegin,
       ResumeUnblock, ResumeEnd, Call, Types
  <2>4. CASE Detach(f)
    BY <1>1, <2>4 DEF Detach, DetachBegin, DetachBlock, DetachRequeue, DetachMark,
       DetachTimer, Call, Types
  <2> QED
    BY <1>2, <2>2, <2>3, <2>4
<1>3. CASE TimerExpires \/ SetTimeout \/ Online
  BY <1>1, <1>3 DEF TimerExpires, SetTimeout, Online, Fired, Types, Working
<1>4. CASE Callback
  BY <1>1, <1>4 DEF Callback, CallbackBegin, CallbackUnblock, CallbackResume,
     CallbackAbort, CallbackOffline, CallbackEnd, Fired, GuardOn, GuardOff, Types,
     Working
<1> QED
  BY <1>2, <1>3, <1>4 DEF Next

\* A drain that ends is that of a detach: it leaves the host as it is.
LEMMA DrainedLeaves ==
    ASSUME IInv, Next, Drained
    PROVE  h.file = NoFile /\ h.blocked /\ tpc = "idle" /\ UNCHANGED <<h, tpc>>
<1>1. Types /\ Places
  BY DEF IInv, Rest
<1>2. PICK f \in Files : pc[f] = "requeue" /\ pc'[f] # "requeue"
  BY DEF Drained
<1>3. h.file = NoFile /\ h.blocked /\ tpc = "idle"
  BY <1>1, <1>2 DEF Places, Place, Letting
<1>4. ASSUME NEW g \in Files, Attach(g) \/ SuspendResume(g) \/ Detach(g)
      PROVE  g = f
  <2>1. \E to : pc' = [pc EXCEPT ![g] = to]
    BY <1>4 DEF Attach, AttachBegin, AttachRetreat, AttachSync, AttachTest, AttachEnd,
       SuspendResume, SuspendBegin, SuspendEnd, ResumeBegin, ResumeUnblock, ResumeEnd,
       Detach, DetachBegin, DetachBlock, DetachRequeue, DetachMark, DetachTimer, Call
  <2> QED
    BY <1>1, <1>2, <2>1 DEF Types
<1>5. ASSUME TimerExpires \/ SetTimeout \/ Online \/ Callback
      PROVE  FALSE
  BY <1>2, <1>5 DEF TimerExpires, SetTimeout, Online, Callback, CallbackBegin,
     CallbackUnblock, CallbackResume, CallbackAbort, CallbackOffline, CallbackEnd, Fired
<1>6. Attach(f) \/ SuspendResume(f) \/ Detach(f)
  BY <1>4, <1>5 DEF Next
<1>7. UNCHANGED <<h, tpc>>
  BY <1>2, <1>6 DEF Attach, AttachBegin, AttachRetreat, AttachSync, AttachTest, AttachEnd,
     SuspendResume, SuspendBegin, SuspendEnd, ResumeBegin, ResumeUnblock, ResumeEnd,
     Detach, DetachBegin, DetachBlock, DetachRequeue, DetachMark, DetachTimer, Call
<1> QED
  BY <1>3, <1>7

\* What every step of the host does to the commands and the history.
Bookkeeping ==
    /\ UNCHANGED cmd
    /\ swept' = (Drained \/ (swept /\ h'.file = NoFile /\ tpc' # "unblock"))
    /\ racing' = IF Drained THEN OnTheWay ELSE racing

\* A step of the host.
LEMMA SweptHost ==
    ASSUME OutInv, Next, Bookkeeping
    PROVE  SweptInv'
<1>1. cmd \in [Scs -> Stations] /\ cmd' = cmd /\ OnTheWay' = OnTheWay
  BY DEF OutInv, SweptInv, OnTheWay, Bookkeeping
<1>2. CASE Drained
  <2>1. h'.file = NoFile /\ h'.blocked /\ tpc' = "idle"
    BY <1>2, DrainedLeaves DEF OutInv
  <2>2. racing' = OnTheWay
    BY <1>2 DEF Bookkeeping
  <2> QED
    BY <1>1, <2>1, <2>2 DEF SweptInv, Working
<1>3. CASE ~ Drained
  <2>1. racing' = racing
    BY <1>3 DEF Bookkeeping
  <2>2. ASSUME swept'
        PROVE  h'.file = NoFile /\ h'.blocked /\ tpc' \notin Working
               /\ OnTheWay \ Foreign \subseteq racing
    <3>1. swept /\ h'.file = NoFile /\ tpc' # "unblock"
      BY <1>3, <2>2 DEF Bookkeeping
    <3>2. /\ h.file = NoFile /\ h.blocked /\ tpc \notin Working
          /\ OnTheWay \ Foreign \subseteq racing
      BY <3>1 DEF OutInv, SweptInv
    <3> QED
      BY <3>1, <3>2, StaysBlocked DEF OutInv
  <2> QED
    BY <1>1, <2>1, <2>2 DEF SweptInv
<1> QED
  BY <1>2, <1>3

\* A step of a command: only one that goes on sets out.
LEMMA SweptCommand ==
    ASSUME SweptInv, NEW s \in Scs,
           Midlayer(s) \/ Answer(s) \/ DetachPop(s) \/ CallbackPop(s)
    PROVE  SweptInv'
<1>1. UNCHANGED <<vars, swept, racing>>
  BY DEF Midlayer, Submit, Dispatch, Refuse, Enqueue, TimesOut, Recover,
     Retry, Answer, DetachPop, CallbackPop, Move
<1>2. PICK to \in Stations :
        /\ cmd' = [cmd EXCEPT ![s] = to]
        /\ to = "passed" => Open(s)
        /\ to = "queued" => cmd[s] = "passed"
  BY DEF Midlayer, Submit, Dispatch, Refuse, Enqueue, TimesOut, Recover,
     Retry, Answer, DetachPop, CallbackPop, Move, Stations
<1>3. cmd \in [Scs -> Stations]
  BY DEF SweptInv
<1>4. cmd' \in [Scs -> Stations]
  BY <1>2, <1>3
<1>5. \A z \in Scs : z # s => cmd'[z] = cmd[z]
  BY <1>2, <1>3
<1>6. cmd'[s] \in {"passed", "queued"} => Open(s) \/ cmd[s] \in {"passed", "queued"}
  BY <1>2, <1>3
<1>7. ASSUME h.blocked, NEW z \in OnTheWay' \ Foreign
      PROVE  z \in OnTheWay
  BY <1>5, <1>6, <1>7 DEF OnTheWay, Open
<1> QED
  BY <1>1, <1>4, <1>7 DEF SweptInv, vars

LEMMA SweptStep ==
    ASSUME Overlap = FALSE, OutInv, [OutageNext]_outageVars
    PROVE  OutInv'
<1>1. IInv'
  <2>1. [Next]_vars
    BY HostStep DEF outageVars
  <2> QED
    BY <2>1, Inductive DEF OutInv
<1>2. ASSUME NEW f \in Files, Host(Attach(f) \/ SuspendResume(f) \/ Detach(f))
      PROVE  SweptInv'
  <2>1. Next /\ Bookkeeping
    BY <1>2 DEF Host, Next, Bookkeeping
  <2> QED
    BY <2>1, SweptHost
<1>3. ASSUME Host(TimerExpires) \/ Host(Callback) \/ Host(SetTimeout) \/ Host(Online)
      PROVE  SweptInv'
  <2>1. Next /\ Bookkeeping
    BY <1>3 DEF Host, Next, Bookkeeping
  <2> QED
    BY <2>1, SweptHost
<1>4. ASSUME NEW s \in Scs, Midlayer(s) \/ Answer(s) \/ DetachPop(s) \/ CallbackPop(s)
      PROVE  SweptInv'
  BY <1>4, SweptCommand DEF OutInv
<1>5. ASSUME UNCHANGED outageVars
      PROVE  SweptInv'
  <2>1. UNCHANGED <<h, tpc, cmd, swept, racing>>
    BY <1>5 DEF outageVars, vars, cmdVars
  <2>2. OnTheWay' = OnTheWay
    BY <2>1 DEF OnTheWay
  <2>3. SweptInv
    BY DEF OutInv
  <2> QED
    BY <2>1, <2>2, <2>3 DEF SweptInv
<1> QED
  BY <1>1, <1>2, <1>3, <1>4, <1>5 DEF OutInv, OutageNext

\* What a detach leaves in the queues of its host had been sent before the drain
\* ended, or is a sibling's: block, then drain, is the right order, and nothing
\* but a new target or the timer undoes it (vsc_scsi_detach).
THEOREM DetachSweeps == Overlap = FALSE => (OutageSpec => []SweptClean)
<1> SUFFICES ASSUME Overlap = FALSE PROVE OutageSpec => []SweptClean
  OBVIOUS
<1>1. OutInv /\ [OutageNext]_outageVars => OutInv'
  BY SweptStep
<1>2. OutInv => SweptClean
  BY DEF OutInv, SweptInv, SweptClean, InDriver, OnTheWay
<1> QED
  BY OutageInitInv, <1>1, <1>2, PTL DEF OutageSpec
=============================================================================
