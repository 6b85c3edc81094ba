---------------------------- MODULE VscReadProofs ----------------------------
(***************************************************************************)
(* Nobody sleeps over work, for any number of threads that read, poll and  *)
(* queue work, and any number of commands and events.                      *)
(***************************************************************************)
EXTENDS VscRead, TLAPS

\* Where a thread stands in read() and in poll(), in both.
Blocking == {"wait", "prepare", "test", "asleep", "woken", "interrupted"}
Polling  == {"poll", "poll asleep"}
Passing  == {"out", "look", "take event", "take commands", "copy event",
             "copy commands"}

Types ==
    /\ cmpQ \in Nat /\ eventQ \in Nat
    /\ batch \in [Threads -> Nat]
    /\ pc \in [Threads -> Blocking \union Polling \union Passing]
    /\ queue_wait \subseteq Threads
    /\ ppc \in [Producers -> {"idle", "wake"}]

\* Only readers block and only pollers poll, so that a wake-up, which treats
\* the two differently, leaves neither asleep.
Kinds == \A r \in Threads : /\ pc[r] \in Blocking => r \in Readers
                            /\ pc[r] \in Polling  => r \in Pollers

IInv == Types /\ Kinds /\ NoLostWakeup

\* Someone is about to wake the sleepers.
Waking == (\E p \in Producers : ppc[p] = "wake") \/ dpc = "wake" \/ fpc = "wake"

\* A wake-up reaches everyone.
LEMMA WakeAll ==
    ASSUME Types, Kinds, Wake, UNCHANGED pc
    PROVE  queue_wait' \subseteq Threads /\ \A r \in Threads : ~ Sleeping(r)'
  BY ThreadAssumption DEF Wake, Sleeping, Types, Kinds, Threads, Blocking, Polling

\* A step that neither puts a thread to sleep, nor brings work, nor takes a
\* waker away, leaves nobody asleep over work who was not.
LEMMA NoSleeper ==
    ASSUME NoLostWakeup, Work' => Work \/ returned', returned => returned',
           \A r \in Threads : Sleeping(r)' => Sleeping(r),
           Waking => Waking'
    PROVE  NoLostWakeup'
  BY DEF NoLostWakeup, Waking

\* A thread moves, leaving the queues alone.
LEMMA MoveStep ==
    ASSUME IInv, NEW r \in Threads,
           Look(r) \/ WaitFirst(r) \/ WaitPrepare(r) \/ WaitAgain(r)
             \/ WaitSignal(r) \/ Woken(r) \/ Interrupted(r) \/ ReadBegin(r)
             \/ PollBegin(r) \/ PollWoken(r)
    PROVE  IInv'
<1> USE DEF IInv
<1>1. /\ cmpQ' = cmpQ /\ eventQ' = eventQ /\ batch' = batch
      /\ returned' = returned
      /\ ppc' = ppc /\ dpc' = dpc /\ fpc' = fpc
      /\ \A q \in Threads \ {r} : pc'[q] = pc[q]
      /\ \A q \in Threads \ {r} : q \in queue_wait' => q \in queue_wait
      /\ \A q \in Threads \ {r} : q \in triggered' <=> q \in triggered
      /\ queue_wait' \subseteq Threads
  BY DEF Look, WaitFirst, WaitPrepare, WaitAgain, WaitSignal, Woken, Interrupted,
         ReadBegin, PollBegin, PollWoken, Goto, workVars, wakeVars, wakerVars,
         Types
<1>2. pc' \in [Threads -> Blocking \union Polling \union Passing]
  BY DEF Look, WaitFirst, WaitPrepare, WaitAgain, WaitSignal, Woken, Interrupted,
         ReadBegin, PollBegin, PollWoken, Goto, Types, Blocking, Polling, Passing
<1>3. /\ pc'[r] \in Blocking => r \in Readers
      /\ pc'[r] \in Polling  => r \in Pollers
      /\ pc'[r] \notin {"asleep", "poll asleep"}
  BY DEF Look, WaitFirst, WaitPrepare, WaitAgain, WaitSignal, Woken, Interrupted,
         ReadBegin, PollBegin, PollWoken, Goto, Types, Kinds, Blocking, Polling,
         Passing, Threads
<1>4. Types' /\ Kinds'
  BY <1>1, <1>2, <1>3 DEF Types, Kinds
<1>5. NoLostWakeup'
  <2>1. \A q \in Threads : Sleeping(q)' => Sleeping(q)
    BY <1>1, <1>3 DEF Sleeping
  <2> QED BY <1>1, <2>1, NoSleeper DEF Work, Waking
<1> QED BY <1>4, <1>5

\* A thread tests for work and goes to sleep if there is none.
LEMMA SleepStep ==
    ASSUME IInv, NEW r \in Threads, WaitTest(r) \/ Poll(r)
    PROVE  IInv'
<1> USE DEF IInv
<1>1. /\ cmpQ' = cmpQ /\ eventQ' = eventQ /\ batch' = batch
      /\ returned' = returned
      /\ ppc' = ppc /\ dpc' = dpc /\ fpc' = fpc /\ triggered' = triggered
      /\ queue_wait' \subseteq queue_wait
      /\ \A q \in Threads \ {r} : pc'[q] = pc[q]
      /\ pc' \in [Threads -> Blocking \union Polling \union Passing]
      /\ pc'[r] \in Blocking => r \in Readers
      /\ pc'[r] \in Polling  => r \in Pollers
      /\ pc'[r] \in {"asleep", "poll asleep"} => ~ Work
  BY DEF WaitTest, Poll, Asleep, Awake, Goto, workVars, wakerVars, Types, Kinds,
         Blocking, Polling, Passing
<1>2. Types' /\ Kinds'
  BY <1>1 DEF Types, Kinds
<1>3. NoLostWakeup'
  <2>1. CASE Work
    <3>1. \A q \in Threads : Sleeping(q)' => Sleeping(q)
      BY <1>1, <2>1 DEF Sleeping
    <3> QED BY <1>1, <3>1, NoSleeper DEF Work, Waking
  <2>2. CASE ~ Work
    BY <1>1, <2>2 DEF NoLostWakeup, Work
  <2> QED BY <2>1, <2>2
<1> QED BY <1>2, <1>3

\* A thread takes what is queued, and copies it or gives it back.
LEMMA TakeStep ==
    ASSUME IInv, NEW r \in Threads, Take(r)
    PROVE  IInv'
<1> USE DEF IInv
<1>1. /\ ppc' = ppc /\ dpc' = dpc /\ fpc' = fpc
      /\ queue_wait' = queue_wait /\ triggered' = triggered
      /\ \A q \in Threads \ {r} : pc'[q] = pc[q]
      /\ pc' \in [Threads -> Blocking \union Polling \union Passing]
      /\ pc'[r] \in Passing
  BY DEF Take, TakeCommands, TakeEvent, CopyDone, CopyFault, Goto, wakeVars,
         wakerVars, Types, Passing
<1>2. Taken \in Nat /\ Taken <= cmpQ
  BY BoundAssumption DEF Taken, Types
<1>3. /\ cmpQ' \in Nat /\ eventQ' \in Nat
      /\ batch' \in [Threads -> Nat]
      /\ Work' => Work \/ returned'
      /\ returned => returned'
  <2>1. CASE TakeCommands(r)
    <3>1. /\ cmpQ' = cmpQ - Taken /\ eventQ' = eventQ /\ returned' = returned
          /\ batch' = [batch EXCEPT ![r] = Taken]
      BY <2>1 DEF TakeCommands
    <3>2. batch' \in [Threads -> Nat]
      BY <1>2, <3>1 DEF Types
    <3> QED BY <1>2, <3>1, <3>2 DEF Types, Work
  <2>2. CASE TakeEvent(r)
    <3>1. /\ eventQ' = IF eventQ = 0 THEN 0 ELSE eventQ - 1
          /\ cmpQ' = cmpQ /\ batch' = batch /\ returned' = returned
      BY <2>2 DEF TakeEvent
    <3>2. eventQ' \in Nat /\ (eventQ' > 0 => eventQ > 0)
      BY <3>1 DEF Types
    <3> QED BY <3>1, <3>2 DEF Types, Work
  <2>3. CASE CopyDone(r)
    BY <2>3 DEF CopyDone, Types, Work
  <2>4. CASE CopyFault(r)
    <3>1. /\ \/ cmpQ' = cmpQ + batch[r] /\ eventQ' = eventQ
             \/ cmpQ' = cmpQ /\ eventQ' = eventQ + 1
          /\ returned' = TRUE
          /\ batch' = [batch EXCEPT ![r] = 0]
      BY <2>4 DEF CopyFault
    <3>2. cmpQ' \in Nat /\ eventQ' \in Nat /\ batch' \in [Threads -> Nat]
      BY <3>1 DEF Types
    <3> QED BY <3>1, <3>2
  <2> QED BY <2>1, <2>2, <2>3, <2>4 DEF Take
<1>4. Types' /\ Kinds'
  BY <1>1, <1>3 DEF Types, Kinds, Passing, Blocking, Polling
<1>5. NoLostWakeup'
  <2>1. \A q \in Threads : Sleeping(q)' => Sleeping(q)
    BY <1>1 DEF Sleeping, Passing
  <2> QED BY <1>1, <1>3, <2>1, NoSleeper DEF Waking
<1> QED BY <1>4, <1>5

\* Work is queued, or all of it taken away by a detach, or a file is closed:
\* whoever does it is about to wake the sleepers.
LEMMA WakerStep ==
    ASSUME IInv, (\E p \in Producers : Produce(p)) \/ DetachDrain \/ FlushMark
    PROVE  IInv'
<1> USE DEF IInv
<1>1. Types' /\ Kinds'
  BY DEF Produce, DetachDrain, FlushMark, Types, Kinds, workVars, wakeVars
<1>2. Waking'
  BY DEF Produce, DetachDrain, FlushMark, Waking, Types
<1> QED BY <1>1, <1>2 DEF NoLostWakeup, Waking

\* The sleepers are woken.
LEMMA WakeStep ==
    ASSUME IInv, (\E p \in Producers : ProducerWakes(p)) \/ DetachWake \/ FlushWake
    PROVE  IInv'
<1> USE DEF IInv
<1>1. /\ Wake /\ pc' = pc
      /\ cmpQ' = cmpQ /\ eventQ' = eventQ /\ batch' = batch
      /\ ppc' \in [Producers -> {"idle", "wake"}]
  BY DEF ProducerWakes, DetachWake, FlushWake, Types
<1>2. queue_wait' \subseteq Threads /\ \A r \in Threads : ~ Sleeping(r)'
  BY <1>1, WakeAll
<1>3. Types' /\ Kinds'
  BY <1>1, <1>2 DEF Types, Kinds
<1> QED BY <1>2, <1>3 DEF NoLostWakeup

\* A thread that sleeps unwoken while there is something to read is about to be
\* woken, whatever the test for work, which takes no lock, falls between
\* (vsc_get_scsi_cmd_msg, vsc_poll_wait, vsc_start_io, vsc_event_add).
THEOREM WakeupsKept == Spec => []NoLostWakeup
<1>1. Init => IInv
  BY DEF Init, IInv, Types, Kinds, NoLostWakeup, Work, Blocking, Polling, Passing
<1>2. IInv /\ [Next]_vars => IInv'
  <2> SUFFICES ASSUME IInv, [Next]_vars PROVE IInv'
    OBVIOUS
  <2>1. ASSUME NEW r \in Threads,
               ReadBegin(r) \/ PollBegin(r) \/ Run(r) \/ WaitSignal(r)
        PROVE  IInv'
    BY <2>1, MoveStep, SleepStep, TakeStep DEF Run, Wait
  <2>2. ASSUME NEW p \in Producers, Produce(p) \/ ProducerWakes(p) PROVE IInv'
    BY <2>2, WakerStep, WakeStep
  <2>3. CASE DetachDrain \/ DetachWake \/ FlushMark \/ FlushWake
    BY <2>3, WakerStep, WakeStep
  <2>4. CASE UNCHANGED vars
    BY <2>4 DEF vars, IInv, Types, Kinds, NoLostWakeup, Work, Sleeping
  <2> QED BY <2>1, <2>2, <2>3, <2>4 DEF Next
<1>3. IInv => NoLostWakeup
  BY DEF IInv
<1> QED BY <1>1, <1>2, <1>3, PTL DEF Spec
=============================================================================
