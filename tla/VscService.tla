----------------------------- MODULE VscService -----------------------------
(***************************************************************************)
(* What one host promises to the SCSI midlayer, whatever slots, queues and *)
(* threads it uses: every command it accepts waits its turn, is handed out *)
(* to the target in order, in batches, and is completed exactly once.      *)
(***************************************************************************)
EXTENDS Integers, SequencesExt

CONSTANTS Scs,      \* commands of the midlayer
          MaxBatch  \* most commands handed out at once

VARIABLES st,       \* where each command is
          waiting   \* commands not handed out yet, oldest first

svars == <<st, waiting>>

SInit == st = [s \in Scs |-> "idle"] /\ waiting = <<>>

\* The midlayer gives a command to the driver.
Submit(s) ==
    /\ st[s] = "idle"
    /\ st' = [st EXCEPT ![s] = "submitted"]
    /\ UNCHANGED waiting

\* The driver queues it.
Post(s) ==
    /\ st[s] = "submitted"
    /\ st' = [st EXCEPT ![s] = "waiting"]
    /\ waiting' = Append(waiting, s)

\* The oldest waiting commands are handed out.
HandOut(n) ==
    /\ n \in 1 .. MaxBatch /\ n <= Len(waiting)
    /\ st' = [s \in Scs |-> IF s \in ToSet(SubSeq(waiting, 1, n))
                            THEN "handed out" ELSE st[s]]
    /\ waiting' = SubSeq(waiting, n + 1, Len(waiting))

\* One thread decides to complete a command, answered or not.
Close(s) ==
    /\ \/ st[s] = "handed out" /\ UNCHANGED waiting
       \/ /\ st[s] = "waiting"
          /\ \E i \in DOMAIN waiting :
                waiting[i] = s /\ waiting' = RemoveAt(waiting, i)
    /\ st' = [st EXCEPT ![s] = "closing"]

\* The midlayer has it back.
Complete(s) ==
    /\ st[s] = "closing"
    /\ st' = [st EXCEPT ![s] = "idle"]
    /\ UNCHANGED waiting

SNext == \/ \E s \in Scs : Submit(s) \/ Post(s) \/ Close(s) \/ Complete(s)
         \/ \E n \in 1 .. MaxBatch : HandOut(n)

\* Safety, and the promise that no accepted command stays with the driver.
Safety == SInit /\ [][SNext]_svars
SSpec  == Safety /\ \A s \in Scs : WF_svars(Post(s)) /\ WF_svars(Close(s))
                                     /\ WF_svars(Complete(s))
=============================================================================
