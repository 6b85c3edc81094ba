------------------------------- MODULE VscList -------------------------------
(***************************************************************************)
(* The kernel lists of the driver, as sequences.                           *)
(*                                                                         *)
(* A command or an event is on at most one list, through the list_head it  *)
(* embeds: the driver never names the list it takes an entry from          *)
(* (removeQ, remove_eventQ: list_del_init) and asks whether an entry is on *)
(* any list at all (list_empty(&c->list)).                                 *)
(***************************************************************************)
EXTENDS Integers, SequencesExt, FiniteSets

\* addQ and add_eventQ: list_add_tail.
AddTail(q, c) == Append(q, c)

\* c is linked into q: !list_empty(&c->list), q being the list it is on.
On(c, q) == c \in ToSet(q)

\* removeQ and remove_eventQ: list_del_init, a no-op on an unlinked entry.
Del(q, c) ==
    IF On(c, q) THEN RemoveAt(q, CHOOSE i \in DOMAIN q : q[i] = c) ELSE q

\* The positions of K in ascending order.
Ascending(K) == CHOOSE f \in [1 .. Cardinality(K) -> K] :
                    \A i, j \in DOMAIN f : i < j => f[i] < f[j]

\* The queue without the entries of S: removeQ of each of them.
DelAll(q, S) == LET kept == {i \in DOMAIN q : q[i] \notin S}
                IN [i \in 1 .. Cardinality(kept) |-> q[Ascending(kept)[i]]]

\* mutant: one entry more leaves with the batch.
Rest_OneMore(q, n) == SubSeq(q, (IF Len(q) < n THEN Len(q) ELSE n) + 2, Len(q))

\* The first n entries (all of them when the queue is shorter), and the rest.
Batch(q, n) == SubSeq(q, 1, IF Len(q) < n THEN Len(q) ELSE n)
Rest(q, n)  == SubSeq(q, (IF Len(q) < n THEN Len(q) ELSE n) + 1, Len(q))

\* What f says of the entries of q, in their order.
Image(f, q) == [i \in 1 .. Len(q) |-> f[q[i]]]

\* No entry is linked twice.
NoDup(q) == IsInjective(q)
=============================================================================
