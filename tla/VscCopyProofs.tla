---------------------------- MODULE VscCopyProofs ----------------------------
(***************************************************************************)
(* The copy is right for buffers and iovecs of any length, cut in any way.   *)
(*                                                                         *)
(* The inductive invariant says where the copy stands: in the iovecs at byte *)
(* totallen, and in the buffer at byte offset + totallen, which the code     *)
(* knows as a segment and the part of it that is left.                       *)
(***************************************************************************)
EXTENDS VscCopy, TLAPS

Cut(m) == /\ m.n \in Nat
          /\ m.at \in [0 .. m.n -> Nat]
          /\ m.at[0] = 0
          /\ \A x, y \in 0 .. m.n : x <= y => m.at[x] <= m.at[y]

\* What Cuts enumerates is memory cut into parts.
LEMMA CutsAre ==
    ASSUME NEW n \in Nat, NEW m \in Nat, NEW c \in Cuts(n, m)
    PROVE  Cut(c) /\ Size(c) <= m
<1>1. PICK k \in 0 .. n : c \in {[n |-> k, at |-> f] : f \in
        {g \in [0 .. k -> 0 .. m] : g[0] = 0 /\ \A x, y \in 0 .. k : x <= y => g[x] <= g[y]}}
  BY DEF Cuts
<1>2. PICK f \in [0 .. k -> 0 .. m] :
        /\ c = [n |-> k, at |-> f] /\ f[0] = 0
        /\ \A x, y \in 0 .. k : x <= y => f[x] <= f[y]
  BY <1>1
<1>3. c.n = k /\ c.at = f
  BY <1>2
<1>4. f \in [0 .. k -> Nat] /\ k \in Nat
  BY <1>2
<1>5. Cut(c)
  BY <1>2, <1>3, <1>4 DEF Cut
<1>6. Size(c) <= m
  BY <1>2, <1>3 DEF Size
<1> QED
  BY <1>5, <1>6

\* Every part lies within the memory.
LEMMA Parts ==
    ASSUME NEW m, Cut(m), NEW k \in 1 .. m.n
    PROVE  /\ m.at[k - 1] \in Nat /\ m.at[k] \in Nat /\ Size(m) \in Nat
           /\ Part(m, k) \in Nat /\ m.at[k - 1] + Part(m, k) = m.at[k]
           /\ m.at[k] <= Size(m)
<1>1. k \in 0 .. m.n /\ k - 1 \in 0 .. m.n /\ m.n \in 0 .. m.n /\ k <= m.n /\ k - 1 <= k
  BY DEF Cut
<1>2. m.at[k - 1] \in Nat /\ m.at[k] \in Nat /\ m.at[m.n] \in Nat
  BY <1>1 DEF Cut
<1>3. m.at[k - 1] <= m.at[k] /\ m.at[k] <= m.at[m.n]
  BY <1>1 DEF Cut
<1> QED
  BY <1>2, <1>3 DEF Size, Part

\* The bytes are paired one after the other, and l more of them.
Pairs(o, t) == {<<o + x, x>> : x \in 0 .. t - 1}
More(o, t, l) == {<<(o + t) + x, t + x>> : x \in 0 .. l - 1}

LEMMA PairsGrow ==
    ASSUME NEW o \in Nat, NEW t \in Nat, NEW l \in Nat
    PROVE  Pairs(o, t + l) = Pairs(o, t) \union More(o, t, l)
<1>1. ASSUME NEW p \in Pairs(o, t + l)  PROVE p \in Pairs(o, t) \union More(o, t, l)
  <2>1. PICK x \in 0 .. (t + l) - 1 : p = <<o + x, x>>
    BY DEF Pairs
  <2>2. CASE x < t
    <3>1. x \in 0 .. t - 1
      BY <2>2
    <3> QED
      BY <2>1, <3>1 DEF Pairs
  <2>3. CASE ~ (x < t)
    <3>1. x - t \in 0 .. l - 1 /\ (o + t) + (x - t) = o + x /\ t + (x - t) = x
      BY <2>3
    <3>2. p = <<(o + t) + (x - t), t + (x - t)>>
      BY <2>1, <3>1
    <3> QED
      BY <3>1, <3>2 DEF More
  <2> QED
    BY <2>2, <2>3
<1>2. ASSUME NEW p \in Pairs(o, t)  PROVE p \in Pairs(o, t + l)
  <2>1. PICK x \in 0 .. t - 1 : p = <<o + x, x>>
    BY DEF Pairs
  <2>2. x \in 0 .. (t + l) - 1
    OBVIOUS
  <2> QED
    BY <2>1, <2>2 DEF Pairs
<1>3. ASSUME NEW p \in More(o, t, l)  PROVE p \in Pairs(o, t + l)
  <2>1. PICK x \in 0 .. l - 1 : p = <<(o + t) + x, t + x>>
    BY DEF More
  <2>2. t + x \in 0 .. (t + l) - 1 /\ (o + t) + x = o + (t + x)
    OBVIOUS
  <2>3. p = <<o + (t + x), t + x>>
    BY <2>1, <2>2
  <2> QED
    BY <2>2, <2>3 DEF Pairs
<1> QED
  BY <1>1, <1>2, <1>3

(***************************************************************************)
(* The inductive invariant.                                                *)
(***************************************************************************)

\* The call is as it began.
CallOK == /\ Cut(buf) /\ Cut(vec)
          /\ offset \in Nat /\ offset < Word
          /\ Word \in Nat /\ Size(buf) < Word

LocalsOK == /\ i \in Nat \ {0} /\ sl_first \in Nat \ {0} /\ sl \in Nat \ {0}
            /\ sl_offset \in Nat /\ j \in Nat /\ left_len \in Nat
            /\ iov_base_offset \in Nat /\ totallen \in Nat

\* The buffer is copied to its end.
Exhausted == offset + totallen = Size(buf)

\* The next byte is left_len before the end of segment k, or its first.
Cursor(k) == /\ k \in 1 .. buf.n
             /\ left_len <= Part(buf, k)
             /\ offset + totallen = IF left_len > 0 THEN buf.at[k] - left_len
                                                    ELSE buf.at[k - 1]

AtPlain == /\ i \in 1 .. vec.n + 1
           /\ iov_base_offset = 0 /\ data_type # "DATA"
           /\ left_len + totallen = Left
           /\ totallen <= vec.at[i - 1]
           /\ left_len > 0 => totallen = vec.at[i - 1]

\* An unsigned int, and the difference when it is one.
LEMMA LeftIs ==
    ASSUME CallOK
    PROVE  Left \in Nat /\ (offset <= Size(buf) => Left = Size(buf) - offset)
<1>1. Size(buf) \in Nat /\ offset \in Nat /\ Word \in Nat /\ Size(buf) < Word
  BY DEF CallOK, Cut, Size
<1> PICK d \in Int : d = Size(buf) - offset
  BY <1>1
<1>2. d % Word \in Nat
  BY <1>1
<1>3. ASSUME offset <= Size(buf)  PROVE d % Word = d
  <2>1. d \in Nat /\ d < Word
    BY <1>1, <1>3
  <2> QED
    BY <1>1, <2>1
<1> QED
  BY <1>2, <1>3 DEF Left

\* Nothing is left to do, or the cursor stands at the start of iovec i.
AtIovec == /\ i \in 1 .. vec.n + 1
           /\ totallen <= vec.at[i - 1]
           /\ \/ Exhausted /\ sl_offset = buf.n
              \/ Exhausted /\ sl_first = buf.n + 1
              \/ /\ totallen = vec.at[i - 1]
                 /\ sl_offset = sl_first - 1
                 /\ Cursor(sl_first)

AtSegment == /\ i \in 1 .. vec.n
             /\ \/ /\ Exhausted /\ sl_offset = buf.n /\ j = 0
                   /\ totallen <= vec.at[i - 1]
                \/ /\ sl = sl_offset + 1 + j
                   /\ iov_base_offset <= Part(vec, i)
                   /\ totallen = vec.at[i - 1] + iov_base_offset
                   /\ Cursor(sl) \/ (Exhausted /\ sl = buf.n + 1)

Position ==
    /\ pc \in {"call", "seek"} => i = 1 /\ totallen = 0 /\ iov_base_offset = 0
    /\ pc = "plain"   => AtPlain
    /\ pc = "iovec"   => AtIovec
    /\ pc = "segment" => AtSegment

Done == /\ pc # "done" => retval = "none"
        /\ AllCopied /\ WholeCommand

\* Past its check, the announced length is that of the buffer.
Announced == pc \in {"iovec", "segment"} => ~ Mismatch

IInv == CallOK /\ LocalsOK /\ InPlace /\ Position /\ Announced /\ Done

LEMMA Initially == Init => IInv
<1> SUFFICES ASSUME Init PROVE IInv
  OBVIOUS
<1> USE CopyAssumption
<1>1. Cut(buf) /\ Cut(vec)
  BY CutsAre DEF Init
<1>2. CallOK
  <2>1. Size(buf) <= MaxBuf /\ Size(buf) \in Nat
    <3>1. Size(buf) <= MaxBuf
      BY CutsAre DEF Init
    <3> QED
      BY <1>1, <3>1 DEF Cut, Size
  <2>2. Size(buf) < Word
    BY <2>1
  <2> QED
    BY <1>1, <2>2 DEF Init, CallOK
<1>3. LocalsOK
  BY DEF Init, LocalsOK
<1>4. InPlace
  <2>1. Size(vec) \in Nat
    BY <1>1 DEF Cut, Size
  <2> QED
    BY <2>1 DEF Init, InPlace
<1>5. Position
  BY DEF Init, Position
<1>6. Done /\ Announced
  BY DEF Init, Done, AllCopied, WholeCommand, Announced
<1> QED
  BY <1>2, <1>3, <1>4, <1>5, <1>6 DEF IInv

\* len bytes more, from where the copy stands, are in place.
LEMMA CopyInPlace ==
    ASSUME CallOK, LocalsOK, InPlace, NEW from, NEW len \in Nat,
           Copy(from, len), UNCHANGED callVars,
           from = offset + totallen, vec.at[i - 1] + iov_base_offset = totallen,
           totallen + len <= Size(vec), Within => offset + (totallen + len) <= Size(buf)
    PROVE  InPlace' /\ totallen' = totallen + len
<1>1. offset \in Nat /\ totallen \in Nat /\ offset' = offset /\ buf' = buf /\ vec' = vec
  BY DEF CallOK, LocalsOK, callVars
<1>2. totallen' = totallen + len
  BY DEF Copy
<1>3. moved' = moved \union {<<(offset + totallen) + x, totallen + x>> : x \in 0 .. len - 1}
  BY DEF Copy
<1>4. moved = Pairs(offset, totallen)
  BY DEF InPlace, Pairs
<1>5. moved' = Pairs(offset, totallen + len)
  <2>1. Pairs(offset, totallen + len)
            = Pairs(offset, totallen) \union More(offset, totallen, len)
    BY <1>1, PairsGrow
  <2> QED
    BY <1>3, <1>4, <2>1 DEF More
<1>6. moved' = {<<offset' + x, x>> : x \in 0 .. totallen' - 1}
  BY <1>1, <1>2, <1>5 DEF Pairs
<1>7. totallen' <= Size(vec') /\ (Within' => offset' + totallen' <= Size(buf'))
  BY <1>1, <1>2 DEF Within, callVars
<1> QED
  BY <1>2, <1>6, <1>7 DEF InPlace

\* What a call that only goes on must keep.
LEMMA StillRunning ==
    ASSUME IInv, pc' # "done", retval' = retval, retval = "none"
    PROVE  Done'
BY DEF Done, AllCopied, WholeCommand

LEMMA CallKept ==
    ASSUME IInv, UNCHANGED callVars
    PROVE  CallOK'
<1>1. CallOK
  BY DEF IInv
<1>2. buf' = buf /\ vec' = vec /\ offset' = offset /\ data_type' = data_type
  BY DEF callVars
<1> QED
  BY <1>1, <1>2 DEF CallOK, Cut, Size

LEMMA MovedKept ==
    ASSUME IInv, UNCHANGED <<callVars, totallen, moved>>
    PROVE  InPlace'
BY DEF IInv, InPlace, Within, callVars, Size

LEMMA DispatchStep == IInv /\ Dispatch => IInv'
<1> SUFFICES ASSUME IInv, Dispatch PROVE IInv'
  OBVIOUS
<1>1. CallOK' /\ InPlace'
  BY CallKept, MovedKept DEF Dispatch
<1>2. LocalsOK /\ CallOK /\ pc = "call" /\ retval = "none"
  BY DEF IInv, Dispatch, Done
<1>3. i = 1 /\ totallen = 0 /\ iov_base_offset = 0
  BY <1>2 DEF IInv, Position
<1>4. buf' = buf /\ vec' = vec /\ offset' = offset /\ i' = i /\ totallen' = totallen
      /\ iov_base_offset' = iov_base_offset
  BY DEF Dispatch, callVars
<1>5. CASE ~ Permitted
  <2>1. pc' = "done" /\ retval' = "EACCES" /\ left_len' = left_len
    BY <1>5 DEF Dispatch, Return
  <2>2. LocalsOK'
    BY <1>2, <2>1 DEF Dispatch, LocalsOK
  <2>3. Position' /\ Announced' /\ Done'
    BY <2>1 DEF Position, Announced, Done, AllCopied, WholeCommand
  <2> QED
    BY <1>1, <2>2, <2>3 DEF IInv
<1>6. CASE Permitted /\ data_type = "DATA"
  <2>1. pc' = "seek" /\ retval' = retval /\ left_len' = left_len
    BY <1>6 DEF Dispatch
  <2>2. LocalsOK'
    BY <1>2, <2>1 DEF Dispatch, LocalsOK
  <2>3. Position' /\ Announced'
    BY <1>3, <1>4, <2>1 DEF Position, Announced
  <2>4. Done'
    BY <1>2, <2>1, StillRunning
  <2> QED
    BY <1>1, <2>2, <2>3, <2>4 DEF IInv
<1>7. CASE Permitted /\ data_type # "DATA"
  <2>1. pc' = "plain" /\ retval' = retval /\ left_len' = Left
    BY <1>7 DEF Dispatch
  <2>2. Left \in Nat
    BY <1>2, LeftIs
  <2>3. Size(buf) \in Nat /\ vec.n \in Nat /\ vec.at[0] = 0
    BY <1>2 DEF CallOK, Cut, Size
  <2>4. left_len' \in Nat /\ left_len' + totallen = Left
    BY <1>3, <2>1, <2>2
  <2>5. LocalsOK'
    BY <1>2, <2>4 DEF Dispatch, LocalsOK
  <2>6. AtPlain'
    <3>1. 1 \in 1 .. vec.n + 1 /\ vec.at[1 - 1] = 0
      BY <2>3
    <3>2. Left' = Left /\ data_type' # "DATA"
      BY <1>4, <1>7 DEF Dispatch, callVars, Left, Size
    <3> QED
      BY <1>3, <1>4, <2>4, <3>1, <3>2 DEF AtPlain
  <2>7. Position' /\ Announced'
    BY <2>1, <2>6 DEF Position, Announced
  <2>8. Done'
    BY <1>2, <2>1, StillRunning
  <2> QED
    BY <1>1, <2>5, <2>7, <2>8 DEF IInv
<1> QED
  BY <1>5, <1>6, <1>7

LEMMA FaultStep == IInv /\ Fault => IInv'
<1> SUFFICES ASSUME IInv, Fault PROVE IInv'
  OBVIOUS
<1>1. CallOK' /\ InPlace'
  BY CallKept, MovedKept DEF Fault
<1>2. LocalsOK'
  BY DEF IInv, Fault, LocalsOK
<1>3. pc' = "done" /\ retval' = "EFAULT"
  BY DEF Fault, Return
<1>4. Position' /\ Announced' /\ Done'
  BY <1>3 DEF Position, Announced, Done, AllCopied, WholeCommand
<1> QED
  BY <1>1, <1>2, <1>4 DEF IInv

\* The iovecs in a row.
LEMMA VecAt ==
    ASSUME IInv, i <= vec.n
    PROVE  /\ i \in 1 .. vec.n /\ i + 1 \in 1 .. vec.n + 1 /\ (i + 1) - 1 = i
           /\ vec.at[i - 1] \in Nat /\ vec.at[i] \in Nat /\ Part(vec, i) \in Nat
           /\ vec.at[i - 1] + Part(vec, i) = vec.at[i] /\ vec.at[i] <= Size(vec)
<1>1. i \in Nat \ {0} /\ Cut(vec) /\ vec.n \in Nat
  BY DEF IInv, LocalsOK, CallOK, Cut
<1>2. i \in 1 .. vec.n
  BY <1>1
<1>3. /\ vec.at[i - 1] \in Nat /\ vec.at[i] \in Nat /\ Part(vec, i) \in Nat
      /\ vec.at[i - 1] + Part(vec, i) = vec.at[i] /\ vec.at[i] <= Size(vec)
  BY <1>1, <1>2, Parts
<1> QED
  BY <1>1, <1>2, <1>3

LEMMA PlainStep == IInv /\ Plain => IInv'
<1> SUFFICES ASSUME IInv, Plain PROVE IInv'
  OBVIOUS
<1>1. CallOK /\ CallOK' /\ LocalsOK /\ InPlace /\ AtPlain /\ retval = "none"
  BY CallKept DEF IInv, Plain, Position, Done
<1>2. /\ buf' = buf /\ vec' = vec /\ offset' = offset
      /\ iov_base_offset' = iov_base_offset /\ data_type' = data_type /\ UNCHANGED callVars
  BY DEF Plain, callVars
<1>3. CASE i <= vec.n /\ left_len > 0
  <2> DEFINE len == Least(Part(vec, i), left_len)
  <2>1. /\ Copy(offset + totallen, len) /\ left_len' = left_len - len
        /\ i' = i + 1 /\ pc' = pc /\ retval' = retval
    BY <1>3 DEF Plain
  <2>2. left_len \in Nat /\ offset \in Nat /\ totallen \in Nat /\ Size(buf) \in Nat
    BY <1>1 DEF LocalsOK, CallOK, Cut, Size
  <2>3. len \in Nat /\ len <= left_len /\ len <= Part(vec, i)
        /\ (left_len - len > 0 => len = Part(vec, i))
    BY <1>3, <2>2, VecAt DEF Least
  <2>4. /\ left_len + totallen = Left /\ totallen = vec.at[i - 1]
        /\ iov_base_offset = 0 /\ data_type # "DATA"
    BY <1>1, <1>3 DEF AtPlain
  <2> HIDE DEF len
  <2>5. ASSUME Within  PROVE offset + (totallen + len) <= Size(buf)
    <3>1. left_len + totallen = Size(buf) - offset
      BY <1>1, <2>4, <2>5, LeftIs DEF Within
    <3> QED
      BY <2>2, <2>3, <3>1
  <2>6. /\ vec.at[i - 1] + iov_base_offset = totallen /\ totallen + len <= vec.at[i]
        /\ totallen + len <= Size(vec)
    <3>1. /\ Part(vec, i) \in Nat /\ vec.at[i] \in Nat /\ Size(vec) \in Nat
          /\ vec.at[i - 1] + Part(vec, i) = vec.at[i] /\ vec.at[i] <= Size(vec)
      <4>1. Size(vec) \in Nat
        BY <1>1 DEF CallOK, Cut, Size
      <4> QED
        BY <1>3, <4>1, VecAt
    <3> QED
      BY <2>2, <2>3, <2>4, <3>1
  <2>7. InPlace' /\ totallen' = totallen + len
    BY <1>1, <1>2, <2>1, <2>3, <2>5, <2>6, CopyInPlace
  <2>8. LocalsOK'
    <3>1. totallen' \in Nat /\ left_len' \in Nat /\ i' \in Nat \ {0}
      BY <1>1, <2>1, <2>2, <2>3, <2>7 DEF LocalsOK
    <3> QED
      BY <1>1, <3>1 DEF LocalsOK, Plain
  <2>9. AtPlain'
    <3>1. i' \in 1 .. vec'.n + 1 /\ vec'.at[i' - 1] = vec.at[i]
      BY <1>2, <1>3, <2>1, VecAt
    <3>2. left_len' + totallen' = Left'
      <4>1. Left' = Left
        BY <1>2 DEF Left, Size
      <4> QED
        BY <2>1, <2>2, <2>3, <2>4, <2>7, <4>1
    <3>3. totallen' <= vec'.at[i' - 1]
      BY <2>6, <2>7, <3>1
    <3>4. left_len' > 0 => totallen' = vec'.at[i' - 1]
      <4>1. ASSUME left_len' > 0  PROVE totallen' = vec.at[i]
        BY <1>3, <2>1, <2>3, <2>4, <2>7, <4>1, VecAt
      <4> QED
        BY <3>1, <4>1
    <3> QED
      BY <1>1, <1>2, <2>4, <3>1, <3>2, <3>3, <3>4 DEF AtPlain
  <2>10. Position' /\ Announced' /\ Done'
    <3>1. pc' = "plain"
      BY <2>1 DEF Plain
    <3>2. Position' /\ Announced'
      BY <2>9, <3>1 DEF Position, Announced
    <3> QED
      BY <1>1, <2>1, <3>1, <3>2, StillRunning
  <2> QED
    BY <1>1, <2>7, <2>8, <2>10 DEF IInv
<1>4. CASE ~ (i <= vec.n /\ left_len > 0)
  <2>1. /\ pc' = "done" /\ retval' = "OK"
        /\ UNCHANGED <<i, left_len, totallen, moved>>
    BY <1>4 DEF Plain, Return
  <2>2. InPlace' /\ LocalsOK'
    BY <1>1, <1>2, <2>1, MovedKept DEF Plain, LocalsOK
  <2>3. ASSUME Within  PROVE totallen = Least(Size(buf) - offset, Size(vec))
    <3>1. /\ i \in 1 .. vec.n + 1 /\ left_len + totallen = Size(buf) - offset
          /\ totallen <= vec.at[i - 1] /\ (left_len > 0 => totallen = vec.at[i - 1])
      BY <1>1, <2>3, LeftIs DEF AtPlain, Within
    <3>2. /\ left_len \in Nat /\ offset \in Nat /\ totallen \in Nat /\ vec.n \in Nat
          /\ Size(buf) \in Nat /\ Size(vec) \in Nat /\ Size(vec) = vec.at[vec.n]
      BY <1>1 DEF LocalsOK, CallOK, Cut, Size
    <3>3. vec.at[i - 1] <= vec.at[vec.n] /\ vec.at[i - 1] \in Nat
      <4>1. i - 1 \in 0 .. vec.n /\ vec.n \in 0 .. vec.n /\ i - 1 <= vec.n
        BY <3>1, <3>2
      <4> QED
        BY <1>1, <4>1 DEF CallOK, Cut
    <3>4. CASE left_len = 0
      <4>1. totallen = Size(buf) - offset /\ totallen <= Size(vec)
        BY <3>1, <3>2, <3>3, <3>4
      <4> QED
        BY <4>1 DEF Least
    <3>5. CASE left_len > 0
      <4>1. i = vec.n + 1
        BY <1>4, <3>1, <3>2, <3>5
      <4>2. i - 1 = vec.n
        BY <3>2, <4>1
      <4>3. totallen = Size(vec) /\ totallen < Size(buf) - offset
        BY <3>1, <3>2, <3>5, <4>2
      <4> QED
        BY <3>2, <4>3 DEF Least
    <3> QED
      BY <3>2, <3>4, <3>5
  <2>4. data_type' # "DATA"
    BY <1>1, <1>2 DEF AtPlain
  <2>5. AllCopied'
    BY <1>2, <2>1, <2>3 DEF AllCopied, Within, Size
  <2>6. Position' /\ Announced' /\ Done'
    BY <2>1, <2>4, <2>5 DEF Position, Announced, Done, WholeCommand
  <2> QED
    BY <1>1, <2>2, <2>6 DEF IInv
<1> QED
  BY <1>3, <1>4

LEMMA SeekStep == IInv /\ Seek => IInv'
<1> SUFFICES ASSUME IInv, Seek PROVE IInv'
  OBVIOUS
<1>1. CallOK /\ CallOK' /\ LocalsOK /\ InPlace' /\ retval = "none"
  BY CallKept, MovedKept DEF IInv, Seek, Done
<1>2. /\ buf' = buf /\ vec' = vec /\ offset' = offset /\ i' = i /\ i = 1
      /\ totallen' = totallen /\ totallen = 0
  BY DEF IInv, Position, Seek, callVars
<1>3. CASE offset < Size(buf) /\ vec.n # 0
  <2>1. PICK k \in 1 .. buf.n :
            /\ buf.at[k - 1] <= offset /\ offset < buf.at[k]
            /\ left_len' = buf.at[k] - offset
            /\ sl_first' = k /\ sl_offset' = k - 1
            /\ IF Mismatch THEN Return("EIO") ELSE pc' = "iovec" /\ UNCHANGED retval
    BY <1>3 DEF Seek
  <2>2. /\ buf.at[k - 1] \in Nat /\ buf.at[k] \in Nat /\ Part(buf, k) \in Nat
        /\ buf.at[k - 1] + Part(buf, k) = buf.at[k]
    BY <1>1, Parts DEF CallOK
  <2>3. /\ offset \in Nat /\ left_len' \in Nat /\ left_len' > 0
        /\ left_len' <= Part(buf, k) /\ k - 1 \in Nat /\ k \in Nat \ {0}
    BY <1>1, <2>1, <2>2 DEF CallOK
  <2>4. LocalsOK'
    BY <1>1, <1>2, <2>1, <2>3 DEF LocalsOK, Seek
  <2>5. Cursor(sl_first)'
    <3>1. offset' + totallen' = buf.at[k] - left_len'
      BY <1>2, <2>1, <2>2, <2>3
    <3>2. Part(buf', k) = Part(buf, k)
      BY <1>2
    <3> QED
      BY <1>2, <2>1, <2>3, <3>1, <3>2 DEF Cursor
  <2>6. AtIovec'
    <3>1. i' \in 1 .. vec'.n + 1 /\ totallen' = vec'.at[i' - 1]
      BY <1>1, <1>2 DEF CallOK, Cut
    <3>2. totallen' <= vec'.at[i' - 1] /\ sl_offset' = sl_first' - 1
      BY <1>2, <2>1, <3>1
    <3> QED
      BY <2>5, <3>1, <3>2 DEF AtIovec
  <2>7. CASE Mismatch
    <3>1. pc' = "done" /\ retval' = "EIO"
      BY <2>1, <2>7 DEF Return
    <3>2. Position' /\ Announced' /\ Done'
      BY <3>1 DEF Position, Announced, Done, AllCopied, WholeCommand
    <3> QED
      BY <1>1, <2>4, <3>2 DEF IInv
  <2>8. CASE ~ Mismatch
    <3>1. pc' = "iovec" /\ retval' = retval
      BY <2>1, <2>8
    <3>2. ~ Mismatch'
      BY <1>2, <2>8 DEF Mismatch, Seek, callVars
    <3>3. Position' /\ Announced' /\ Done'
      BY <1>1, <2>6, <3>1, <3>2, StillRunning DEF Position, Announced
    <3> QED
      BY <1>1, <2>4, <3>3 DEF IInv
  <2> QED
    BY <2>7, <2>8
<1>4. CASE ~ (offset < Size(buf) /\ vec.n # 0)
  <2>1. /\ pc' = "done" /\ retval' = "EINVAL"
        /\ UNCHANGED <<sl_first, sl_offset, left_len>>
    BY <1>4 DEF Seek, Return
  <2>2. LocalsOK'
    BY <1>1, <1>2, <2>1 DEF LocalsOK, Seek
  <2>3. Position' /\ Announced' /\ Done'
    BY <2>1 DEF Position, Announced, Done, AllCopied, WholeCommand
  <2> QED
    BY <1>1, <2>2, <2>3 DEF IInv
<1> QED
  BY <1>3, <1>4

\* A copy that stops between two iovecs has copied all there was.
LEMMA NothingLeft ==
    ASSUME CallOK, LocalsOK, AtIovec, ~ (i <= vec.n /\ sl_first <= buf.n)
    PROVE  totallen = Least(Size(buf) - offset, Size(vec))
<1>1. /\ offset \in Nat /\ totallen \in Nat /\ vec.n \in Nat /\ buf.n \in Nat
      /\ Size(buf) \in Nat /\ Size(vec) \in Nat /\ Size(vec) = vec.at[vec.n]
  BY DEF LocalsOK, CallOK, Cut, Size
<1>2. i \in 1 .. vec.n + 1 /\ totallen <= vec.at[i - 1]
  BY DEF AtIovec
<1>3. vec.at[i - 1] \in Nat /\ vec.at[i - 1] <= Size(vec)
  <2>1. i - 1 \in 0 .. vec.n /\ vec.n \in 0 .. vec.n /\ i - 1 <= vec.n
    BY <1>1, <1>2
  <2> QED
    BY <1>1, <2>1 DEF CallOK, Cut
<1>4. CASE Exhausted
  <2>1. totallen = Size(buf) - offset /\ totallen <= Size(vec)
    BY <1>1, <1>2, <1>3, <1>4 DEF Exhausted
  <2> QED
    BY <2>1 DEF Least
<1>5. CASE totallen = vec.at[i - 1] /\ Cursor(sl_first)
  <2>1. sl_first \in 1 .. buf.n
    BY <1>5 DEF Cursor
  <2>2. i = vec.n + 1
    BY <1>1, <1>2, <2>1
  <2>3. i - 1 = vec.n
    BY <1>1, <2>2
  <2>4. totallen = Size(vec)
    BY <1>1, <1>5, <2>3
  <2>5. /\ buf.at[sl_first] \in Nat /\ buf.at[sl_first - 1] \in Nat
        /\ buf.at[sl_first] <= Size(buf) /\ Part(buf, sl_first) \in Nat
        /\ buf.at[sl_first - 1] + Part(buf, sl_first) = buf.at[sl_first]
    BY <2>1, Parts DEF CallOK
  <2>6. offset + totallen <= Size(buf)
    <3>1. offset + totallen = IF left_len > 0 THEN buf.at[sl_first] - left_len
                                              ELSE buf.at[sl_first - 1]
      BY <1>5 DEF Cursor
    <3>2. left_len \in Nat
      BY DEF LocalsOK
    <3> QED
      BY <1>1, <2>5, <3>1, <3>2
  <2> QED
    BY <1>1, <2>4, <2>6 DEF Least
<1> QED
  BY <1>4, <1>5 DEF AtIovec

LEMMA NextIovecStep == IInv /\ NextIovec => IInv'
<1> SUFFICES ASSUME IInv, NextIovec PROVE IInv'
  OBVIOUS
<1>1. CallOK /\ CallOK' /\ LocalsOK /\ InPlace' /\ AtIovec /\ retval = "none"
  BY CallKept, MovedKept DEF IInv, NextIovec, Position, Done
<1>2. /\ buf' = buf /\ vec' = vec /\ offset' = offset /\ i' = i
      /\ totallen' = totallen /\ left_len' = left_len /\ sl_offset' = sl_offset
      /\ sl_first' = sl_first /\ rw' = rw /\ total_iovec_len' = total_iovec_len
      /\ data_type' = data_type
  BY DEF NextIovec, callVars
<1>3. CASE i <= vec.n /\ sl_first <= buf.n
  <2>1. /\ pc' = "segment" /\ sl' = sl_first /\ j' = 0 /\ iov_base_offset' = 0
        /\ retval' = retval
    BY <1>3 DEF NextIovec
  <2>2. LocalsOK'
    BY <1>1, <1>2, <2>1 DEF LocalsOK
  <2>3. i \in 1 .. vec.n /\ Part(vec, i) \in Nat /\ vec.at[i - 1] \in Nat
    BY <1>3, VecAt
  <2>4. AtSegment'
    <3>1. CASE Exhausted /\ sl_offset = buf.n
      <4>1. Exhausted' /\ sl_offset' = buf'.n /\ j' = 0
        BY <1>2, <2>1, <3>1 DEF Exhausted
      <4>2. totallen' <= vec'.at[i' - 1] /\ i' \in 1 .. vec'.n
        BY <1>1, <1>2, <2>3 DEF AtIovec
      <4> QED
        BY <4>1, <4>2 DEF AtSegment
    <3>2. CASE Exhausted /\ sl_first = buf.n + 1
      <4>1. buf.n \in Nat
        BY <1>1 DEF CallOK, Cut
      <4> QED
        BY <1>3, <3>2, <4>1
    <3>3. CASE totallen = vec.at[i - 1] /\ sl_offset = sl_first - 1 /\ Cursor(sl_first)
      <4>1. sl' = sl_offset' + 1 + j'
        BY <1>1, <1>2, <2>1, <3>3 DEF LocalsOK
      <4>2. Cursor(sl)'
        BY <1>2, <2>1, <3>3 DEF Cursor, Part
      <4>3. /\ i' \in 1 .. vec'.n /\ iov_base_offset' <= Part(vec', i')
            /\ totallen' = vec'.at[i' - 1] + iov_base_offset'
        BY <1>2, <2>1, <2>3, <3>3
      <4> QED
        BY <4>1, <4>2, <4>3 DEF AtSegment
    <3> QED
      BY <1>1, <3>1, <3>2, <3>3 DEF AtIovec
  <2>5. ~ Mismatch'
    BY <1>2 DEF IInv, Announced, Mismatch, NextIovec
  <2>6. Position' /\ Announced' /\ Done'
    BY <1>1, <2>1, <2>4, <2>5, StillRunning DEF Position, Announced
  <2> QED
    BY <1>1, <2>2, <2>6 DEF IInv
<1>4. CASE ~ (i <= vec.n /\ sl_first <= buf.n)
  <2>1. /\ pc' = "done" /\ retval' = (IF Short THEN "EIO" ELSE "OK")
        /\ UNCHANGED <<sl, j, iov_base_offset>>
    BY <1>4 DEF NextIovec, Return
  <2>2. LocalsOK'
    BY <1>1, <1>2, <2>1 DEF LocalsOK
  <2>3. totallen = Least(Size(buf) - offset, Size(vec))
    BY <1>1, <1>4, NothingLeft
  <2>4. AllCopied'
    <3>1. Size(buf') = Size(buf) /\ Size(vec') = Size(vec)
      BY <1>2
    <3> QED
      BY <1>2, <2>3, <3>1 DEF AllCopied
  <2>5. WholeCommand'
    <3>1. ASSUME retval' = "OK", rw  PROVE totallen = total_iovec_len
      BY <2>1, <3>1 DEF Short
    <3>2. ASSUME rw, data_type = "DATA"  PROVE Size(buf) = total_iovec_len
      BY <3>2 DEF IInv, Announced, NextIovec, Mismatch
    <3> QED
      BY <1>2, <3>1, <3>2 DEF WholeCommand, Size
  <2>6. Position' /\ Announced' /\ Done'
    BY <2>1, <2>4, <2>5 DEF Position, Announced, Done
  <2> QED
    BY <1>1, <2>2, <2>6 DEF IInv
<1> QED
  BY <1>3, <1>4

\* The loop over the segments ends: the buffer is copied to its end.
LEMMA SegmentsEnd ==
    ASSUME IInv, Segment, ~ (j < buf.n - sl_offset)
    PROVE  IInv'
<1>1. CallOK /\ CallOK' /\ LocalsOK /\ AtSegment /\ retval = "none"
  BY CallKept DEF IInv, Segment, Position, Done
<1>2. /\ pc' = "iovec" /\ i' = i + 1 /\ sl_offset' = sl_offset + j
      /\ UNCHANGED <<callVars, retval, sl, j, sl_first, left_len, iov_base_offset,
                     totallen, moved>>
  BY DEF Segment, Break
<1>3. buf' = buf /\ vec' = vec /\ offset' = offset /\ totallen' = totallen
  BY <1>2 DEF callVars
<1>4. InPlace'
  BY <1>2, MovedKept
<1>5. LocalsOK'
  BY <1>1, <1>2 DEF LocalsOK
<1>6. i \in 1 .. vec.n /\ i <= vec.n
  BY <1>1 DEF AtSegment, CallOK, Cut
<1>7. /\ i + 1 \in 1 .. vec.n + 1 /\ (i + 1) - 1 = i
      /\ vec.at[i - 1] \in Nat /\ vec.at[i] \in Nat /\ Part(vec, i) \in Nat
      /\ vec.at[i - 1] + Part(vec, i) = vec.at[i]
  BY <1>6, VecAt
<1>8. /\ buf.n \in Nat /\ sl_offset \in Nat /\ j \in Nat /\ totallen \in Nat
      /\ iov_base_offset \in Nat
  BY <1>1 DEF CallOK, Cut, LocalsOK
<1>9. Exhausted /\ sl_offset + j = buf.n /\ totallen <= vec.at[i]
  <2>1. CASE /\ Exhausted /\ sl_offset = buf.n /\ j = 0
             /\ totallen <= vec.at[i - 1]
    BY <1>7, <1>8, <2>1
  <2>2. CASE /\ sl = sl_offset + 1 + j
             /\ iov_base_offset <= Part(vec, i)
             /\ totallen = vec.at[i - 1] + iov_base_offset
             /\ Cursor(sl) \/ (Exhausted /\ sl = buf.n + 1)
    <3>1. ~ Cursor(sl)
      BY <1>8, <2>2 DEF Cursor
    <3>2. sl_offset + j = buf.n
      BY <1>8, <2>2, <3>1
    <3>3. totallen <= vec.at[i]
      BY <1>7, <1>8, <2>2
    <3> QED
      BY <2>2, <3>1, <3>2, <3>3
  <2> QED
    BY <1>1, <2>1, <2>2 DEF AtSegment
<1>10. AtIovec'
  <2>1. Exhausted' /\ sl_offset' = buf'.n
    BY <1>2, <1>3, <1>9 DEF Exhausted
  <2>2. i' \in 1 .. vec'.n + 1 /\ totallen' <= vec'.at[i' - 1]
    BY <1>2, <1>3, <1>7, <1>9
  <2> QED
    BY <2>1, <2>2 DEF AtIovec
<1>11. Position' /\ Announced' /\ Done'
  <2>1. Announced'
    BY <1>2 DEF IInv, Announced, Mismatch, Segment, callVars
  <2> QED
    BY <1>1, <1>2, <1>10, <2>1, StillRunning DEF Position
<1> QED
  BY <1>1, <1>4, <1>5, <1>11 DEF IInv

\* The lengths of one turn.
Turn(len, rest) ==
    /\ len \in Nat
    /\ (offset + totallen) + len <= buf.at[sl]
    /\ iov_base_offset + len <= Part(vec, i)
    /\ rest = (buf.at[sl] - (offset + totallen)) - (Part(vec, i) - iov_base_offset)
    /\ rest > 0 => /\ iov_base_offset + len = Part(vec, i)
                   /\ buf.at[sl] - (offset + (totallen + len)) = rest
                   /\ rest <= Part(buf, sl)
    /\ ~ (rest > 0) => offset + (totallen + len) = buf.at[sl]

LEMMA TurnFacts ==
    ASSUME CallOK, LocalsOK, i \in 1 .. vec.n, Cursor(sl),
           iov_base_offset <= Part(vec, i),
           NEW len, len = Least(Part(buf, sl) - DataOffset, Part(vec, i) - iov_base_offset),
           NEW rest, rest = (Part(buf, sl) - (DataOffset + len))
                               - (Part(vec, i) - (iov_base_offset + len))
    PROVE  /\ buf.at[sl - 1] + DataOffset = offset + totallen
           /\ Turn(len, rest)
<1>1. /\ buf.at[sl - 1] \in Nat /\ buf.at[sl] \in Nat /\ Part(buf, sl) \in Nat
      /\ buf.at[sl - 1] + Part(buf, sl) = buf.at[sl]
  BY Parts DEF CallOK, Cursor
<1>2. Part(vec, i) \in Nat
  BY Parts DEF CallOK
<1>3. /\ offset \in Nat /\ totallen \in Nat /\ left_len \in Nat
      /\ iov_base_offset \in Nat
  BY DEF CallOK, LocalsOK
<1>4. left_len <= Part(buf, sl)
      /\ offset + totallen = IF left_len > 0 THEN buf.at[sl] - left_len
                                             ELSE buf.at[sl - 1]
  BY DEF Cursor
<1>5. DataOffset = IF left_len > 0 THEN Part(buf, sl) - left_len ELSE 0
  BY <1>4 DEF DataOffset
<1>6. /\ DataOffset \in Nat /\ DataOffset <= Part(buf, sl)
      /\ buf.at[sl - 1] + DataOffset = offset + totallen
  BY <1>1, <1>3, <1>4, <1>5
<1> DEFINE a == Part(buf, sl) - DataOffset
           b == Part(vec, i) - iov_base_offset
<1>7. a \in Nat /\ b \in Nat /\ a = buf.at[sl] - (offset + totallen)
  BY <1>1, <1>2, <1>3, <1>6
<1>8. len \in Nat /\ len <= a /\ len <= b /\ (a > b => len = b) /\ (~ (a > b) => len = a)
  BY <1>7 DEF Least
<1>9. rest = a - b
  BY <1>1, <1>2, <1>3, <1>6, <1>8
<1>10. a <= Part(buf, sl)
  BY <1>1, <1>6
<1> HIDE DEF a
<1>11. /\ (offset + totallen) + len <= buf.at[sl]
       /\ iov_base_offset + len <= Part(vec, i)
  BY <1>1, <1>2, <1>3, <1>7, <1>8
<1>12. rest = (buf.at[sl] - (offset + totallen)) - (Part(vec, i) - iov_base_offset)
  BY <1>7, <1>9
<1>13. ASSUME rest > 0
       PROVE  /\ iov_base_offset + len = Part(vec, i)
              /\ buf.at[sl] - (offset + (totallen + len)) = rest
              /\ rest <= Part(buf, sl)
  <2>1. a > b
    BY <1>7, <1>9, <1>13
  <2> QED
    BY <1>1, <1>2, <1>3, <1>7, <1>8, <1>9, <1>10, <2>1
<1>14. ASSUME ~ (rest > 0)  PROVE offset + (totallen + len) = buf.at[sl]
  <2>1. ~ (a > b)
    BY <1>7, <1>9, <1>14
  <2> QED
    BY <1>1, <1>3, <1>7, <1>8, <2>1
<1> QED
  BY <1>6, <1>8, <1>11, <1>12, <1>13, <1>14 DEF Turn

\* Between segment k and the next one, nothing of segment k + 1 is copied.
LEMMA NextSegment ==
    ASSUME CallOK, CallOK', UNCHANGED callVars, NEW k \in 1 .. buf.n,
           left_len' = 0, offset' + totallen' = buf.at[k]
    PROVE  Cursor(k + 1)' \/ (Exhausted' /\ k + 1 = buf'.n + 1)
<1>1. buf' = buf /\ buf.n \in Nat
  BY DEF callVars, CallOK, Cut
<1>2. CASE k = buf.n
  BY <1>1, <1>2 DEF Exhausted, Size
<1>3. CASE k # buf.n
  <2>1. k + 1 \in 1 .. buf.n /\ (k + 1) - 1 = k
    BY <1>1, <1>3
  <2>2. Part(buf, k + 1) \in Nat
    BY <2>1, Parts DEF CallOK
  <2> QED
    BY <1>1, <2>1, <2>2 DEF Cursor
<1> QED
  BY <1>2, <1>3

\* One turn of the loop over the segments.
LEMMA SegmentTurn ==
    ASSUME IInv, Segment, j < buf.n - sl_offset
    PROVE  IInv'
<1> DEFINE len  == Least(Part(buf, sl) - DataOffset, Part(vec, i) - iov_base_offset)
           to   == iov_base_offset + len
           rest == (Part(buf, sl) - (DataOffset + len)) - (Part(vec, i) - to)
<1>1. CallOK /\ CallOK' /\ LocalsOK /\ InPlace /\ AtSegment /\ retval = "none"
      /\ pc = "segment"
  BY CallKept DEF IInv, Segment, Position, Done
<1>2. /\ Copy(buf.at[sl - 1] + DataOffset, len)
      /\ iov_base_offset' = to
      /\ left_len' = IF Unfinished(rest) THEN rest ELSE 0
      /\ IF Unfinished(rest)
         THEN sl_first' = sl /\ Break(j) /\ UNCHANGED <<sl, j>>
         ELSE IF to >= Part(vec, i)
         THEN sl_first' = sl + 1 /\ Break(j + 1) /\ UNCHANGED <<sl, j>>
         ELSE sl' = sl + 1 /\ j' = j + 1 /\ UNCHANGED <<pc, i, sl_first, sl_offset>>
      /\ UNCHANGED <<callVars, retval>>
  BY DEF Segment
<1>3. /\ buf' = buf /\ vec' = vec /\ offset' = offset /\ retval' = retval
      /\ rw' = rw /\ total_iovec_len' = total_iovec_len
  BY <1>2 DEF callVars
<1>4. /\ buf.n \in Nat /\ sl_offset \in Nat /\ j \in Nat /\ sl \in Nat \ {0}
      /\ totallen \in Nat /\ iov_base_offset \in Nat /\ offset \in Nat /\ left_len \in Nat
  BY <1>1 DEF CallOK, Cut, LocalsOK
<1>5. i \in 1 .. vec.n /\ i <= vec.n
  BY <1>1 DEF AtSegment, CallOK, Cut
<1>6. /\ i + 1 \in 1 .. vec.n + 1 /\ (i + 1) - 1 = i /\ i + 1 \in Nat \ {0}
      /\ vec.at[i - 1] \in Nat /\ vec.at[i] \in Nat /\ Part(vec, i) \in Nat
      /\ vec.at[i - 1] + Part(vec, i) = vec.at[i] /\ vec.at[i] <= Size(vec)
  BY <1>1, <1>5, VecAt DEF LocalsOK
<1>7. /\ sl = sl_offset + 1 + j
      /\ iov_base_offset <= Part(vec, i)
      /\ totallen = vec.at[i - 1] + iov_base_offset
      /\ Cursor(sl)
  <2>1. ~ (sl_offset = buf.n /\ j = 0)
    BY <1>4
  <2>2. ~ (sl = buf.n + 1 /\ sl = sl_offset + 1 + j)
    BY <1>4
  <2> QED
    BY <1>1, <2>1, <2>2 DEF AtSegment
<1>8. buf.at[sl - 1] + DataOffset = offset + totallen /\ Turn(len, rest)
  BY <1>1, <1>5, <1>7, TurnFacts
<1> HIDE DEF len, rest
<1>9. /\ sl \in 1 .. buf.n /\ buf.at[sl] \in Nat /\ buf.at[sl - 1] \in Nat
      /\ buf.at[sl] <= Size(buf) /\ Size(buf) \in Nat /\ Size(vec) \in Nat
      /\ Part(buf, sl) \in Nat
  <2>1. sl \in 1 .. buf.n /\ Cut(buf) /\ Cut(vec)
    BY <1>1, <1>7 DEF CallOK, Cursor
  <2>2. Size(vec) \in Nat
    BY <2>1 DEF Cut, Size
  <2> QED
    BY <2>1, <2>2, Parts
<1>10. /\ len \in Nat /\ (offset + totallen) + len <= buf.at[sl]
       /\ to <= Part(vec, i) /\ rest \in Int
       /\ (rest > 0 => /\ to = Part(vec, i) /\ rest <= Part(buf, sl)
                       /\ buf.at[sl] - (offset + (totallen + len)) = rest)
       /\ (~ (rest > 0) => offset + (totallen + len) = buf.at[sl])
  BY <1>4, <1>6, <1>8, <1>9 DEF Turn
<1>11. InPlace' /\ totallen' = totallen + len
  <2>1. /\ offset + (totallen + len) <= Size(buf) /\ totallen + len <= Size(vec)
        /\ vec.at[i - 1] + iov_base_offset = totallen
    BY <1>4, <1>6, <1>7, <1>9, <1>10
  <2> QED
    BY <1>1, <1>2, <1>8, <1>10, <2>1, CopyInPlace
<1>12. totallen' = vec.at[i - 1] + to /\ to \in Nat /\ totallen' \in Nat
  BY <1>4, <1>6, <1>7, <1>10, <1>11
<1>13. Announced'
  BY <1>1, <1>3 DEF IInv, Announced, Mismatch
<1>14. CASE rest > 0
  <2>1. /\ sl_first' = sl /\ pc' = "iovec" /\ i' = i + 1 /\ sl_offset' = sl_offset + j
        /\ sl' = sl /\ j' = j /\ left_len' = rest
    BY <1>2, <1>14 DEF Unfinished, Break
  <2>2. LocalsOK'
    BY <1>2, <1>4, <1>6, <1>10, <1>12, <1>14, <2>1 DEF LocalsOK
  <2>3. totallen' = vec'.at[i' - 1] /\ i' \in 1 .. vec'.n + 1
    BY <1>3, <1>6, <1>10, <1>12, <1>14, <2>1
  <2>4. Cursor(sl_first)'
    <3>1. offset + totallen' = buf.at[sl] - rest
      BY <1>4, <1>9, <1>10, <1>11, <1>14
    <3> QED
      BY <1>3, <1>9, <1>10, <1>14, <2>1, <3>1 DEF Cursor, Part
  <2>5. sl_offset' = sl_first' - 1
    BY <1>4, <1>7, <2>1
  <2>6. AtIovec'
    BY <1>12, <2>3, <2>4, <2>5 DEF AtIovec
  <2>7. Position' /\ Done'
    BY <1>1, <1>3, <2>1, <2>6, StillRunning DEF Position
  <2> QED
    BY <1>1, <1>11, <1>13, <2>2, <2>7 DEF IInv
<1>15. CASE ~ (rest > 0)
  <2>1. left_len' = 0 /\ iov_base_offset' = to
    BY <1>2, <1>15 DEF Unfinished
  <2> PICK k \in 1 .. buf.n : k = sl
    BY <1>9
  <2>2. Cursor(k + 1)' \/ (Exhausted' /\ k + 1 = buf'.n + 1)
    <3>1. offset' + totallen' = buf.at[k]
      BY <1>3, <1>10, <1>11, <1>15
    <3>2. UNCHANGED callVars
      BY <1>2
    <3> QED
      BY <1>1, <2>1, <3>1, <3>2, NextSegment
  <2>3. CASE to >= Part(vec, i)
    <3>1. /\ sl_first' = sl + 1 /\ pc' = "iovec" /\ i' = i + 1
          /\ sl_offset' = sl_offset + (j + 1) /\ sl' = sl /\ j' = j
      BY <1>2, <1>15, <2>3 DEF Unfinished, Break
    <3>2. LocalsOK'
      BY <1>4, <1>6, <1>12, <2>1, <3>1 DEF LocalsOK
    <3>3. totallen' = vec'.at[i' - 1] /\ i' \in 1 .. vec'.n + 1
      BY <1>3, <1>6, <1>10, <1>12, <2>3, <3>1
    <3>4. sl_offset' = sl_first' - 1
      BY <1>4, <1>7, <3>1
    <3>5. Cursor(sl_first)' \/ (Exhausted' /\ sl_first' = buf'.n + 1)
      BY <2>2, <3>1 DEF Cursor
    <3>6. AtIovec'
      BY <1>12, <3>3, <3>4, <3>5 DEF AtIovec
    <3>7. Position' /\ Done'
      BY <1>1, <1>3, <3>1, <3>6, StillRunning DEF Position
    <3> QED
      BY <1>1, <1>11, <1>13, <3>2, <3>7 DEF IInv
  <2>4. CASE ~ (to >= Part(vec, i))
    <3>1. /\ sl' = sl + 1 /\ j' = j + 1 /\ pc' = pc /\ i' = i
          /\ sl_first' = sl_first /\ sl_offset' = sl_offset
      BY <1>2, <1>15, <2>4 DEF Unfinished
    <3>2. LocalsOK'
      BY <1>1, <1>4, <1>12, <2>1, <3>1 DEF LocalsOK
    <3>3. sl' = sl_offset' + 1 + j'
      BY <1>4, <1>7, <3>1
    <3>4. /\ i' \in 1 .. vec'.n /\ iov_base_offset' <= Part(vec', i')
          /\ totallen' = vec'.at[i' - 1] + iov_base_offset'
      BY <1>3, <1>5, <1>10, <1>12, <2>1, <3>1
    <3>5. Cursor(sl)' \/ (Exhausted' /\ sl' = buf'.n + 1)
      BY <2>2, <3>1 DEF Cursor
    <3>6. AtSegment'
      BY <3>3, <3>4, <3>5 DEF AtSegment
    <3>7. Position' /\ Done'
      BY <1>1, <1>3, <3>1, <3>6, StillRunning DEF Position
    <3> QED
      BY <1>1, <1>11, <1>13, <3>2, <3>7 DEF IInv
  <2> QED
    BY <2>3, <2>4
<1> QED
  BY <1>14, <1>15

(***************************************************************************)
(* The theorems.                                                           *)
(***************************************************************************)

LEMMA Inductive == IInv /\ [Next]_vars => IInv'
<1> SUFFICES ASSUME IInv, [Next]_vars PROVE IInv'
  OBVIOUS
<1>1. CASE Dispatch
  BY <1>1, DispatchStep
<1>2. CASE Fault
  BY <1>2, FaultStep
<1>3. CASE Plain
  BY <1>3, PlainStep
<1>4. CASE Seek
  BY <1>4, SeekStep
<1>5. CASE NextIovec
  BY <1>5, NextIovecStep
<1>6. CASE Segment
  BY <1>6, SegmentsEnd, SegmentTurn
<1>7. CASE UNCHANGED vars
  <2>1. UNCHANGED <<callVars, totallen, moved, retval, pc>>
    BY <1>7 DEF vars
  <2>2. CallOK' /\ InPlace'
    BY <2>1, CallKept, MovedKept
  <2>3. LocalsOK'
    BY <1>7 DEF IInv, LocalsOK, vars
  <2>4. Position'
    BY <1>7 DEF IInv, Position, AtPlain, AtIovec, AtSegment, Cursor, Exhausted,
                Left, Part, Size, vars, callVars
  <2>5. Announced' /\ Done'
    BY <1>7 DEF IInv, Announced, Mismatch, Done, AllCopied, Within, WholeCommand, Size,
                vars, callVars
  <2> QED
    BY <2>2, <2>3, <2>4, <2>5 DEF IInv
<1> QED
  BY <1>1, <1>2, <1>3, <1>4, <1>5, <1>6, <1>7 DEF Next

LEMMA Standing == Spec => []IInv
<1>1. Init => IInv
  BY Initially
<1>2. IInv /\ [Next]_vars => IInv'
  BY Inductive
<1> QED
  BY <1>1, <1>2, PTL DEF Spec

\* Whatever the sizes of the segments and iovecs, and wherever the copy starts,
\* byte offset + x of the command goes with byte x of the iovecs, and no byte beyond
\* the iovecs is touched; none beyond the buffer as long as the offset the target
\* gives for a CDB or sense data, which nothing checks, is not beyond its end.
THEOREM CopiedInPlace == Spec => []InPlace
<1>1. IInv => InPlace
  BY DEF IInv
<1> QED
  BY <1>1, Standing, PTL

\* A copy that ends well, from an offset within the buffer, ends because one of the
\* two sides is at its end.
THEOREM CopiedAll == Spec => []AllCopied
<1>1. IInv => AllCopied
  BY DEF IInv, Done
<1> QED
  BY <1>1, Standing, PTL

\* A READ or WRITE is never answered after a copy of a part of its data that
\* was reported as good.
THEOREM CommandsWhole == Spec => []WholeCommand
<1>1. IInv => WholeCommand
  BY DEF IInv, Done
<1> QED
  BY <1>1, Standing, PTL
=============================================================================
