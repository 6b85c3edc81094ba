------------------------------- MODULE VscCopy -------------------------------
(***************************************************************************)
(* The copy between a command and the target (vsc_xfer_data): its CDB is     *)
(* read, its sense data written, and its data read or written, from an       *)
(* offset on.  The target's side is a vector of iovecs, the data of the      *)
(* command a scatter list, and the two are cut at unrelated places.          *)
(*                                                                         *)
(* Memory is cut into parts: part k covers the bytes at[k-1] .. at[k]-1.  A  *)
(* behaviour is one call; an action is one turn of one of the code's loops.  *)
(* The functions that copy to and from the target differ in the direction    *)
(* only.  Lengths are below 2^31; the offset is any __u32 the target gives.  *)
(***************************************************************************)
EXTENDS Integers

CONSTANTS
    MaxSegs, MaxBuf,    \* bounds: segments of a buffer, and its bytes
    MaxIovs, MaxVec,    \* bounds: iovecs of a message, and their bytes
    Word                \* 2^32: the range of an unsigned int

ASSUME CopyAssumption == /\ {MaxSegs, MaxBuf, MaxIovs, MaxVec, Word} \subseteq Nat
                         /\ MaxBuf < Word

VARIABLES
    \* the call: memory of the command, struct vsc_scsi_data, direction, and
    \* whether the command is a READ or WRITE
    buf, vec, total_iovec_len, offset, data_type, mode, rw,
    \* locals of the call; sl and sl_first are numbers of segments, the first
    \* being 1 and the end of the list n + 1
    pc, i, sl_first, sl, sl_offset, j, left_len, iov_base_offset, totallen,
    \* the value returned, and the pairs of bytes copied so far
    retval, moved

callVars == <<buf, vec, total_iovec_len, offset, data_type, mode, rw>>
vars == <<callVars, pc, i, sl_first, sl, sl_offset, j, left_len,
          iov_base_offset, totallen, retval, moved>>

\* The ways to cut at most m bytes into at most n parts.
Cuts(n, m) == UNION {{[n |-> k, at |-> f] : f \in
    {g \in [0 .. k -> 0 .. m] : g[0] = 0 /\ \A x, y \in 0 .. k : x <= y => g[x] <= g[y]}}
      : k \in 0 .. n}

Size(m)   == m.at[m.n]
Part(m, k) == m.at[k] - m.at[k - 1]
Least(x, y) == IF x <= y THEN x ELSE y

Init ==
    /\ buf \in Cuts(MaxSegs, MaxBuf) /\ vec \in Cuts(MaxIovs, MaxVec)
    /\ data_type \in {"CDB", "DATA", "SENSE"} /\ mode \in {"READ", "WRITE"}
    /\ rw \in BOOLEAN /\ total_iovec_len \in 0 .. MaxVec
    /\ ~ rw => total_iovec_len = Size(vec)
    /\ offset \in 0 .. Word - 1
    /\ pc = "call" /\ i = 1 /\ sl_first = 1 /\ sl = 1 /\ sl_offset = 0 /\ j = 0
    /\ left_len = 0 /\ iov_base_offset = 0 /\ totallen = 0
    /\ retval = "none" /\ moved = {}

Return(v) == pc' = "done" /\ retval' = v

\* len bytes are copied between the command's byte from on and the current
\* iovec; copy_to_user or copy_from_user may fail.
Copy(from, len) ==
    /\ moved' = moved \union {<<from + x, vec.at[i - 1] + iov_base_offset + x>>
                                 : x \in 0 .. len - 1}
    /\ totallen' = totallen + len

(***************************************************************************)
(* vsc_xfer_data.                                                          *)
(***************************************************************************)

\* A CDB is only read, sense data only written.
Permitted == CASE data_type = "CDB"   -> mode = "READ"
               [] data_type = "SENSE" -> mode = "WRITE"
               [] data_type = "DATA"  -> TRUE

\* left_len -= offset, in an unsigned int: the offset into a CDB or sense data is
\* not compared with its length.
Left == (Size(buf) - offset) % Word

Dispatch ==
    /\ pc = "call"
    /\ IF ~ Permitted THEN Return("EACCES") /\ UNCHANGED left_len
       ELSE IF data_type = "DATA"
       THEN pc' = "seek" /\ UNCHANGED <<left_len, retval>>
       ELSE pc' = "plain" /\ left_len' = Left /\ UNCHANGED retval
    /\ UNCHANGED <<callVars, i, sl_first, sl, sl_offset, j, iov_base_offset,
                   totallen, moved>>

Fault ==
    /\ pc \in {"plain", "segment"}
    /\ Return("EFAULT")
    /\ UNCHANGED <<callVars, i, sl_first, sl, sl_offset, j, left_len,
                   iov_base_offset, totallen, moved>>

(***************************************************************************)
(* vsc_copy_data_to_iovec and vsc_copy_data_from_iovec.                     *)
(***************************************************************************)

Plain ==
    /\ pc = "plain"
    /\ IF i <= vec.n /\ left_len > 0
       THEN LET copy_len == Least(Part(vec, i), left_len) IN
            /\ Copy(offset + totallen, copy_len)
            /\ left_len' = left_len - copy_len
            /\ i' = i + 1
            /\ UNCHANGED <<pc, retval>>
       ELSE Return("OK") /\ UNCHANGED <<i, left_len, totallen, moved>>
    /\ UNCHANGED <<callVars, sl_first, sl, sl_offset, j, iov_base_offset>>

(***************************************************************************)
(* vsc_copy_sg_buff_to_iovec and vsc_copy_sg_buff_from_iovec.               *)
(***************************************************************************)

\* mutant: the target may announce any length.
Mismatch_Ignored == FALSE

\* The length the target announces for a READ or WRITE is that of the buffer.
Mismatch == rw /\ Size(buf) # total_iovec_len

\* The segment of the first byte is sought; without one sg_next has given NULL.
Seek ==
    /\ pc = "seek"
    /\ IF offset < Size(buf) /\ vec.n # 0
       THEN \E k \in 1 .. buf.n :
            /\ buf.at[k - 1] <= offset /\ offset < buf.at[k]
            /\ left_len' = buf.at[k] - offset
            /\ sl_first' = k /\ sl_offset' = k - 1
            /\ IF Mismatch THEN Return("EIO") ELSE pc' = "iovec" /\ UNCHANGED retval
       ELSE Return("EINVAL") /\ UNCHANGED <<sl_first, sl_offset, left_len>>
    /\ UNCHANGED <<callVars, i, sl, j, iov_base_offset, totallen, moved>>

\* A READ or WRITE that was not copied to the announced length fails.
Short == rw /\ totallen # total_iovec_len

\* The loop over the iovecs ends with them, or with the segments.
NextIovec ==
    /\ pc = "iovec"
    /\ IF i <= vec.n /\ sl_first <= buf.n
       THEN /\ pc' = "segment" /\ sl' = sl_first /\ j' = 0 /\ iov_base_offset' = 0
            /\ UNCHANGED retval
       ELSE /\ Return(IF Short THEN "EIO" ELSE "OK")
            /\ UNCHANGED <<sl, j, iov_base_offset>>
    /\ UNCHANGED <<callVars, i, sl_first, sl_offset, left_len, totallen, moved>>

\* mutant: every segment is copied from its start.
DataOffset_Start == 0

\* The position in the current segment.
DataOffset == IF left_len > 0 /\ left_len <= Part(buf, sl)
              THEN Part(buf, sl) - left_len ELSE 0

\* mutant: the unfinished segment is counted as done.
Break_Counted(n) == pc' = "iovec" /\ i' = i + 1 /\ sl_offset' = sl_offset + n + 1

\* The next iovec; n segments of the current turn are behind.
Break(n) == pc' = "iovec" /\ i' = i + 1 /\ sl_offset' = sl_offset + n

\* A segment that an iovec did not exhaust is gone on with.
Unfinished(rest) == rest > 0

\* One turn of the loop over the segments.
Segment ==
    /\ pc = "segment"
    /\ IF j < buf.n - sl_offset
       THEN LET copy_len == Least(Part(buf, sl) - DataOffset,
                                  Part(vec, i) - iov_base_offset)
                to   == iov_base_offset + copy_len
                rest == (Part(buf, sl) - (DataOffset + copy_len)) - (Part(vec, i) - to)
            IN
            /\ Copy(buf.at[sl - 1] + DataOffset, copy_len)
            /\ iov_base_offset' = to
            /\ left_len' = IF Unfinished(rest) THEN rest ELSE 0
            /\ IF Unfinished(rest)
               THEN sl_first' = sl /\ Break(j) /\ UNCHANGED <<sl, j>>
               ELSE IF to >= Part(vec, i)
               THEN sl_first' = sl + 1 /\ Break(j + 1) /\ UNCHANGED <<sl, j>>
               ELSE sl' = sl + 1 /\ j' = j + 1
                    /\ UNCHANGED <<pc, i, sl_first, sl_offset>>
       ELSE Break(j) /\ UNCHANGED <<sl, j, sl_first, left_len, iov_base_offset,
                                    totallen, moved>>
    /\ UNCHANGED <<callVars, retval>>

Next == \/ Dispatch \/ Fault \/ Plain
        \/ Seek \/ NextIovec \/ Segment

Spec == Init /\ [][Next]_vars

-----------------------------------------------------------------------------
(***************************************************************************)
(* Properties.                                                             *)
(***************************************************************************)

\* The offset lies in the buffer, which the code checks for data only.
Within == data_type = "DATA" \/ offset <= Size(buf)

\* However buffer and iovecs are cut, byte offset + x of the command goes with
\* byte x of the iovecs, each byte once, and no byte outside the iovecs is touched;
\* none outside the buffer either, unless the target gives an offset beyond the end
\* of a CDB or of sense data, which the code leaves to the target.
InPlace ==
    /\ moved = {<<offset + x, x>> : x \in 0 .. totallen - 1}
    /\ totallen <= Size(vec)
    /\ totallen > 0 /\ Within => offset + totallen <= Size(buf)

\* A copy that ends well has copied all there was from the offset on, or filled the
\* iovecs.
AllCopied == retval = "OK" /\ Within
                => totallen = Least(Size(buf) - offset, Size(vec))

\* A READ or WRITE whose copy ends well was copied whole, in this one call.
WholeCommand == (retval = "OK" /\ rw /\ data_type = "DATA")
                    => totallen = Size(buf)
=============================================================================
