-------------------------- MODULE CaptureLogProofs --------------------------
(***************************************************************************)
(* Proofs about the captured log, for a ring, chunks, frames and lines of  *)
(* any size.                                                               *)
(*                                                                         *)
(* EveryGapMarked needs that the position the sink takes itself to have    *)
(* reached is the cursor: then what eviction took before the next read is  *)
(* exactly what is reported.  DownloadWhole needs that nothing is appended *)
(* while the capture is frozen, so that the offset into the ring remains   *)
(* the distance between its oldest byte and the next to be sent.           *)
(***************************************************************************)
EXTENDS CaptureLog, TLAPS

RingInv ==
  /\ total \in Nat /\ oldest \in 0..total
  /\ ends \subseteq (oldest + 1)..total
  /\ late \in Lines \union {NoLine}
  /\ enabled \in BOOLEAN /\ resume \in BOOLEAN

ReadInv ==
  /\ cursor \in 0..total /\ heard \in Nat /\ started \in BOOLEAN
  /\ started => heard = cursor
  /\ gap = FALSE

Frozen ==
  /\ enabled = FALSE /\ mode = "cursor"
  /\ off <= Held /\ fetched = oldest + off /\ until = total

StreamInv ==
  /\ streaming \in BOOLEAN /\ intruded \in BOOLEAN /\ off \in Nat
  /\ streaming /\ ~intruded => Frozen
  /\ torn = FALSE

IInv == RingInv /\ ReadInv /\ StreamInv

USE CaptureAssumption DEF CaptureAssumption, role

-----------------------------------------------------------------------------
(* The ring. *)

\* membership in a range, for the provers
LEMMA Between ==
  ASSUME NEW lo \in Nat, NEW hi \in Nat, NEW e \in Nat, lo < e, e <= hi
  PROVE  e \in (lo + 1)..hi
OBVIOUS

\* append() leaves the oldest byte inside the ring and holds newlines of what it holds
\* only, so that the numbers of the readers keep their meaning.
LEMMA AppendKeepsRing ==
  ASSUME RingInv, NEW line \in Lines, AppendLine(line)
  PROVE  /\ total' \in Nat /\ oldest' \in 0..total' /\ ends' \subseteq (oldest' + 1)..total'
         /\ total < total'
<1>1. line.len \in Nat \ {0} /\ total' = total + line.len /\ total' \in Nat /\ total < total'
  BY DEF RingInv, AppendLine
<1> DEFINE need == total' - RingBytes
<1>2. need \in Int /\ need <= total'
  BY <1>1
<1>3. oldest' \in Evicted(need)
  BY DEF AppendLine
<1>4. oldest' \in 0..total'
  <2>1. CASE oldest >= need
    BY <1>1, <1>3, <2>1 DEF Evicted, RingInv
  <2>2. CASE ~(oldest >= need) /\ {e \in ends : e >= need} # {}
    BY <1>1, <1>3, <2>2 DEF Evicted, First, RingInv
  <2>3. CASE ~(oldest >= need) /\ {e \in ends : e >= need} = {}
    BY <1>1, <1>2, <1>3, <2>3 DEF Evicted, RingInv
  <2> QED BY <2>1, <2>2, <2>3
<1>5. ends' \subseteq (oldest' + 1)..total'
  <2>1. ASSUME NEW e \in ends'
        PROVE  e \in (oldest' + 1)..total'
    <3>1. CASE e \in ends /\ e > oldest'
      <4>1. e \in Nat /\ e <= total /\ total \in Nat
        BY <3>1 DEF RingInv
      <4>2. e \in Nat /\ oldest' \in Nat /\ total' \in Nat /\ oldest' < e /\ e <= total'
        BY <1>1, <1>4, <3>1, <4>1
      <4> QED BY <4>2, Between
    <3>2. CASE e = total' /\ line.ended
      <4>1. oldest' < total'
        BY <1>1, <1>3 DEF Evicted, First, RingInv
      <4> QED BY <1>1, <1>4, <3>2, <4>1
    <3> QED BY <2>1, <3>1, <3>2 DEF AppendLine
  <2> QED BY <2>1
<1> QED BY <1>1, <1>4, <1>5

\* A read ends at or after where it begins, and not past the end.
LEMMA ReadsAhead ==
  ASSUME RingInv, NEW from \in oldest..total, NEW size \in Nat, NEW next \in WholeLines(from, size)
  PROVE  next \in from..total
<1> DEFINE limit == from + Least(total - from, size)
           boundaries == {e \in ends : from < e /\ e <= limit}
<1>1. limit \in from..total
  BY DEF RingInv, Least
<1>2. CASE boundaries # {}
  BY <1>1, <1>2 DEF WholeLines, Last, RingInv
<1>3. CASE boundaries = {}
  BY <1>1, <1>3 DEF WholeLines
<1> QED BY <1>2, <1>3

-----------------------------------------------------------------------------
(* The parts of the invariant, over the steps that can disturb them. *)

\* A line appended while nothing is frozen.
LEMMA AppendKeepsInv ==
  ASSUME IInv, NEW line \in Lines, AppendLine(line), UNCHANGED <<readVars, enabled, resume>>,
         late' \in Lines \union {NoLine},
         streaming' = streaming, off' = off, torn' = torn, intruded' \in BOOLEAN,
         streaming => intruded'
  PROVE  IInv'
<1>1. RingInv'
  BY AppendKeepsRing DEF IInv, RingInv
<1>2. ReadInv'
  BY AppendKeepsRing DEF IInv, RingInv, ReadInv, readVars
<1>3. StreamInv'
  BY DEF IInv, StreamInv
<1> QED BY <1>1, <1>2, <1>3 DEF IInv

\* A pass of the forwarder.
LEMMA ServiceKeepsInv ==
  ASSUME IInv, service
  PROVE  IInv'
<1> USE DEF IInv
<1>1. CASE mode = "cursor"
  <2> DEFINE from == IF cursor < oldest THEN oldest ELSE cursor
  <2>1. from \in oldest..total
    BY DEF RingInv, ReadInv
  <2>2. PICK next \in WholeLines(from, ChunkBytes) :
          /\ cursor' = next /\ started' = TRUE
          /\ heard' = IF started THEN heard + Lost + (next - from) ELSE next
          /\ gap' = (gap \/ (started /\ next # from /\ heard + Lost # from))
          /\ UNCHANGED bufferVars
    BY <1>1 DEF service, ReadFrom
  <2>3. next \in from..total
    BY <2>1, ReadsAhead
  <2>4. started => heard + Lost = from
    BY <2>1 DEF Lost, RingInv, ReadInv
  <2>5. heard' = next /\ gap' = FALSE
    <3>1. heard + Lost \in Nat
      BY DEF Lost, RingInv, ReadInv
    <3>2. CASE started
      <4>1. heard + Lost + (next - from) = next
        BY <2>1, <2>3, <2>4, <3>2 DEF RingInv
      <4> QED BY <2>2, <2>4, <3>2, <4>1 DEF ReadInv
    <3>3. CASE ~started
      BY <2>2, <3>3 DEF ReadInv
    <3> QED BY <3>2, <3>3 DEF ReadInv
  <2>6. ReadInv'
    BY <2>1, <2>2, <2>3, <2>5 DEF ReadInv, RingInv, bufferVars
  <2>7. RingInv' /\ StreamInv'
    BY <2>2 DEF service, RingInv, StreamInv, Frozen, Held, bufferVars, switchVars, streamVars
  <2> QED BY <2>6, <2>7
<1>2. CASE mode # "cursor"
  <2>1. PICK next \in WholeLines(oldest, ChunkBytes) :
          /\ oldest' = next /\ ends' = {e \in ends : e > next}
          /\ UNCHANGED <<total, readVars>>
    BY <1>2 DEF service, consume
  <2>2. next \in oldest..total
    BY ReadsAhead DEF RingInv
  <2>3. ASSUME NEW e \in ends'
        PROVE  e \in (oldest' + 1)..total'
    <3>1. e \in ends /\ e > next
      BY <2>1
    <3>2. e \in Nat /\ e <= total /\ next \in Nat /\ total \in Nat
      BY <2>2, <3>1 DEF RingInv
    <3>3. e \in Nat /\ oldest' < e /\ e <= total' /\ oldest' \in Nat /\ total' \in Nat
      BY <2>1, <3>1, <3>2
    <3> QED BY <3>3, Between
  <2>4. total' \in Nat /\ oldest' \in 0..total' /\ ends' \subseteq (oldest' + 1)..total'
    <3>1. total' = total /\ oldest' = next
      BY <2>1
    <3>2. total' \in Nat /\ oldest' \in 0..total'
      BY <2>2, <3>1 DEF RingInv
    <3> QED BY <2>3, <3>2
  <2>5. RingInv'
    BY <2>4 DEF service, RingInv, switchVars, streamVars
  <2>6. ReadInv'
    BY <2>1 DEF ReadInv, readVars
  <2>7. StreamInv'
    BY <1>2 DEF service, StreamInv, Frozen, switchVars, streamVars
  <2> QED BY <2>5, <2>6, <2>7
<1> QED BY <1>1, <1>2

\* A frame of the download.
LEMMA SendKeepsInv ==
  ASSUME IInv, NEW accepted \in BOOLEAN, SendChunk(accepted)
  PROVE  IInv'
<1> USE DEF IInv
<1> DEFINE n == Least(Held - off, FrameBytes)
<1>1. n \in Nat /\ off + n <= Held /\ Held \in Nat
  BY DEF SendChunk, Least, Held, RingInv, StreamInv
<1>2. RingInv' /\ ReadInv'
  BY DEF SendChunk, RingInv, ReadInv, bufferVars, switchVars, readVars
<1>3. off' \in Nat
  BY <1>1 DEF SendChunk, Offset, StreamInv
<1>4. torn' = FALSE
  BY DEF SendChunk, StreamInv, Frozen
<1>5. ASSUME ~intruded
      PROVE  Frozen'
  <2>1. Frozen
    BY <1>5 DEF SendChunk, StreamInv
  <2>2. CASE accepted
    <3>1. off' = off + n /\ fetched' = oldest + off + n
      BY <2>2 DEF SendChunk, Offset
    <3> QED BY <1>1, <2>1, <3>1 DEF SendChunk, Frozen, Held, bufferVars, switchVars, RingInv, StreamInv
  <2>3. CASE ~accepted
    BY <2>1, <2>3 DEF SendChunk, Offset, Frozen, Held, bufferVars, switchVars
  <2> QED BY <2>2, <2>3
<1>6. StreamInv'
  BY <1>3, <1>4, <1>5 DEF SendChunk, StreamInv
<1> QED BY <1>2, <1>6

\* The end of a download: everything has been sent when the offset is at the ring's end.
LEMMA EndKeepsInv ==
  ASSUME IInv, FinishDownload \/ AbandonDownload
  PROVE  IInv'
<1> USE DEF IInv
<1>1. EndStream /\ torn' = FALSE
  <2>1. CASE FinishDownload
    <3>1. ~intruded => fetched = until
      BY <2>1 DEF FinishDownload, EndStream, StreamInv, Frozen, Held, RingInv
    <3> QED BY <2>1, <3>1 DEF FinishDownload, StreamInv
  <2>2. CASE AbandonDownload
    BY <2>2 DEF AbandonDownload, StreamInv
  <2> QED BY <2>1, <2>2
<1>2. RingInv' /\ ReadInv'
  BY <1>1 DEF EndStream, RingInv, ReadInv, bufferVars, readVars
<1>3. StreamInv'
  BY <1>1 DEF EndStream, StreamInv
<1> QED BY <1>2, <1>3

LEMMA InitInv == CaptureInit => IInv
<1> SUFFICES ASSUME CaptureInit
             PROVE  IInv
  OBVIOUS
<1>1. total = 0 /\ oldest = 0 /\ ends = {} /\ cursor = 0 /\ heard = 0 /\ off = 0
  BY DEF CaptureInit
<1>2. /\ total \in Nat /\ oldest \in 0..total /\ ends \subseteq (oldest + 1)..total
      /\ cursor \in 0..total /\ heard \in Nat /\ off \in Nat
  BY <1>1
<1>3. RingInv
  BY <1>2 DEF CaptureInit, RingInv
<1>4. ReadInv /\ StreamInv
  BY <1>2 DEF CaptureInit, ReadInv, StreamInv
<1> QED BY <1>3, <1>4 DEF IInv

LEMMA NextInv == IInv /\ [CaptureNext]_captureVars => IInv'
<1> SUFFICES ASSUME IInv, [CaptureNext]_captureVars
             PROVE  IInv'
  OBVIOUS
<1> USE DEF IInv
<1>1. ASSUME NEW line \in Lines, LogLine(line)
      PROVE  IInv'
  <2>1. streaming => intruded
    BY <1>1 DEF LogLine, StreamInv, Frozen
  <2> QED BY <1>1, <2>1, AppendKeepsInv DEF LogLine, switchVars, streamVars, RingInv, StreamInv
<1>2. ASSUME NEW line \in Lines, FormatLine(line)
      PROVE  IInv'
  BY <1>2 DEF FormatLine, RingInv, ReadInv, StreamInv, Frozen, Held, bufferVars, readVars, streamVars
<1>3. CASE LateLine
  <2>1. late \in Lines
    BY <1>3 DEF LateLine, RingInv
  <2>2. intruded' \in BOOLEAN /\ (streaming => intruded')
    BY <1>3 DEF LateLine, StreamInv
  <2> QED BY <1>3, <2>1, <2>2, AppendKeepsInv DEF LateLine
<1>4. ASSUME NEW on \in BOOLEAN, setCaplogCapture(on)
      PROVE  IInv'
  <2>1. CASE streaming
    BY <1>4, <2>1 DEF setCaplogCapture, Switched, RingInv, ReadInv, StreamInv, Frozen, Held, bufferVars, readVars
  <2>2. CASE ~streaming
    BY <1>4, <2>2 DEF setCaplogCapture, Switched, RingInv, ReadInv, StreamInv, bufferVars, readVars
  <2> QED BY <2>1, <2>2
<1>5. ASSUME NEW accepted \in BOOLEAN, SendChunk(accepted)
      PROVE  IInv'
  BY <1>5, SendKeepsInv
<1>6. CASE Erase
  BY <1>6 DEF Erase, clear, RingInv, ReadInv, StreamInv, switchVars, readVars, streamVars
<1>7. CASE arm \/ disarm
  <2>1. UNCHANGED <<role, bufferVars, switchVars, readVars, streamVars>>
    BY <1>7 DEF arm, disarm
  <2>2. RingInv' /\ ReadInv'
    BY <2>1 DEF RingInv, ReadInv, bufferVars, switchVars, readVars, streamVars
  <2>3. StreamInv'
    BY <2>1 DEF StreamInv, Frozen, Held, bufferVars, switchVars, streamVars
  <2> QED BY <2>2, <2>3
<1>8. CASE service
  BY <1>8, ServiceKeepsInv
<1>9. CASE StartDownload
  <2>1. RingInv' /\ ReadInv'
    BY <1>9 DEF StartDownload, RingInv, ReadInv, bufferVars, readVars
  <2>2. Frozen'
    BY <1>9 DEF StartDownload, RingInv, Frozen, Held, bufferVars
  <2>3. StreamInv'
    BY <1>9, <2>2 DEF StartDownload, StreamInv
  <2> QED BY <2>1, <2>3
<1>10. CASE FinishDownload \/ AbandonDownload
  BY <1>10, EndKeepsInv
<1>11. CASE UNCHANGED captureVars
  BY <1>11 DEF captureVars, bufferVars, switchVars, readVars, streamVars, RingInv, ReadInv, StreamInv, Frozen, Held
<1> QED
  BY <1>1, <1>2, <1>3, <1>4, <1>5, <1>6, <1>7, <1>8, <1>9, <1>10, <1>11 DEF CaptureNext

LEMMA Invariance == CaptureSpec => []IInv
  BY InitInv, NextInv, PTL DEF CaptureSpec

-----------------------------------------------------------------------------
\* The sink misses or repeats nothing unmarked, whatever is logged, evicted and erased
\* between two passes of the forwarder.
THEOREM GapsMarked == CaptureSpec => []EveryGapMarked
<1>1. IInv => EveryGapMarked
  BY DEF IInv, ReadInv, EveryGapMarked
<1> QED BY <1>1, Invariance, PTL

\* A download that no late line comes into is the frozen ring, each byte once.
THEOREM DownloadsWhole == CaptureSpec => []DownloadWhole
<1>1. IInv => DownloadWhole
  BY DEF IInv, StreamInv, DownloadWhole
<1> QED BY <1>1, Invariance, PTL
=============================================================================
