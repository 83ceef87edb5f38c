----------------------------- MODULE CaptureLog -----------------------------
(***************************************************************************)
(* The captured log (src/src/CaptureRing.cpp behind src/src/MeshLog.cpp),  *)
(* its forwarding to a syslog sink (src/src/helpers/CaplogForward.cpp) and *)
(* its download by the app (examples/companion_radio/MyMesh.cpp).          *)
(*                                                                         *)
(* The ring is locked for each operation, so that an operation is a step;  *)
(* the main loop calls all of them except that any task may log a line.    *)
(* A byte is its position, counted from the first ever appended; the ring  *)
(* is the position of its oldest byte and those after its newlines.  Lines *)
(* and chunks are a few bytes.  A node forwards in one of two modes, and   *)
(* only the cursor mode's is also downloaded from.  Level filters, mirrors *)
(* and wording are left out, deadlines may pass at any time, and while the *)
(* link is down service() does nothing.                                    *)
(***************************************************************************)
EXTENDS Integers

CONSTANTS
  RingBytes,     \* OFFBAND_CAPLOG_RING_BYTES
  ChunkBytes,    \* kChunkBytes, read by a pass of the forwarder
  FrameBytes,    \* maxFramePayload(), a frame of the download
  Lines,         \* the lines logged: their length, and whether the newline was
                 \* kept (mesh_log_line() cuts long ones)
  MaxTotal       \* bound of the model: bytes appended

NoLine == [len |-> 0, ended |-> FALSE]

ASSUME CaptureAssumption ==
  /\ RingBytes \in Nat \ {0} /\ ChunkBytes \in Nat \ {0} /\ FrameBytes \in Nat \ {0}
  /\ Lines \subseteq [len : Nat \ {0}, ended : BOOLEAN] /\ MaxTotal \in Nat

VARIABLES
  mode,                       \* "cursor" or "consume"
  identified,                 \* identity_ is not empty: setIdentity() came before service()
  total, oldest, ends,        \* totalAppended(), oldestPosition(), newlines held
  enabled, late,              \* g_meshLogEnabled; a line another task is formatting
  open,                       \* a window is open, bounded or until off: armed_
  announce, captureSeen, captureOn,
  cursor, started,
  streaming, off, resume,     \* the download: _caplog_streaming, _off and _resume
  \* History: what the sink takes the capture to be and the position it takes itself to
  \* have reached, whether bytes were repeated or skipped unmarked; of a download its
  \* position, its end and whether a late line came in, and whether any that none came
  \* into was torn.
  told, heard, gap,
  fetched, until, intruded, torn

role == <<mode, identified>>
bufferVars == <<total, oldest, ends>>
switchVars == <<enabled, late>>
windowVars == <<open, announce, captureSeen, captureOn>>
readVars == <<cursor, started, heard, gap>>
streamVars == <<streaming, off, resume, fetched, until, intruded, torn>>
captureVars == <<role, bufferVars, switchVars, windowVars, readVars, streamVars, told>>

-----------------------------------------------------------------------------
(* CaptureRing *)

Held == total - oldest

First(S) == {e \in S : \A f \in S : e <= f}
Last(S) == {e \in S : \A f \in S : e >= f}

\* append() drops whole lines, the oldest first, until `need' is the oldest byte or
\* gone, and only what it must where no newline is held.
Evicted(need) ==
  LET boundaries == {e \in ends : e >= need}
  IN IF oldest >= need THEN {oldest}
     ELSE IF boundaries # {} THEN First(boundaries) ELSE {need}

AppendLine(line) ==
  /\ total + line.len <= MaxTotal
  /\ total' = total + line.len
  /\ oldest' \in Evicted(total' - RingBytes)
  /\ ends' = {e \in ends : e > oldest'} \union (IF line.ended THEN {total'} ELSE {})

\* Mutant: without a newline nothing is taken.
NothingTaken(from, size) == Last({e \in ends : from < e /\ e <= from + size} \union {from})

Least(a, b) == IF a < b THEN a ELSE b

\* whole_line_take(): where a read from a position ends
WholeLines(from, size) ==
  LET limit == from + Least(total - from, size)
      boundaries == {e \in ends : from < e /\ e <= limit}
  IN IF boundaries # {} THEN Last(boundaries) ELSE {limit}

clear ==
  /\ oldest' = total /\ ends' = {}
  /\ UNCHANGED total

-----------------------------------------------------------------------------
(* MeshLog: lines of the main loop, and of other tasks, which find the        *)
(* capture enabled some time before they append.                              *)

LogLine(line) ==
  /\ enabled /\ AppendLine(line)
  /\ UNCHANGED <<role, switchVars, windowVars, readVars, streamVars, told>>

FormatLine(line) ==
  /\ enabled /\ late = NoLine
  /\ late' = line
  /\ UNCHANGED <<role, bufferVars, enabled, windowVars, readVars, streamVars, told>>

LateLine ==
  /\ late # NoLine /\ AppendLine(late)
  /\ late' = NoLine /\ intruded' = (intruded \/ streaming)
  /\ UNCHANGED <<role, enabled, windowVars, readVars, streaming, off, resume, fetched, until, torn, told>>

Switched(on) ==
  IF streaming THEN resume' = on /\ UNCHANGED enabled
  ELSE enabled' = on /\ UNCHANGED resume

setCaplogCapture(on) ==
  /\ Switched(on)
  /\ UNCHANGED <<role, bufferVars, late, windowVars, readVars, streaming, off,
                 fetched, until, intruded, torn, told>>

Erase ==
  /\ ~streaming /\ clear
  /\ UNCHANGED <<role, switchVars, windowVars, readVars, streamVars, told>>

-----------------------------------------------------------------------------
(* CaplogForward *)

\* Mutant: an opened window inherits what the last one told the sink.
OpenedUntold ==
  IF ~open THEN announce' = TRUE /\ UNCHANGED captureSeen
  ELSE UNCHANGED <<announce, captureSeen>>

Opened ==
  IF ~open THEN announce' = TRUE /\ captureSeen' = FALSE
  ELSE UNCHANGED <<announce, captureSeen>>

\* armFor() and armUntilOff()
arm ==
  /\ Opened /\ open' = TRUE
  /\ UNCHANGED <<role, bufferVars, switchVars, captureOn, readVars, streamVars, told>>

\* the command to stop, or the deadline
disarm ==
  /\ open /\ open' = FALSE
  /\ UNCHANGED <<role, bufferVars, switchVars, announce, captureSeen, captureOn,
                 readVars, streamVars, told>>

\* The announcement of a window, which takes an identity, reads as capture on.  After
\* it comes a note of what has changed; that a window opens on a capture needs none.
Announced == announce /\ identified
Changed == IF captureSeen THEN enabled # captureOn ELSE ~enabled

Notes ==
  /\ announce' = FALSE /\ captureSeen' = TRUE /\ captureOn' = enabled
  /\ told' = IF Changed THEN enabled ELSE told \/ Announced

\* Mutant: what eviction took is not reported.
LostUnreported == 0

\* what eviction or an erasure took before the cursor came to it
Lost == IF started /\ cursor < oldest THEN oldest - cursor ELSE 0

\* readFrom() with the report of the loss ahead of the lines
ReadFrom(from) ==
  \E next \in WholeLines(from, ChunkBytes) :
    /\ cursor' = next /\ started' = TRUE
    /\ heard' = IF started THEN heard + Lost + (next - from) ELSE next
    /\ gap' = (gap \/ (started /\ next # from /\ heard + Lost # from))
    /\ UNCHANGED bufferVars

\* meshLogConsume()
consume ==
  \E next \in WholeLines(oldest, ChunkBytes) :
    /\ oldest' = next /\ ends' = {e \in ends : e > next}
    /\ UNCHANGED <<total, readVars>>

service ==
  /\ open /\ Notes
  /\ IF mode = "cursor" THEN ReadFrom(IF cursor < oldest THEN oldest ELSE cursor) ELSE consume
  /\ UNCHANGED <<role, switchVars, open, streamVars>>

-----------------------------------------------------------------------------
(* The download *)

StartDownload ==
  /\ mode = "cursor" /\ ~streaming
  /\ streaming' = TRUE /\ off' = 0
  /\ resume' = enabled /\ enabled' = FALSE
  /\ fetched' = oldest /\ until' = total
  /\ UNCHANGED <<role, bufferVars, late, windowVars, readVars, intruded, torn, told>>

\* Mutant: a frame that the transport refused counts as sent.
OffsetAnyway(n, accepted) == off + n

Offset(n, accepted) == IF accepted THEN off + n ELSE off

\* caplogDrain(), a frame, which the transport may refuse
SendChunk(accepted) ==
  LET n == Least(Held - off, FrameBytes)
  IN /\ streaming /\ off < Held
     /\ off' = Offset(n, accepted)
     /\ fetched' = IF accepted THEN oldest + off + n ELSE fetched
     /\ torn' = (torn \/ (accepted /\ ~intruded /\ fetched # oldest + off))
     /\ UNCHANGED <<role, bufferVars, switchVars, windowVars, readVars, streaming, resume,
                    until, intruded, told>>

EndStream ==
  /\ streaming /\ streaming' = FALSE /\ enabled' = resume
  /\ fetched' = 0 /\ until' = 0 /\ intruded' = FALSE
  /\ UNCHANGED <<role, bufferVars, late, windowVars, readVars, off, resume, told>>

\* caplogDrain() at the end, and abandoned by a stall or by APP_START
FinishDownload == off >= Held /\ EndStream /\ torn' = (torn \/ (~intruded /\ fetched # until))
AbandonDownload == EndStream /\ UNCHANGED torn

-----------------------------------------------------------------------------
CaptureInit ==
  /\ mode \in {"cursor", "consume"} /\ identified \in BOOLEAN
  /\ total = 0 /\ oldest = 0 /\ ends = {}
  /\ enabled = FALSE /\ late = NoLine
  /\ open = FALSE /\ announce = FALSE /\ captureSeen = FALSE /\ captureOn = FALSE
  /\ cursor = 0 /\ started = FALSE
  /\ streaming = FALSE /\ off = 0 /\ resume = FALSE
  /\ told = FALSE /\ heard = 0 /\ gap = FALSE
  /\ fetched = 0 /\ until = 0 /\ intruded = FALSE /\ torn = FALSE

CaptureNext ==
  \/ \E line \in Lines : LogLine(line) \/ FormatLine(line)
  \/ LateLine
  \/ \E on \in BOOLEAN : setCaplogCapture(on) \/ SendChunk(on)
  \/ Erase
  \/ arm \/ disarm \/ service
  \/ StartDownload \/ FinishDownload \/ AbandonDownload

\* The main loop runs and the link comes up again and again.
CaptureFairness == WF_captureVars(service)

CaptureSpec == CaptureInit /\ [][CaptureNext]_captureVars /\ CaptureFairness

-----------------------------------------------------------------------------
(***************************************************************************)
(* Properties.                                                             *)
(***************************************************************************)

\* From the first read on the sink gets every byte in order, once, or is told how many
\* were lost where they are missing, over eviction, erasures and closed windows.
EveryGapMarked == ~gap

\* A download is the frozen ring, from its oldest byte to its end, whatever the
\* transport refuses and whoever switches the capture meanwhile -- unless a line of
\* another task, let in before the freeze, is appended under it.
DownloadWhole == ~torn

\* Once lines stop, a window that stays open leaves nothing behind in the ring.
SinkCatchesUp ==
  <>[](open) => <>[](total = IF mode = "cursor" THEN cursor ELSE oldest)

\* At the sink a stopped capture and a quiet one are both silence: which it is, it is
\* told whenever a window stays open.  (A node without an identity announces no window,
\* and may leave the sink with what the last one told it when the capture is on.)
SilenceNamed ==
  \A on \in BOOLEAN : <>[](open /\ enabled = on /\ (identified \/ ~on)) => <>[](told = on)
=============================================================================
