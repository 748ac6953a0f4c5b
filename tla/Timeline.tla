------------------------------ MODULE Timeline ------------------------------
(***************************************************************************)
(* What the reader computes from its chunks without keeping any state: the *)
(* slot at a position, the slots in view, the highlighted chunk, how much  *)
(* of a bar is filled, the active take of each chunk, the blocks of the    *)
(* text (lib/waveform-timeline.ts, lib/waveform.ts, and conveyor-physics,  *)
(* reader-model, chunk-utils and reader-text of features/reader).          *)
(*                                                                         *)
(* Time, peaks and offsets are whole numbers, the smallest of them stands  *)
(* for the epsilon of the slot edge, and a fraction is a pair.  Loops are  *)
(* recursive functions; n slots are numbered 0 .. n - 1, and start is what *)
(* RunningStart gives for their lengths len.                               *)
(***************************************************************************)
EXTENDS Integers, Sequences

Lesser(a, b)  == IF a < b THEN a ELSE b
Greater(a, b) == IF a > b THEN a ELSE b

\* buildCumulativeStartTimes, with the total at n.
RunningStart(len, n) ==
  LET start[i \in 0 .. n] == IF i = 0 THEN 0 ELSE start[i - 1] + len[i - 1]
  IN  start

-----------------------------------------------------------------------------
(* Slots and positions *)

\* slotIndexAtSeconds of the timeline: a scan that stops at the first later slot.
ScanIndex(start, n, s) ==
  LET at[i \in 0 .. n] == IF i = n \/ s < start[i] THEN Greater(0, i - 1) ELSE at[i + 1]
  IN  at[0]

\* The loop of the binary searches: the first of lo .. hi that is not before the
\* place looked for, given the slots that are.
LowerBound(lo, hi, before) ==
  LET at[p \in (lo .. hi) \X (lo .. hi)] ==
        LET l   == p[1]
            h   == p[2]
            mid == (l + h) \div 2
        IN  IF l >= h THEN l
            ELSE IF mid \in before THEN at[<<mid + 1, h>>] ELSE at[<<l, mid>>]
  IN  at[<<lo, hi>>]

\* slotIndexAtSeconds of the conveyor.
SearchIndex(start, n, s) ==
  Greater(0, LowerBound(0, n, {i \in 0 .. n - 1 : start[i] <= s}) - 1)

\* visibleSlotIndexes
VisibleSlots(start, len, n, from, to) ==
  LET first == LowerBound(0, n, {i \in 0 .. n - 1 : start[i] + len[i] <= from})
  IN  first .. LowerBound(first, n, {i \in 0 .. n - 1 : start[i] < to}) - 1

\* deriveActiveChunkProgress: the chunk a position is in (n after the last) and
\* how much of it has been played; the chunks before it have been, as a whole.
ActiveChunkProgress(len, n, s) ==
  LET at[p \in (0 .. n) \X (0 .. Greater(0, s))] ==
        LET i    == p[1]
            left == p[2]
        IN  IF i = n \/ left < len[i] THEN [active |-> i, fill |-> left]
            ELSE at[<<i + 1, left - len[i]>>]
  IN  at[<<0, Greater(0, s)>>]

-----------------------------------------------------------------------------
(* The look of a slot *)

\* barFillFraction
BarFillFraction(playhead, start, end, rendered) ==
  IF rendered <= 0 THEN <<0, 1>>
  ELSE IF playhead >= end THEN <<1, 1>>
  ELSE IF playhead > start THEN <<playhead - start, end - start>>
  ELSE <<0, 1>>

\* playheadForSlot: the epsilon beyond the end of the slot is one.
PlayheadForSlot(playhead, start, length) ==
  IF playhead <= start THEN start
  ELSE IF playhead >= start + length THEN start + length + 1
  ELSE playhead

IsNonFillState(state) == state \in {"failed", "missing_expected"}

IsSlotDimmed(state, start, length, playhead) == state = "played" /\ playhead > start + length

\* maxPool: the peaks of as many bars as there is room for.
MaxPool(data, target) ==
  LET size == Len(data)
      peak(from, to) ==
        LET at[i \in from .. to] == IF i = to THEN 0 ELSE Greater(data[i + 1], at[i + 1])
        IN  at[from]
  IN  [bar \in 1 .. target |->
         LET from == ((bar - 1) * size) \div target
             to   == Greater(from + 1, (bar * size) \div target)
         IN  IF size = 0 THEN 0 ELSE peak(from, to)]

\* waveformForSlot: analysed peaks come before the patterns that stand in for them.
WaveformForSlot(analyzed, state, bars) ==
  IF analyzed # <<>> THEN MaxPool(analyzed, bars)
  ELSE IF IsNonFillState(state) THEN "broken" ELSE "placeholder"

-----------------------------------------------------------------------------
(* Takes.  A manifest is a sequence of records with an index and a version. *)

IndexesOf(manifest) == {manifest[i].index : i \in DOMAIN manifest}

\* getLatestVersion, and deriveActiveVersions for each index.
LatestVersion(manifest, index) ==
  LET at[i \in 0 .. Len(manifest)] ==
        IF i = 0 THEN -1
        ELSE IF manifest[i].index = index THEN Greater(at[i - 1], manifest[i].version)
        ELSE at[i - 1]
  IN  at[Len(manifest)]

\* deriveActiveVersionMap: what the job says, and the latest take where it is silent.
ActiveVersionMap(manifest, told) ==
  [index \in DOMAIN told \cup IndexesOf(manifest) |->
     IF index \in DOMAIN told THEN told[index] ELSE LatestVersion(manifest, index)]

\* deriveActiveChunks: the first entry of each index that is its active take.
ActiveChunks(manifest, versions) ==
  LET active(i) == manifest[i].version = versions[manifest[i].index]
      at[i \in 0 .. Len(manifest)] ==
        IF i = 0 THEN <<>>
        ELSE IF active(i) /\ manifest[i].index \notin IndexesOf(at[i - 1])
        THEN Append(at[i - 1], manifest[i]) ELSE at[i - 1]
  IN  at[Len(manifest)]

-----------------------------------------------------------------------------
(* Text.  Chunks are sorted, with the offsets they were planned with. *)

Block(kind, from, to, hidden) == [kind |-> kind, from |-> from, to |-> to, hidden |-> hidden]

\* The blocks of the planned chunks, with the gaps before them; cursor after them.
PlannedBlocks(planned) ==
  LET at[i \in 0 .. Len(planned)] ==
        IF i = 0 THEN [blocks |-> <<>>, cursor |-> 0]
        ELSE LET cursor == at[i - 1].cursor
                 start  == Greater(cursor, planned[i].from)
                 end    == Greater(start, planned[i].to)
                 gap    == IF start > cursor THEN <<Block("upcoming", cursor, start, 0)>> ELSE <<>>
             IN  [blocks |-> at[i - 1].blocks \o gap \o <<Block("chunk", start, end, 0)>>,
                  cursor |-> end]
  IN  at[Len(planned)]

\* buildReaderTextSegments: of a tail longer than full only a preview is shown.
ReaderTextSegments(planned, length, full, preview) ==
  LET p == PlannedBlocks(planned)
      left  == length - p.cursor
      shown == IF left <= full THEN left ELSE preview
  IN  IF left <= 0 THEN p.blocks
      ELSE Append(p.blocks, Block("upcoming", p.cursor, p.cursor + shown, left - shown))
=============================================================================
