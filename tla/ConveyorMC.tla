----------------------------- MODULE ConveyorMC -----------------------------
EXTENDS Conveyor
Start(cs, changes, presses, misses, motion) ==
  [chunks |-> [i \in Slot |-> cs[i + 1]], changes |-> changes, presses |-> presses,
   misses |-> misses, motion |-> motion, settled |-> presses < MaxPresses]
W(l) == Chunk("written", l, 1)
P == Chunk("planned", 0, 1)
\* One press while a chunk changes, with audio at the beginning, after a gap, and
\* with reduced motion; two presses; changes and a failed fetch, and no press.
MCStarts ==
  {Start(<<W(2), P>>, 2, 1, 1, "animated"), Start(<<P, W(2)>>, 2, 1, 1, "animated"),
   Start(<<W(2), P>>, 2, 1, 1, "reduced"),
   Start(<<W(2), P>>, 3, 0, 1, "animated"), Start(<<W(1), P>>, 1, 2, 0, "reduced")}

-----------------------------------------------------------------------------
(* The pure functions of Timeline, against definitions that do not compute. *)

Size == 0 .. 4
LengthsOf(n) == [0 .. n - 1 -> 0 .. 2]
Times == -1 .. 9

\* The scan of the timeline and the binary search of the conveyor find the last
\* slot that has begun, empty slots or not.
ASSUME IndexIsLastBegun ==
  \A n \in Size : \A len \in LengthsOf(n), s \in Times :
    LET start == RunningStart(len, n)
        begun == {i \in 0 .. n - 1 : start[i] <= s}
        last  == IF begun = {} THEN 0 ELSE CHOOSE i \in begun : \A k \in begun : k <= i
    IN  ScanIndex(start, n, s) = last /\ SearchIndex(start, n, s) = last

\* The slots in view are those that overlap the window.
ASSUME VisibleOverlap ==
  \A n \in Size : \A len \in LengthsOf(n), from, to \in Times :
    LET start == RunningStart(len, n)
    IN  from < to => VisibleSlots(start, len, n, from, to)
                     = {i \in 0 .. n - 1 : start[i] < to /\ start[i] + len[i] > from}

\* The text highlights the chunk whose slot the playhead is in, at the same point.
ASSUME HighlightAgrees ==
  \A n \in Size : \A len \in LengthsOf(n), s \in Times :
    LET start == RunningStart(len, n)
        p     == ActiveChunkProgress(len, n, s)
    IN  IF 0 <= s /\ s < start[n]
        THEN p.active = SearchIndex(start, n, s) /\ start[p.active] + p.fill = s
        ELSE s >= start[n] => p.active = n

\* However few bars there are, no peak is lost, and none is made up.
ASSUME PeaksSurvive ==
  \A size \in 1 .. 4, target \in 1 .. 6 : \A data \in [1 .. size -> 0 .. 2] :
    LET bars == MaxPool(data, target)
    IN  /\ {bars[b] : b \in DOMAIN bars} \subseteq {data[i] : i \in DOMAIN data}
        /\ \A i \in DOMAIN data : \E b \in DOMAIN bars : bars[b] >= data[i]

\* Every chunk is shown once, as the take the job names, or the latest one.
ASSUME ShownOnce ==
  LET Take == [index : 0 .. 1, version : 0 .. 2]
  IN  \A size \in 0 .. 3 : \A manifest \in [1 .. size -> Take] :
        \A told \in UNION {[D -> 0 .. 2] : D \in SUBSET (0 .. 1)} :
          LET shown == ActiveChunks(manifest, ActiveVersionMap(manifest, told))
          IN  /\ \A i, j \in DOMAIN shown : shown[i].index = shown[j].index => i = j
              /\ \A t \in {manifest[i] : i \in DOMAIN manifest} :
                   IF t.index \in DOMAIN told THEN told[t.index] = t.version
                                                  => t \in {shown[i] : i \in DOMAIN shown}
                   ELSE \E i \in DOMAIN shown : shown[i].index = t.index
                                                 /\ shown[i].version >= t.version

\* The blocks of the text follow each other without a gap or an overlap, and with
\* what the last one hides they are the text, whatever the chunks' offsets are.
ASSUME TextIsWhole ==
  LET Planned == [from : 0 .. 4, to : 0 .. 4]
  IN  \A size \in 0 .. 2, full \in {1, 9} : \A planned \in [1 .. size -> Planned] :
        LET blocks == ReaderTextSegments(planned, 4, full, 1)
            end(i) == IF i = 0 THEN 0 ELSE blocks[i].to + blocks[i].hidden
        IN  /\ \A i \in DOMAIN blocks : blocks[i].from = end(i - 1)
            /\ end(Len(blocks)) = 4
=============================================================================
