------------------------ MODULE SeqWatermark_proofs ------------------------
(***************************************************************************)
(* The skip-ahead argument of session_seq.rs for every persist interval,   *)
(* retention and number of forwarders.                                     *)
(***************************************************************************)
EXTENDS SeqWatermark, TLAPS

\* Everything this process has drawn, gated or queued was issued by it.
WithinIssued ==
  /\ issued < next
  /\ gate <= issued
  /\ anchor <= issued
  /\ \A f \in Forwarders : drawn[f] <= issued
  /\ \A q \in writes : q <= issued
  /\ \A w \in loads : w <= disk
  /\ issued # 0 => last = issued

\* d is a due watermark that was given to the hook or is about to be.
Handed(d) == d = gate \/ \E f \in Forwarders : pc[f] = "hook" /\ drawn[f] = d

\* Some due watermark is less than one interval behind the last issued number.
FreshWatermark ==
  \E d \in Nat : Handed(d) /\ issued < d + Interval /\ last_persisted <= d

\* A process that has issued nothing will start above its predecessors.
StartsAbove ==
  kept /\ issued = 0 =>
    /\ last # 0 => /\ disk # 0 /\ last <= disk + Window
                   /\ \A w \in loads : w # 0 /\ last <= w + Window
                   /\ session = "loading" => admission # 0 /\ last <= admission + Window
    /\ Running => next > last

SeqInv ==
  /\ SeqTypeOK
  /\ WithinIssued
  /\ FreshWatermark
  /\ StartsAbove
  /\ WatermarkIssued

LEMMA WindowFacts == Window \in Nat /\ Window >= Interval + Interval
BY SeqAssumption DEF Window, Larger

LEMMA SeqInitInv == SeqInit => SeqInv
<1> SUFFICES ASSUME SeqInit PROVE SeqInv
  OBVIOUS
<1>1. SeqTypeOK
  <2>1. /\ pc \in [Forwarders -> {"idle", "hook", "route"}]
        /\ drawn \in [Forwarders -> Nat]
    BY DEF SeqInit
  <2>2. transcript \in BOOLEAN /\ kept \in BOOLEAN
    BY DEF SeqInit
  <2> QED
    BY <2>1, <2>2 DEF SeqInit, SeqTypeOK
<1>2. FreshWatermark
  BY SeqAssumption DEF SeqInit, FreshWatermark, Handed
<1>3. WithinIssued
  BY DEF SeqInit, WithinIssued
<1>4. StartsAbove
  BY DEF SeqInit, StartsAbove, Running
<1>5. WatermarkIssued
  BY DEF SeqInit, WatermarkIssued
<1> QED
  BY <1>1, <1>2, <1>3, <1>4, <1>5 DEF SeqInv

\* A drawn number is above every earlier one while watermarks are kept.
LEMMA DrawsAbove ==
  ASSUME SeqInv, Running, kept
  PROVE  next > last
BY DEF SeqInv, SeqTypeOK, WithinIssued, StartsAbove

LEMMA DrawKeepsInv ==
  ASSUME SeqInv, NEW f \in Forwarders, Draw(f)
  PROVE  SeqInv'
<1> USE SeqAssumption DEF SeqInv, loadVars, Running
<1>1. SeqTypeOK'
  BY DEF Draw, diskVars, SeqTypeOK
<1>2. WithinIssued'
  BY DEF Draw, diskVars, SeqTypeOK, WithinIssued
<1>3. FreshWatermark'
  <2>1. CASE Due
    <3>1. PICK d \in Nat : d = next
      BY DEF SeqTypeOK
    <3>2. Handed(d)' /\ issued' = d /\ last_persisted' = d
      BY <2>1, <3>1 DEF Draw, Handed, SeqTypeOK
    <3> QED
      BY <3>2 DEF FreshWatermark
  <2>2. CASE ~Due
    <3>1. PICK d \in Nat : Handed(d) /\ issued < d + Interval /\ last_persisted <= d
      BY DEF FreshWatermark
    <3>2. Handed(d)'
      BY <3>1 DEF Draw, Handed, SeqTypeOK
    <3>3. issued' < d + Interval /\ last_persisted' <= d
      BY <2>2, <3>1 DEF Draw, Due, SeqTypeOK, WithinIssued
    <3> QED
      BY <3>2, <3>3 DEF FreshWatermark
  <2> QED
    BY <2>1, <2>2
<1>4. StartsAbove'
  BY DEF Draw, StartsAbove, SeqTypeOK
<1>5. WatermarkIssued'
  BY DrawsAbove DEF Draw, diskVars, WatermarkIssued, SeqTypeOK
<1> QED
  BY <1>1, <1>2, <1>3, <1>4, <1>5

LEMMA HookKeepsInv ==
  ASSUME SeqInv, NEW f \in Forwarders, CallHook(f)
  PROVE  SeqInv'
<1> USE SeqAssumption DEF SeqInv, counterVars, diskVars, loadVars, boundVars, Running
<1>1. SeqTypeOK'
  BY DEF CallHook, SeqTypeOK
<1>2. WithinIssued'
  BY DEF CallHook, SeqTypeOK, WithinIssued
<1>3. FreshWatermark'
  <2>1. PICK d \in Nat : Handed(d) /\ issued < d + Interval /\ last_persisted <= d
    BY DEF FreshWatermark
  <2>2. \E e \in Nat : Handed(e)' /\ d <= e
    BY <2>1 DEF CallHook, Handed, SeqTypeOK
  <2> QED
    BY <2>1, <2>2 DEF CallHook, FreshWatermark, SeqTypeOK
<1>4. (StartsAbove /\ WatermarkIssued)'
  BY DEF CallHook, StartsAbove, WatermarkIssued
<1> QED
  BY <1>1, <1>2, <1>3, <1>4

LEMMA RouteKeepsInv ==
  ASSUME SeqInv, NEW f \in Forwarders, Route(f)
  PROVE  SeqInv'
<1> USE DEF SeqInv, counterVars, diskVars, loadVars, boundVars, Running
<1>1. (SeqTypeOK /\ WithinIssued /\ StartsAbove /\ WatermarkIssued)'
  BY DEF Route, SeqTypeOK, WithinIssued, StartsAbove, WatermarkIssued
<1>2. FreshWatermark'
  <2>1. PICK d \in Nat : Handed(d) /\ issued < d + Interval /\ last_persisted <= d
    BY DEF FreshWatermark
  <2>2. Handed(d)'
    BY <2>1 DEF Route, Handed, SeqTypeOK
  <2> QED
    BY <2>1, <2>2 DEF Route, FreshWatermark
<1> QED
  BY <1>1, <1>2

\* Steps that move neither the counters nor the forwarders.
LEMMA FreshUnchanged ==
  ASSUME FreshWatermark, UNCHANGED <<counterVars, gate, pc, drawn>>
  PROVE  FreshWatermark'
BY DEF FreshWatermark, Handed, counterVars

LEMMA CoveredByLarger ==
  ASSUME NEW a \in Nat, NEW b \in Nat, NEW l \in Nat, NEW w \in Nat,
         b >= a, a # 0, l <= a + w
  PROVE  b # 0 /\ l <= b + w
OBVIOUS

\* A larger watermark keeps the promise to start above.
LEMMA LargerWatermark ==
  ASSUME SeqTypeOK, StartsAbove, disk' \in Nat, disk' >= disk,
         UNCHANGED <<kept, issued, last, loads, admission, next>>,
         session' = "loading" => session = "loading",
         Running' => Running
  PROVE  StartsAbove'
<1> SUFFICES ASSUME kept, issued = 0
             PROVE  /\ last # 0 => /\ disk' # 0 /\ last <= disk' + Window
                                   /\ \A w \in loads : w # 0 /\ last <= w + Window
                                   /\ session' = "loading" =>
                                        admission # 0 /\ last <= admission + Window
                    /\ Running' => next > last
  BY DEF StartsAbove
<1>1. last # 0 => disk # 0 /\ last <= disk + Window
  BY DEF StartsAbove
<1>2. disk \in Nat /\ last \in Nat /\ Window \in Nat
  BY WindowFacts DEF SeqTypeOK
<1>3. last # 0 => disk' # 0 /\ last <= disk' + Window
  <2> SUFFICES ASSUME last # 0 PROVE disk' # 0 /\ last <= disk' + Window
    OBVIOUS
  <2>1. disk # 0 /\ last <= disk + Window
    BY <1>1
  <2> QED
    BY <1>2, <2>1, CoveredByLarger
<1> QED
  BY <1>3 DEF StartsAbove

LEMMA TranscriptKeepsInv ==
  ASSUME SeqInv, CreateTranscript \/ \E q \in writes : WriteEnds(q)
  PROVE  SeqInv'
<1> USE WindowFacts DEF SeqInv, counterVars, loadVars, boundVars, Running
<1>1. CASE CreateTranscript
  <2>1. (SeqTypeOK /\ WithinIssued /\ StartsAbove /\ WatermarkIssued)'
    BY <1>1 DEF CreateTranscript, SeqTypeOK, WithinIssued, StartsAbove, WatermarkIssued
  <2> QED
    BY <1>1, <2>1, FreshUnchanged DEF CreateTranscript
<1>2. ASSUME NEW q \in writes, WriteEnds(q) PROVE SeqInv'
  <2>1. /\ disk' \in Nat /\ disk' >= disk /\ (disk' = disk \/ disk' = q)
        /\ writes' = writes \ {q}
        /\ UNCHANGED <<counterVars, gate, pc, drawn, loads, admission, session, anchor, transcript,
                       last, kept, boundVars>>
    BY <1>2 DEF WriteEnds, Persisted, Larger, SeqTypeOK
  <2>2. SeqTypeOK' /\ WithinIssued'
    BY <2>1 DEF SeqTypeOK, WithinIssued
  <2>3. StartsAbove'
    BY <2>1, LargerWatermark
  <2>4. WatermarkIssued'
    BY <2>1 DEF SeqTypeOK, WithinIssued, WatermarkIssued
  <2> QED
    BY <2>1, <2>2, <2>3, <2>4, FreshUnchanged
<1> QED
  BY <1>1, <1>2

LEMMA CloseKeepsInv ==
  ASSUME SeqInv, BeginClose \/ AnchorEnds \/ EndClose
  PROVE  SeqInv'
<1> USE WindowFacts DEF SeqInv, counterVars, boundVars, diskVars, loadVars
<1>1. /\ disk' \in Nat /\ disk' >= disk /\ (disk' = disk \/ disk' = anchor)
      /\ Running
      /\ session' \in {"anchoring", "closing", "down"}
      /\ anchor' \in {0, issued} /\ (anchor' # 0 <=> session' = "anchoring")
      /\ UNCHANGED <<counterVars, gate, pc, drawn, writes, loads, admission, transcript, last, kept,
                     boundVars>>
  <2>1. CASE BeginClose
    BY <2>1 DEF BeginClose, HasHighWater, HighWater, Running, SeqTypeOK
  <2>2. CASE AnchorEnds
    BY <2>2 DEF AnchorEnds, Persisted, Larger, Running, SeqTypeOK
  <2>3. CASE EndClose
    BY <2>3 DEF EndClose, Running, SeqTypeOK
  <2> QED
    BY <2>1, <2>2, <2>3
<1>2. SeqTypeOK'
  BY <1>1 DEF SeqTypeOK
<1>3. WithinIssued'
  BY <1>1 DEF SeqTypeOK, WithinIssued
<1>4. StartsAbove'
  BY <1>1, LargerWatermark
<1>5. WatermarkIssued'
  BY <1>1 DEF SeqTypeOK, WithinIssued, WatermarkIssued
<1>6. FreshWatermark'
  BY <1>1, FreshUnchanged
<1> QED
  BY <1>2, <1>3, <1>4, <1>5, <1>6

LEMMA ReadKeepsInv ==
  ASSUME SeqInv, ReadTranscript \/ ReadForAdmission
  PROVE  SeqInv'
<1> USE DEF SeqInv, counterVars, diskVars, loadVars
<1>1. CASE ReadTranscript
  <2>1. (SeqTypeOK /\ WithinIssued /\ StartsAbove /\ WatermarkIssued)'
    BY <1>1 DEF ReadTranscript, SeqTypeOK, WithinIssued, StartsAbove, WatermarkIssued, Running
  <2> QED
    BY <1>1, <2>1, FreshUnchanged DEF ReadTranscript
<1>2. CASE ReadForAdmission
  <2>1. (SeqTypeOK /\ WithinIssued /\ StartsAbove /\ WatermarkIssued)'
    BY <1>2 DEF ReadForAdmission, SeqTypeOK, WithinIssued, StartsAbove, WatermarkIssued, Running
  <2> QED
    BY <1>2, <2>1, FreshUnchanged DEF ReadForAdmission
<1> QED
  BY <1>1, <1>2

\* What a restore of the watermark w, with or without an admission, may change.
Restored(w) ==
  /\ next' \in Nat /\ next' >= next
  /\ w # 0 => next' > w + Window
  /\ last_persisted' \in {0, last_persisted}
  /\ loads' \in SUBSET loads
  /\ \/ UNCHANGED <<session, admission>>
     \/ session = "loading" /\ session' \in {"up", "down"} /\ w = admission /\ admission' = 0
  /\ UNCHANGED <<issued, gate, pc, drawn, writes, anchor, transcript, disk, last, kept,
                 draws, restarts, reads>>

LEMMA RestoreKeepsInv ==
  ASSUME SeqInv, NEW w \in Nat, Restore(w) \/ (Admit /\ w = admission)
  PROVE  SeqInv'
<1> USE WindowFacts DEF SeqInv, counterVars, diskVars, boundVars, loadVars
<1>1. Restored(w)
  BY DEF Restored, Restore, Admit, InitializeAfterWatermark, NextAfter, Larger, SeqTypeOK
<1> USE DEF Restored
<1>2. SeqTypeOK' /\ WithinIssued' /\ WatermarkIssued'
  BY <1>1 DEF SeqTypeOK, WithinIssued, WatermarkIssued
<1>3. FreshWatermark'
  <2>1. PICK d \in Nat : Handed(d) /\ issued < d + Interval /\ last_persisted <= d
    BY DEF FreshWatermark
  <2>2. Handed(d)' /\ last_persisted' <= d
    BY <1>1, <2>1 DEF Handed, SeqTypeOK
  <2> QED
    BY <1>1, <2>1, <2>2 DEF FreshWatermark
<1>4. StartsAbove'
  BY <1>1 DEF StartsAbove, SeqTypeOK, Running
<1> QED
  BY <1>2, <1>3, <1>4

LEMMA CrashKeepsInv ==
  ASSUME SeqInv, Crash
  PROVE  SeqInv'
<1> USE SeqAssumption, WindowFacts DEF SeqInv, diskVars, Running
<1>1. SeqTypeOK'
  BY DEF Crash, SeqTypeOK
<1>2. WithinIssued'
  BY DEF Crash, WithinIssued
<1>3. FreshWatermark'
  BY DEF Crash, FreshWatermark, Handed
<1>4. StartsAbove'
  <2>1. CASE issued = 0
    BY <2>1 DEF Crash, StartsAbove, SeqTypeOK
  <2>2. CASE issued # 0
    <3> SUFFICES ASSUME kept' PROVE disk # 0 /\ last <= disk + Window
      BY DEF Crash, StartsAbove
    <3>1. /\ \A f \in Forwarders : pc[f] # "hook"
          /\ disk # 0 /\ gate <= disk + Interval
      BY <2>2 DEF Crash, PersistedInTime
    <3>2. issued < gate + Interval
      BY <3>1 DEF FreshWatermark, Handed
    <3> QED
      BY <2>2, <3>1, <3>2 DEF WithinIssued, SeqTypeOK
  <2> QED
    BY <2>1, <2>2
<1>5. WatermarkIssued'
  BY DEF Crash, WatermarkIssued, SeqTypeOK
<1> QED
  BY <1>1, <1>2, <1>3, <1>4, <1>5

LEMMA NextKeepsSeqInv == SeqInv /\ [SeqNext]_seqVars => SeqInv'
<1> SUFFICES ASSUME SeqInv, [SeqNext]_seqVars PROVE SeqInv'
  OBVIOUS
<1>1. CASE \E f \in Forwarders : Draw(f) \/ CallHook(f) \/ Route(f)
  BY <1>1, DrawKeepsInv, HookKeepsInv, RouteKeepsInv
<1>2. CASE CreateTranscript \/ \E q \in writes : WriteEnds(q)
  BY <1>2, TranscriptKeepsInv
<1>3. CASE Admit \/ \E w \in loads : Restore(w)
  BY <1>3, RestoreKeepsInv DEF SeqInv, SeqTypeOK
<1>4. CASE BeginClose \/ AnchorEnds \/ EndClose
  BY <1>4, CloseKeepsInv
<1>5. CASE ReadTranscript \/ ReadForAdmission \/ Crash
  BY <1>5, ReadKeepsInv, CrashKeepsInv
<1>6. CASE UNCHANGED seqVars
  BY <1>6
  DEF seqVars, counterVars, diskVars, loadVars, boundVars, SeqInv, SeqTypeOK, WithinIssued,
      FreshWatermark, Handed, StartsAbove, Running, WatermarkIssued
<1> QED
  BY <1>1, <1>2, <1>3, <1>4, <1>5, <1>6 DEF SeqNext

\* The inductive invariant of the allocator, its persist path and its restarts.
THEOREM SeqInvariant == SeqSpec => []SeqInv
BY SeqInitInv, NextKeepsSeqInv, PTL DEF SeqSpec

\* The allocator, the hook's writes and the transcript keep their types.
THEOREM SeqTypeCorrect == SeqSpec => []SeqTypeOK
<1>1. SeqInv => SeqTypeOK
  BY DEF SeqInv
<1> QED
  BY <1>1, SeqInvariant, PTL

\* The watermark in the transcript never exceeds what was issued.
THEOREM WatermarkNotInflated == SeqSpec => []WatermarkIssued
<1>1. SeqInv => WatermarkIssued
  BY DEF SeqInv
<1> QED
  BY <1>1, SeqInvariant, PTL

\* Only Draw issues a number, and it is above the last one.
LEMMA OnlyDrawIssues ==
  ASSUME SeqInv, [SeqNext]_seqVars, kept, draws' # draws
  PROVE  last' > last
<1>1. CASE \E f \in Forwarders : Draw(f)
  BY <1>1, DrawsAbove DEF Draw, SeqInv, SeqTypeOK
<1>2. CASE ~ \E f \in Forwarders : Draw(f)
  BY <1>2
  DEF SeqNext, CallHook, Route, WriteEnds, Restore, Admit, CreateTranscript, BeginClose,
      AnchorEnds, EndClose, ReadTranscript, ReadForAdmission, Crash, seqVars, boundVars
<1> QED
  BY <1>1, <1>2

\* Sequence numbers grow strictly with every draw, over closes, resumes and restarts,
\* as long as no process died more than one persist interval ahead of its transcript.
THEOREM NumbersGrow == SeqSpec => GrowsIfKept
<1>1. SeqInv /\ [SeqNext]_seqVars => [kept /\ draws' # draws => last' > last]_seqVars
  BY OnlyDrawIssues
<1> QED
  BY <1>1, SeqInvariant, PTL DEF SeqSpec, GrowsIfKept
=============================================================================
