------------------------ MODULE OperationLog_proofs ------------------------
(***************************************************************************)
(* What OperationLog keeps true for every number of entries and callers    *)
(* and every size of the queue, of a batch and of an outage.               *)
(***************************************************************************)
EXTENDS OperationLog, FiniteSetTheorems, TLAPS

Phases == {"idle", "failed", "take", "persist", "gap", "marker"}

(* Only a flush that collects or writes holds a batch, and only before it  *)
(* has passed the retained one does a retained batch exist.                *)
FlushInv ==
  /\ flush.phase \notin {"take", "persist"} => flush.batch = {}
  /\ flush.phase \notin {"idle", "failed"} => failed = {}

(* A marker that could not be written is still the current one, or its id  *)
(* is in the table; an id above the current one is unused.                 *)
MarkerInv ==
  /\ \A i \in markers : i <= marker.id
  /\ marker.count <= gapPending
  /\ flush.phase = "marker" => marker.count > 0
  /\ \A b \in limbo : b.marker.count > 0 => b.marker.id \in markers \/ b.marker = marker

-----------------------------------------------------------------------------
(* Types.                                                                  *)

LEMMA TypeInit == Init => TypeOK
<1> SUFFICES ASSUME Init PROVE TypeOK
  OBVIOUS
<1>1. flush \in [owner : Owner, batch : SUBSET Entry, more : BOOLEAN, phase : Phases]
  BY DEF Init, NoFlush, Owner, Phases
<1>2. call \in [Entry -> Status] /\ errors \in 0..MaxErrors
  BY SizeAssumption DEF Init, Status
<1> QED BY <1>1, <1>2 DEF Init, TypeOK, NoMarker, Phases

(* The part of TypeOK that the end of a flush concerns. *)
FlushType ==
  /\ flush \in [owner : Owner, batch : SUBSET Entry, more : BOOLEAN, phase : Phases]
  /\ caller \in [Caller -> {"idle", "waiting", "flushing", "done"}]
  /\ seen \in [Caller -> SUBSET Entry]
  /\ run \in {"loop", "done"}
  /\ down \in {"up", "stopping", "drain", "final", "discard", "ended", "abandoned"}

LEMMA FinishType == ASSUME TypeOK, NEW ok \in BOOLEAN, Finish(ok) PROVE FlushType'
BY DEF TypeOK, Finish, NoFlush, Owner, Phases, FlushType

LEMMA GotoType == ASSUME TypeOK, NEW p \in Phases, Goto(p) PROVE FlushType'
BY DEF TypeOK, Goto, procVars, Phases, FlushType

LEMMA AfterGapType == ASSUME TypeOK, AfterGap PROVE FlushType'
BY FinishType, GotoType DEF AfterGap, Phases

LEMMA TypeStep == TypeOK /\ [Next]_vars => TypeOK'
<1> SUFFICES ASSUME TypeOK, [Next]_vars PROVE TypeOK'
  OBVIOUS
<1> USE DEF Phases
<1>1. ASSUME NEW e \in Entry, WriteLog(e) PROVE TypeOK'
  <2>1. call' \in [Entry -> Status]
    BY <1>1 DEF WriteLog, BeginAdmission, Stopped, Enqueue, Drop, Return, Step, TypeOK, Status
  <2>2. queue' \subseteq Entry /\ gapPending' \in Nat /\ dropped' \in Nat
    BY <1>1 DEF WriteLog, BeginAdmission, Stopped, Enqueue, Drop, Return, MarkGap, TypeOK, gapVars
  <2>3. UNCHANGED <<failed, flush, procVars, retry, marker, logVars, errors, discarded>>
    BY <1>1 DEF WriteLog, BeginAdmission, Stopped, Enqueue, Drop, Return, MarkGap, gapVars
  <2> QED BY <2>1, <2>2, <2>3 DEF TypeOK, procVars, logVars
<1>2. ASSUME NEW o \in Owner, Begin(o)
      PROVE  flush' \in [owner : Owner, batch : SUBSET Entry, more : BOOLEAN, phase : Phases]
  BY <1>2 DEF Begin, TypeOK
<1>3. CASE BeginRun \/ BeginExit
  BY <1>2, <1>3 DEF BeginRun, BeginExit, Owner, TypeOK, procVars, gapVars, logVars
<1>4. ASSUME NEW c \in Caller, CallFlush(c) \/ Deferred(c) \/ CallerReturns(c)
      PROVE  TypeOK'
  <2>1. caller' \in [Caller -> {"idle", "waiting", "flushing", "done"}] /\ seen' \in [Caller -> SUBSET Entry]
    BY <1>4 DEF CallFlush, Deferred, CallerReturns, TypeOK
  <2>2. UNCHANGED <<call, queue, failed, flush, run, down, retry, gapVars, logVars, errors, discarded>>
    BY <1>4 DEF CallFlush, Deferred, CallerReturns
  <2> QED BY <2>1, <2>2 DEF TypeOK, gapVars, logVars
<1>5. ASSUME NEW c \in Caller, BeginCaller(c) PROVE TypeOK'
  BY <1>2, <1>5 DEF BeginCaller, Owner, TypeOK, gapVars, logVars
<1>6. ASSUME NEW c \in Caller, Probe(c) PROVE TypeOK'
  <2>1. caller' \in [Caller -> {"idle", "waiting", "flushing", "done"}] /\ retry' \in BOOLEAN
    BY <1>6 DEF Probe, TypeOK
  <2>2. errors' \in 0..MaxErrors
    BY <1>6, SizeAssumption DEF Probe, TypeOK
  <2>3. UNCHANGED <<call, queue, failed, flush, run, down, seen, gapVars, logVars, discarded>>
    BY <1>6 DEF Probe
  <2> QED BY <2>1, <2>2, <2>3 DEF TypeOK, gapVars, logVars
<1>7. ASSUME NEW e \in Entry, Receive(e) PROVE TypeOK'
  BY <1>7 DEF Receive, TypeOK, procVars, gapVars, logVars
<1>8. CASE Collected
  BY <1>8 DEF Collected, TypeOK, procVars, gapVars, logVars
<1>9. CASE PersistFailed \/ PersistBatch
  BY <1>9 DEF PersistFailed, PersistBatch, Goto, TypeOK, procVars, gapVars
<1>10. CASE PrepareMarker
  <2>1. marker' \in [id : Nat, count : Nat]
    BY <1>10 DEF PrepareMarker, GapMarker, TypeOK
  <2>2. FlushType'
    BY <1>10, GotoType DEF PrepareMarker
  <2> QED BY <1>10, <2>1, <2>2 DEF PrepareMarker, FlushType, TypeOK, logVars
<1>11. CASE NoGap
  <2>1. FlushType'
    BY <1>11, AfterGapType DEF NoGap
  <2> QED BY <1>11, <2>1 DEF NoGap, FlushType, TypeOK, gapVars, logVars
<1>12. CASE PersistMarker
  <2>1. FlushType'
    BY <1>12, AfterGapType DEF PersistMarker
  <2>2. /\ markers' \subseteq Nat /\ reported' \in Nat /\ gapPending' \in Nat
        /\ marker' \in [id : Nat, count : Nat]
    BY <1>12 DEF PersistMarker, StoreMarker, Remaining, TypeOK
  <2> QED BY <1>12, <2>1, <2>2 DEF PersistMarker, FlushType, TypeOK
<1>13. CASE PersistError
  <2>1. InFlight \in [entries : SUBSET Entry, marker : [id : Nat, count : Nat]]
    BY DEF InFlight, NoMarker, TypeOK
  <2>2. Retained \subseteq Entry
    BY DEF Retained, TypeOK
  <2>3. FlushType'
    BY <1>13, FinishType DEF PersistError
  <2>4. errors' \in 0..MaxErrors
    BY <1>13, SizeAssumption DEF PersistError, TypeOK
  <2>5. \A b \in limbo' : b \in [entries : SUBSET Entry, marker : [id : Nat, count : Nat]]
    BY <1>13, <2>1 DEF PersistError, TypeOK
  <2> QED BY <1>13, <2>2, <2>3, <2>4, <2>5 DEF PersistError, FlushType, TypeOK, gapVars
<1>14. ASSUME NEW b \in limbo, Land(b) PROVE TypeOK'
  <2>0. b.marker.id \in Nat /\ b.marker.count \in Nat
    BY DEF TypeOK
  <2>1. markers' \subseteq Nat /\ reported' \in Nat
    <3>1. CASE b.marker.count > 0
      <4>1. StoreMarker(b.marker)
        BY <1>14, <3>1 DEF Land
      <4>2. markers \subseteq Nat /\ reported \in Nat
        BY DEF TypeOK
      <4>3. markers' = markers \cup {b.marker.id}
        BY <4>1 DEF StoreMarker
      <4>4. reported' = reported \/ reported' = reported + b.marker.count
        BY <4>1 DEF StoreMarker
      <4>5. markers' \subseteq Nat
        BY <2>0, <4>2, <4>3
      <4>6. reported' \in Nat
        BY <2>0, <4>2, <4>4
      <4> QED BY <4>5, <4>6
    <3>2. CASE ~(b.marker.count > 0)
      BY <1>14, <3>2 DEF Land, TypeOK
    <3> QED BY <3>1, <3>2
  <2>2. stored' \subseteq Entry
    BY <1>14 DEF Land, TypeOK
  <2> QED BY <1>14, <2>1, <2>2 DEF Land, TypeOK, procVars, gapVars
<1>15. CASE RetryExpires \/ RequestShutdown \/ WorkerDone \/ Abandon
  BY <1>15 DEF RetryExpires, RequestShutdown, WorkerDone, Abandon, TypeOK, procVars, gapVars, logVars
<1>16. CASE BeginShutdown
  BY <1>2, <1>16 DEF BeginShutdown, Owner, TypeOK, gapVars, logVars
<1>17. CASE Discard
  <2>1. Cardinality(failed) \in Nat /\ Cardinality(queue) \in Nat
    BY FS_Subset, FS_CardinalityType, EntryAssumption DEF TypeOK
  <2> QED BY <1>17, <2>1 DEF Discard, MarkGap, TypeOK, logVars
<1>18. CASE UNCHANGED vars
  BY <1>18 DEF TypeOK, vars, procVars, gapVars, logVars
<1> QED
  BY <1>1, <1>3, <1>4, <1>5, <1>6, <1>7, <1>8, <1>9, <1>10, <1>11, <1>12, <1>13, <1>14, <1>15, <1>16, <1>17, <1>18
     DEF Next, FlushStep, Reader, Shutdown

-----------------------------------------------------------------------------
(* What the steps of a flush do to it.                                     *)

LEMMA GotoEffect ==
  ASSUME TypeOK, NEW p, Goto(p)
  PROVE  /\ flush' = [owner |-> flush.owner, phase |-> p, batch |-> {}, more |-> flush.more]
         /\ UNCHANGED <<caller, run, down, seen>>
BY DEF TypeOK, Goto, procVars

LEMMA AfterGapEffect ==
  ASSUME TypeOK, AfterGap
  PROVE  \/ /\ flush.more
            /\ flush' = [owner |-> flush.owner, phase |-> "take", batch |-> {}, more |-> flush.more]
            /\ UNCHANGED <<caller, run, down, seen>>
         \/ ~flush.more /\ Finish(TRUE)
BY GotoEffect DEF AfterGap

LEMMA CollectedEffect ==
  ASSUME TypeOK, Collected
  PROVE  /\ flush'.owner = flush.owner /\ flush'.batch = flush.batch
         /\ flush'.phase = IF flush.batch = {} THEN "gap" ELSE "persist"
         /\ flush'.more \/ queue = {}
BY DEF TypeOK, Collected

LEMMA ReceiveEffect ==
  ASSUME TypeOK, NEW e \in Entry, Receive(e)
  PROVE  flush' = [owner |-> flush.owner, phase |-> flush.phase, batch |-> flush.batch \cup {e},
                   more |-> flush.more]
BY DEF TypeOK, Receive

-----------------------------------------------------------------------------
(* Batches.                                                                *)

LEMMA FlushStepInv == TypeOK /\ FlushInv /\ [Next]_vars => FlushInv'
<1> SUFFICES ASSUME TypeOK, FlushInv, [Next]_vars PROVE FlushInv'
  OBVIOUS
<1>1. ASSUME UNCHANGED <<failed, flush>> PROVE FlushInv'
  BY <1>1 DEF FlushInv
<1>2. ASSUME NEW e \in Entry, WriteLog(e) PROVE FlushInv'
  BY <1>1, <1>2 DEF WriteLog, BeginAdmission, Stopped, Enqueue, Drop, Return
<1>3. ASSUME NEW o \in Owner, Begin(o), UNCHANGED failed PROVE FlushInv'
  BY <1>3 DEF Begin, FlushInv
<1>4. CASE BeginRun \/ BeginExit \/ BeginShutdown
  BY <1>3, <1>4 DEF BeginRun, BeginExit, BeginShutdown, Owner
<1>5. ASSUME NEW c \in Caller, CallFlush(c) \/ Reader(c) PROVE FlushInv'
  BY <1>1, <1>3, <1>5 DEF CallFlush, Reader, BeginCaller, Deferred, CallerReturns, Probe, Owner
<1>6. CASE FlushStep
  <2>1. ASSUME NEW e \in Entry, Receive(e) PROVE FlushInv'
    BY <2>1, ReceiveEffect DEF Receive, FlushInv
  <2>2. CASE Collected
    BY <2>2, CollectedEffect DEF Collected, FlushInv
  <2>3. CASE PrepareMarker \/ PersistFailed \/ PersistBatch
    BY <2>3, GotoEffect DEF PrepareMarker, PersistFailed, PersistBatch, FlushInv
  <2>4. CASE NoGap \/ PersistMarker
    BY <2>4, AfterGapEffect DEF NoGap, PersistMarker, Finish, NoFlush, FlushInv
  <2> QED BY <1>6, <2>1, <2>2, <2>3, <2>4 DEF FlushStep
<1>7. CASE PersistError
  BY <1>7 DEF PersistError, Finish, NoFlush, FlushInv
<1>8. ASSUME NEW b \in limbo, Land(b) PROVE FlushInv'
  BY <1>1, <1>8 DEF Land
<1>9. CASE RetryExpires \/ RequestShutdown \/ WorkerDone \/ Abandon \/ UNCHANGED vars
  BY <1>1, <1>9 DEF RetryExpires, RequestShutdown, WorkerDone, Abandon, vars
<1>10. CASE Discard
  BY <1>10 DEF Discard, FlushInv
<1> QED
  BY <1>2, <1>4, <1>5, <1>6, <1>7, <1>8, <1>9, <1>10 DEF Next, Shutdown

LEMMA VanishStep == TypeOK /\ FlushInv /\ NothingVanishes /\ [Next]_vars => NothingVanishes'
<1> SUFFICES ASSUME TypeOK, FlushInv, NothingVanishes, [Next]_vars PROVE NothingVanishes'
  OBVIOUS
<1> DEFINE Kept(e) == e \in queue \/ e \in flush.batch \/ e \in failed \/ e \in stored \/ e \in discarded
<1>1. ASSUME UNCHANGED call, (\A x \in Entry : Kept(x) => Kept(x)') PROVE NothingVanishes'
  BY <1>1 DEF NothingVanishes
<1>2. ASSUME NEW e \in Entry, WriteLog(e) PROVE NothingVanishes'
  BY <1>2 DEF WriteLog, BeginAdmission, Stopped, Enqueue, Drop, Return, Step, NothingVanishes, TypeOK, logVars
<1>3. ASSUME NEW o \in Owner, Begin(o) PROVE flush'.batch = flush.batch
  BY <1>3 DEF Begin, FlushInv
<1>4. CASE BeginRun \/ BeginExit \/ BeginShutdown
  BY <1>1, <1>3, <1>4 DEF BeginRun, BeginExit, BeginShutdown, Owner, logVars
<1>5. ASSUME NEW c \in Caller, CallFlush(c) \/ Reader(c) PROVE NothingVanishes'
  BY <1>1, <1>3, <1>5 DEF CallFlush, Reader, BeginCaller, Deferred, CallerReturns, Probe, Owner, logVars
<1>6. CASE FlushStep
  <2>1. ASSUME NEW e \in Entry, Receive(e) PROVE (\A x \in Entry : Kept(x) => Kept(x)')
    BY <2>1, ReceiveEffect DEF Receive, logVars
  <2>2. ASSUME Collected PROVE (\A x \in Entry : Kept(x) => Kept(x)')
    BY <2>2, CollectedEffect DEF Collected, logVars
  <2>3. ASSUME NoGap \/ PrepareMarker \/ PersistMarker PROVE (\A x \in Entry : Kept(x) => Kept(x)')
    BY <2>3 DEF NoGap, PrepareMarker, PersistMarker, FlushInv, logVars
  <2>4. ASSUME PersistFailed \/ PersistBatch PROVE (\A x \in Entry : Kept(x) => Kept(x)')
    BY <2>4, GotoEffect DEF PersistFailed, PersistBatch, FlushInv
  <2>5. UNCHANGED call
    BY <1>6 DEF FlushStep, Receive, Collected, NoGap, PrepareMarker, PersistFailed, PersistBatch, PersistMarker
  <2> QED BY <1>1, <1>6, <2>1, <2>2, <2>3, <2>4, <2>5 DEF FlushStep
<1>7. CASE PersistError
  <2>1. (\A x \in Entry : Kept(x) => Kept(x)')
    BY <1>7 DEF PersistError, Writing, Retained, FlushInv
  <2> QED BY <1>1, <1>7, <2>1 DEF PersistError
<1>8. ASSUME NEW b \in limbo, Land(b) PROVE NothingVanishes'
  BY <1>1, <1>8 DEF Land
<1>9. CASE RetryExpires \/ RequestShutdown \/ WorkerDone \/ Abandon \/ UNCHANGED vars
  BY <1>1, <1>9 DEF RetryExpires, RequestShutdown, WorkerDone, Abandon, vars, logVars
<1>10. CASE Discard
  BY <1>1, <1>10 DEF Discard, logVars
<1> QED
  BY <1>2, <1>4, <1>5, <1>6, <1>7, <1>8, <1>9, <1>10 DEF Next, Shutdown

-----------------------------------------------------------------------------
(* Gaps.                                                                   *)

GapInv == MarkerInv /\ GapsAccounted

(* A marker is stored: the pending count and the reported one agree on it  *)
(* whether or not it was there before.                                     *)
LEMMA StoreMarkerStep ==
  ASSUME TypeOK, GapInv, StoreMarker(marker), marker.count > 0
  PROVE  /\ dropped = reported' + gapPending - marker.count
         /\ marker.id \in markers'
         /\ \A i \in markers' : i <= marker.id
<1>1. marker.id \in Nat /\ marker.count \in Nat /\ gapPending \in Nat /\ reported \in Nat
  BY DEF TypeOK
<1>2. CASE marker.id \in markers
  BY <1>1, <1>2 DEF GapInv, MarkerInv, GapsAccounted, StoreMarker
<1>3. CASE marker.id \notin markers
  BY <1>1, <1>3 DEF GapInv, MarkerInv, GapsAccounted, StoreMarker
<1> QED BY <1>2, <1>3

LEMMA GapStep == TypeOK /\ GapInv /\ [Next]_vars => GapInv'
<1> SUFFICES ASSUME TypeOK, GapInv, [Next]_vars PROVE GapInv'
  OBVIOUS
<1>0. /\ marker.id \in Nat /\ marker.count \in Nat /\ gapPending \in Nat
      /\ reported \in Nat /\ dropped \in Nat
  BY DEF TypeOK
<1>1. ASSUME UNCHANGED <<gapVars, logVars>>, flush'.phase # "marker" \/ UNCHANGED flush
      PROVE  GapInv'
  BY <1>1 DEF GapInv, MarkerInv, GapsAccounted, gapVars, logVars
<1>2. ASSUME NEW n \in Nat, MarkGap(n), UNCHANGED <<logVars, flush>> PROVE GapInv'
  <2>1. MarkerInv'
    BY <1>0, <1>2 DEF MarkGap, GapInv, MarkerInv, logVars
  <2>2. GapsAccounted'
    BY <1>0, <1>2 DEF MarkGap, GapInv, GapsAccounted, logVars
  <2> QED BY <2>1, <2>2 DEF GapInv
<1>3. ASSUME NEW e \in Entry, WriteLog(e) PROVE GapInv'
  BY <1>1, <1>2, <1>3 DEF WriteLog, BeginAdmission, Stopped, Enqueue, Drop, Return
<1>4. CASE BeginRun \/ BeginExit \/ BeginShutdown
  BY <1>1, <1>4 DEF BeginRun, BeginExit, BeginShutdown, Begin
<1>5. ASSUME NEW c \in Caller, CallFlush(c) \/ Reader(c) PROVE GapInv'
  BY <1>1, <1>5 DEF CallFlush, Reader, BeginCaller, Begin, Deferred, CallerReturns, Probe
<1>6. ASSUME NEW e \in Entry, Receive(e) PROVE GapInv'
  BY <1>1, <1>6, ReceiveEffect DEF Receive
<1>7. CASE Collected
  BY <1>1, <1>7, CollectedEffect DEF Collected
<1>8. CASE PersistFailed \/ PersistBatch
  BY <1>8, GotoEffect DEF PersistFailed, PersistBatch, GapInv, MarkerInv, GapsAccounted, gapVars
<1>9. CASE NoGap
  <2>1. flush'.phase # "marker"
    BY <1>9, AfterGapEffect DEF NoGap, Finish, NoFlush
  <2> QED BY <1>1, <1>9, <2>1 DEF NoGap
<1>10. CASE PrepareMarker
  <2>1. flush'.phase = "marker"
    BY <1>10, GotoEffect DEF PrepareMarker
  <2>2. CASE marker.count > 0
    BY <1>10, <2>1, <2>2 DEF PrepareMarker, GapMarker, GapInv, MarkerInv, GapsAccounted, logVars
  <2>3. CASE ~(marker.count > 0)
    <3>1. marker'.id = marker.id + 1 /\ marker'.count = gapPending /\ gapPending > 0
      BY <1>10, <2>3 DEF PrepareMarker, GapMarker
    <3>2. UNCHANGED <<gapPending, dropped, markers, reported, limbo>>
      BY <1>10 DEF PrepareMarker, logVars
    <3>3. marker.id + 1 \notin markers
      BY <1>0 DEF GapInv, MarkerInv
    <3>4. \A b \in limbo : b.marker.count > 0 => b.marker.id \in markers
      BY <2>3 DEF GapInv, MarkerInv
    <3>5. MarkerInv'
      BY <1>0, <2>1, <3>1, <3>2, <3>4 DEF GapInv, MarkerInv, TypeOK
    <3>6. GapsAccounted'
      BY <1>0, <2>3, <3>1, <3>2, <3>3 DEF GapInv, GapsAccounted
    <3> QED BY <3>5, <3>6 DEF GapInv
  <2> QED BY <2>2, <2>3
<1>11. CASE PersistMarker
  <2>1. marker.count > 0 /\ marker.count <= gapPending
    BY <1>11 DEF PersistMarker, GapInv, MarkerInv
  <2>2. /\ dropped = reported' + gapPending - marker.count
        /\ marker.id \in markers' /\ \A i \in markers' : i <= marker.id
    BY <1>11, <2>1, StoreMarkerStep DEF PersistMarker
  <2>3. marker'.id = marker.id /\ marker'.count = 0 /\ gapPending' = gapPending - marker.count
    BY <1>0, <1>11, <2>1 DEF PersistMarker, Remaining, TypeOK
  <2>4. UNCHANGED <<dropped, limbo>> /\ markers' = markers \cup {marker.id}
    BY <1>11 DEF PersistMarker, StoreMarker
  <2>5. flush'.phase # "marker"
    BY <1>11, AfterGapEffect DEF PersistMarker, Finish, NoFlush
  <2>6. MarkerInv'
    <3>1. \A b \in limbo : b.marker.count > 0 => b.marker.id \in markers'
      BY <2>4 DEF GapInv, MarkerInv
    <3> QED BY <1>0, <2>1, <2>2, <2>3, <2>4, <2>5, <3>1 DEF MarkerInv
  <2>7. reported' \in Nat
    BY TypeStep DEF TypeOK
  <2>8. GapsAccounted'
    BY <1>0, <2>1, <2>2, <2>3, <2>4, <2>7 DEF GapsAccounted
  <2> QED BY <2>6, <2>8 DEF GapInv
<1>12. CASE PersistError
  <2>1. \A b \in limbo' : b \in limbo \/ b.marker = NoMarker \/ b.marker = marker
    BY <1>12 DEF PersistError, InFlight
  <2>2. flush'.phase # "marker" /\ UNCHANGED <<gapPending, marker, dropped, markers, reported>>
    BY <1>12 DEF PersistError, Finish, NoFlush, gapVars
  <2> QED BY <2>1, <2>2 DEF GapInv, MarkerInv, GapsAccounted, NoMarker
<1>13. ASSUME NEW b \in limbo, Land(b) PROVE GapInv'
  <2>1. UNCHANGED <<gapPending, marker, dropped, flush>> /\ limbo' \subseteq limbo
    BY <1>13 DEF Land, gapVars
  <2>2. CASE b.marker.count > 0 /\ b.marker.id \notin markers
    <3>1. b.marker = marker /\ StoreMarker(marker)
      BY <1>13, <2>2 DEF Land, GapInv, MarkerInv
    <3>2. /\ dropped = reported' + gapPending - marker.count
          /\ marker.id \in markers' /\ \A i \in markers' : i <= marker.id
      BY <2>2, <3>1, StoreMarkerStep
    <3>3. markers \subseteq markers'
      BY <3>1 DEF StoreMarker
    <3> QED BY <2>1, <3>2, <3>3 DEF GapInv, MarkerInv, GapsAccounted
  <2>3. CASE ~(b.marker.count > 0 /\ b.marker.id \notin markers)
    <3>1. UNCHANGED <<markers, reported>>
      BY <1>13, <2>3 DEF Land, StoreMarker
    <3> QED BY <2>1, <3>1 DEF GapInv, MarkerInv, GapsAccounted
  <2> QED BY <2>2, <2>3
<1>14. CASE RetryExpires \/ RequestShutdown \/ WorkerDone \/ Abandon \/ UNCHANGED vars
  BY <1>1, <1>14 DEF RetryExpires, RequestShutdown, WorkerDone, Abandon, vars
<1>15. CASE Discard
  <2>1. Cardinality(failed) \in Nat /\ Cardinality(queue) \in Nat
    BY FS_Subset, FS_CardinalityType, EntryAssumption DEF TypeOK
  <2> QED BY <1>2, <1>15, <2>1 DEF Discard
<1> QED
  BY <1>3, <1>4, <1>5, <1>6, <1>7, <1>8, <1>9, <1>10, <1>11, <1>12, <1>13, <1>14, <1>15 DEF Next, FlushStep, Shutdown

-----------------------------------------------------------------------------
(* Flushes on behalf of a caller.                                          *)

(* What a flush has left to do for its owner: entries accepted before the  *)
(* call are in the table, in its batch or, while it goes on, in the queue. *)
OwnerInv ==
  \A c \in Caller :
    /\ \A e \in seen[c] : call[e] = "ok"
    /\ flush.owner = c /\ flush.phase # "idle" => caller[c] = "flushing"
    /\ flush.owner = c /\ flush.phase \notin {"idle", "failed"} =>
         seen[c] \subseteq stored \cup discarded \cup flush.batch \cup queue
    /\ flush.owner = c /\ flush.phase \in {"persist", "gap", "marker"} /\ ~flush.more =>
         seen[c] \subseteq stored \cup discarded \cup flush.batch

DurableInv == OwnerInv /\ FlushIsDurable

(* A flush on behalf of c returns nil: what c has to see is durable.       *)
LEMMA FinishDurable ==
  ASSUME TypeOK, FlushInv, DurableInv, flush.phase \in {"gap", "marker"}, ~flush.more,
         Finish(TRUE), UNCHANGED <<call, queue, discarded, stored>>
  PROVE  DurableInv'
<1>1. \A c \in Caller : flush.owner = c => seen[c] \subseteq stored \cup discarded
  BY DEF DurableInv, OwnerInv, FlushInv
<1>2. OwnerInv'
  BY DEF DurableInv, OwnerInv, Finish, NoFlush
<1>3. FlushIsDurable'
  BY <1>1 DEF DurableInv, FlushIsDurable, Finish
<1> QED BY <1>2, <1>3 DEF DurableInv

(* A flush on behalf of c goes on after a full batch.                      *)
LEMMA LoopDurable ==
  ASSUME TypeOK, FlushInv, DurableInv, flush.phase \in {"gap", "marker"},
         flush' = [owner |-> flush.owner, phase |-> "take", batch |-> {}, more |-> flush.more],
         UNCHANGED <<caller, seen, call, queue, discarded, stored>>
  PROVE  DurableInv'
<1>1. OwnerInv'
  BY DEF DurableInv, OwnerInv, FlushInv
<1>2. FlushIsDurable'
  BY DEF DurableInv, FlushIsDurable
<1> QED BY <1>1, <1>2 DEF DurableInv

LEMMA DurableStep ==
  TypeOK /\ FlushInv /\ NothingVanishes /\ DurableInv /\ [Next]_vars => DurableInv'
<1> SUFFICES ASSUME TypeOK, FlushInv, NothingVanishes, DurableInv, [Next]_vars PROVE DurableInv'
  OBVIOUS
<1>1. ASSUME UNCHANGED <<call, queue, flush, caller, seen, discarded>>, stored \subseteq stored'
      PROVE  DurableInv'
  BY <1>1 DEF DurableInv, OwnerInv, FlushIsDurable
<1>2. ASSUME NEW e \in Entry, WriteLog(e) PROVE DurableInv'
  <2>1. /\ UNCHANGED <<flush, caller, seen, stored, discarded>>
        /\ queue \subseteq queue'
        /\ \A x \in Entry : call[x] = "ok" => call'[x] = "ok"
    BY <1>2 DEF WriteLog, BeginAdmission, Stopped, Enqueue, Drop, Return, Step, procVars, logVars, TypeOK
  <2>2. \A c \in Caller : seen[c] \subseteq Entry
    BY DEF TypeOK
  <2> QED BY <2>1, <2>2 DEF DurableInv, OwnerInv, FlushIsDurable
<1>3. ASSUME NEW o \in Owner, Begin(o), UNCHANGED <<call, queue, seen, stored, discarded>>,
             \A c \in Caller : IF c = o THEN caller'[c] = "flushing" ELSE caller'[c] = caller[c]
      PROVE  DurableInv'
  <2>1. \A c \in Caller : seen[c] \subseteq queue \cup failed \cup stored \cup discarded
    BY <1>3 DEF DurableInv, OwnerInv, NothingVanishes, FlushInv, Begin, TypeOK
  <2>2. /\ flush'.owner = o /\ flush'.batch = {} /\ ~flush'.more
        /\ flush'.phase = IF failed = {} THEN "take" ELSE "failed"
    BY <1>3 DEF Begin
  <2>3. OwnerInv'
    BY <1>3, <2>1, <2>2 DEF DurableInv, OwnerInv
  <2>4. FlushIsDurable'
    BY <1>3 DEF DurableInv, FlushIsDurable
  <2> QED BY <2>3, <2>4 DEF DurableInv
<1>4. CASE BeginRun \/ BeginExit \/ BeginShutdown
  <2>1. "run" \notin Caller /\ "exit" \notin Caller /\ "shutdown" \notin Caller
    BY CallerAssumption
  <2> QED BY <1>3, <1>4, <2>1 DEF BeginRun, BeginExit, BeginShutdown, Owner, procVars, logVars
<1>5. ASSUME NEW c \in Caller, BeginCaller(c) PROVE DurableInv'
  BY <1>3, <1>5 DEF BeginCaller, Owner, logVars, TypeOK
<1>6. ASSUME NEW c \in Caller, CallFlush(c) PROVE DurableInv'
  BY <1>6 DEF CallFlush, DurableInv, OwnerInv, FlushIsDurable, logVars, TypeOK
<1>7. ASSUME NEW c \in Caller, Deferred(c) \/ CallerReturns(c) \/ Probe(c) PROVE DurableInv'
  BY <1>7 DEF Deferred, CallerReturns, Probe, DurableInv, OwnerInv, FlushIsDurable, logVars, TypeOK
<1>8. ASSUME NEW e \in Entry, Receive(e) PROVE DurableInv'
  BY <1>8, ReceiveEffect DEF Receive, DurableInv, OwnerInv, FlushIsDurable, procVars, logVars
<1>9. CASE Collected
  BY <1>9, CollectedEffect DEF Collected, DurableInv, OwnerInv, FlushIsDurable, procVars, logVars
<1>10. CASE PrepareMarker
  BY <1>10, GotoEffect DEF PrepareMarker, DurableInv, OwnerInv, FlushIsDurable, FlushInv, logVars
<1>11. CASE PersistBatch
  BY <1>11, GotoEffect DEF PersistBatch, DurableInv, OwnerInv, FlushIsDurable
<1>12. CASE PersistFailed
  <2>1. \A c \in Caller : seen[c] \subseteq queue \cup failed \cup stored \cup discarded
    BY <1>12 DEF PersistFailed, DurableInv, OwnerInv, NothingVanishes, FlushInv, TypeOK
  <2> QED BY <1>12, <2>1, GotoEffect DEF PersistFailed, DurableInv, OwnerInv, FlushIsDurable
<1>13. CASE NoGap
  BY <1>13, AfterGapEffect, FinishDurable, LoopDurable DEF NoGap, logVars
<1>14. CASE PersistMarker
  BY <1>14, AfterGapEffect, FinishDurable, LoopDurable DEF PersistMarker
<1>15. CASE PersistError
  BY <1>15 DEF PersistError, Finish, NoFlush, DurableInv, OwnerInv, FlushIsDurable
<1>16. ASSUME NEW b \in limbo, Land(b) PROVE DurableInv'
  BY <1>1, <1>16 DEF Land, procVars
<1>17. CASE RetryExpires \/ RequestShutdown \/ WorkerDone \/ Abandon \/ UNCHANGED vars
  BY <1>1, <1>17 DEF RetryExpires, RequestShutdown, WorkerDone, Abandon, vars, procVars, logVars
<1>18. CASE Discard
  BY <1>18 DEF Discard, DurableInv, OwnerInv, FlushIsDurable, logVars
<1> QED
  BY <1>2, <1>4, <1>5, <1>6, <1>7, <1>8, <1>9, <1>10, <1>11, <1>12, <1>13, <1>14, <1>15, <1>16, <1>17, <1>18
     DEF Next, FlushStep, Reader, Shutdown

-----------------------------------------------------------------------------
(* Shutdown.                                                               *)

(* From the end of the worker on there is no flush but those of callers    *)
(* and the final one; once that begins nobody can enqueue any more.        *)
SettleInv ==
  /\ down \in {"drain", "final", "discard", "ended"} => run = "done"
  /\ down \in {"final", "discard", "ended"} => AdmissionsOver
  /\ down = "final" => flush.owner = "shutdown" /\ flush.phase # "idle"
  /\ flush.owner = "shutdown" /\ flush.phase # "idle" => down = "final"
  /\ down = "final" /\ flush.phase \in {"persist", "gap", "marker"} /\ ~flush.more => queue = {}
  /\ ShutdownSettles

LEMMA SettleStep == TypeOK /\ FlushInv /\ SettleInv /\ [Next]_vars => SettleInv'
<1> SUFFICES ASSUME TypeOK, FlushInv, SettleInv, [Next]_vars PROVE SettleInv'
  OBVIOUS
<1>1. ASSUME UNCHANGED <<call, queue, failed, flush, run, down>> PROVE SettleInv'
  BY <1>1 DEF SettleInv, ShutdownSettles, AdmissionsOver
<1>2. ASSUME NEW e \in Entry, WriteLog(e) PROVE SettleInv'
  <2>1. UNCHANGED <<failed, flush, run, down>>
    BY <1>2 DEF WriteLog, BeginAdmission, Stopped, Enqueue, Drop, Return, procVars
  <2>2. ASSUME AdmissionsOver, down # "up" PROVE AdmissionsOver' /\ UNCHANGED queue
    BY <1>2, <2>2 DEF WriteLog, BeginAdmission, Stopped, Enqueue, Drop, Return, Step, AdmissionsOver, TypeOK
  <2> QED BY <2>1, <2>2 DEF SettleInv, ShutdownSettles
<1>3. CASE BeginRun \/ BeginExit
  BY <1>3 DEF BeginRun, BeginExit, Begin, SettleInv, ShutdownSettles, AdmissionsOver, procVars, TypeOK
<1>4. ASSUME NEW c \in Caller, BeginCaller(c) PROVE SettleInv'
  <2>1. c # "shutdown"
    BY CallerAssumption
  <2> QED BY <1>4, <2>1 DEF BeginCaller, Begin, SettleInv, ShutdownSettles, AdmissionsOver
<1>5. ASSUME NEW c \in Caller, CallFlush(c) \/ Deferred(c) \/ CallerReturns(c) \/ Probe(c) PROVE SettleInv'
  BY <1>1, <1>5 DEF CallFlush, Deferred, CallerReturns, Probe
<1>6. ASSUME NEW e \in Entry, Receive(e) PROVE SettleInv'
  BY <1>6, ReceiveEffect DEF Receive, SettleInv, ShutdownSettles, AdmissionsOver, procVars
<1>7. CASE Collected
  BY <1>7, CollectedEffect DEF Collected, SettleInv, ShutdownSettles, AdmissionsOver, procVars
<1>8. CASE PrepareMarker \/ PersistBatch \/ PersistFailed
  BY <1>8, GotoEffect DEF PrepareMarker, PersistBatch, PersistFailed, SettleInv, ShutdownSettles, AdmissionsOver
<1>9. CASE NoGap \/ PersistMarker
  <2>1. /\ flush.phase \in {"gap", "marker"} /\ AfterGap
        /\ UNCHANGED <<call, queue, failed>>
    BY <1>9 DEF NoGap, PersistMarker
  <2>2. CASE flush.more
    BY <2>1, <2>2, AfterGapEffect DEF SettleInv, ShutdownSettles, AdmissionsOver
  <2>3. CASE ~flush.more
    <3>1. Finish(TRUE)
      BY <2>1, <2>3, AfterGapEffect
    <3> QED BY <2>1, <2>3, <3>1 DEF Finish, NoFlush, FlushInv, SettleInv, ShutdownSettles, AdmissionsOver
  <2> QED BY <2>2, <2>3
<1>10. CASE PersistError
  <2>1. /\ Finish(FALSE) /\ UNCHANGED <<call, queue>> /\ flush.phase # "idle"
        /\ failed' = Retained
    BY <1>10 DEF PersistError, Writing
  <2> QED BY <2>1 DEF Finish, Retained, NoFlush, SettleInv, ShutdownSettles, AdmissionsOver
<1>11. ASSUME NEW b \in limbo, Land(b) PROVE SettleInv'
  BY <1>1, <1>11 DEF Land, procVars
<1>12. CASE RetryExpires \/ UNCHANGED vars
  BY <1>1, <1>12 DEF RetryExpires, vars, procVars
<1>13. CASE RequestShutdown \/ WorkerDone \/ Abandon
  BY <1>13 DEF RequestShutdown, WorkerDone, Abandon, SettleInv, ShutdownSettles, AdmissionsOver
<1>14. CASE BeginShutdown
  BY <1>14 DEF BeginShutdown, Begin, SettleInv, ShutdownSettles, AdmissionsOver
<1>15. CASE Discard
  BY <1>15 DEF Discard, FlushInv, SettleInv, ShutdownSettles, AdmissionsOver
<1> QED
  BY <1>2, <1>3, <1>4, <1>5, <1>6, <1>7, <1>8, <1>9, <1>10, <1>11, <1>12, <1>13, <1>14, <1>15
     DEF Next, FlushStep, Reader, Shutdown

-----------------------------------------------------------------------------
(* DroppedEvents.                                                          *)

Lost == {e \in Entry : call[e] = "dropped"}

(* An entry is in one place at a time, and only after it was admitted.     *)
PlaceInv ==
  /\ queue \cap flush.batch = {} /\ queue \cap failed = {} /\ queue \cap discarded = {}
  /\ flush.batch \cap discarded = {} /\ failed \cap discarded = {}
  /\ \A e \in queue \cup flush.batch \cup failed \cup discarded : call[e] \in {"queued", "ok", "late"}

CountInv == PlaceInv /\ DroppedIsExact

LEMMA DisjointUnion ==
  ASSUME NEW S, IsFiniteSet(S), NEW T, IsFiniteSet(T), S \cap T = {}
  PROVE  /\ IsFiniteSet(S \cup T)
         /\ Cardinality(S \cup T) = Cardinality(S) + Cardinality(T)
<1>1. Cardinality(S) \in Nat /\ Cardinality(T) \in Nat /\ Cardinality({}) = 0
  BY FS_CardinalityType, FS_EmptySet
<1>2. Cardinality(S \cup T) = Cardinality(S) + Cardinality(T) - Cardinality(S \cap T)
  BY FS_Union
<1>3. IsFiniteSet(S \cup T)
  BY FS_Union
<1>4. Cardinality(S \cap T) = 0
  BY <1>1
<1>5. Cardinality(S \cup T) = Cardinality(S) + Cardinality(T)
  BY <1>1, <1>2, <1>4
<1> QED BY <1>3, <1>5

LEMMA CountStep == TypeOK /\ FlushInv /\ CountInv /\ [Next]_vars => CountInv'
<1> SUFFICES ASSUME TypeOK, FlushInv, CountInv, [Next]_vars PROVE CountInv'
  OBVIOUS
<1>0. /\ IsFiniteSet(Lost) /\ IsFiniteSet(discarded) /\ IsFiniteSet(failed) /\ IsFiniteSet(queue)
      /\ dropped = Cardinality(Lost) + Cardinality(discarded)
  BY FS_Subset, EntryAssumption DEF TypeOK, Lost, CountInv, DroppedIsExact
<1>1. ASSUME UNCHANGED <<call, dropped, discarded>>, PlaceInv' PROVE CountInv'
  BY <1>1 DEF CountInv, DroppedIsExact
<1>2. ASSUME UNCHANGED <<call, queue, failed, flush, dropped, discarded>> PROVE CountInv'
  BY <1>1, <1>2 DEF CountInv, PlaceInv
<1>3. ASSUME NEW e \in Entry, BeginAdmission(e) \/ Stopped(e) \/ Enqueue(e) \/ Return(e) PROVE CountInv'
  <2>1. PlaceInv'
    BY <1>3 DEF BeginAdmission, Stopped, Enqueue, Return, Step, CountInv, PlaceInv, TypeOK
  <2>2. Lost' = Lost
    BY <1>3 DEF BeginAdmission, Stopped, Enqueue, Return, Step, Lost, TypeOK
  <2>3. UNCHANGED <<dropped, discarded>>
    BY <1>3 DEF BeginAdmission, Stopped, Enqueue, Return, gapVars
  <2> QED BY <1>0, <2>1, <2>2, <2>3 DEF CountInv, DroppedIsExact, Lost
<1>4. ASSUME NEW e \in Entry, Drop(e) PROVE CountInv'
  <2>1. PlaceInv'
    BY <1>4 DEF Drop, Step, CountInv, PlaceInv, TypeOK
  <2>2. Lost' = Lost \cup {e} /\ e \notin Lost
    BY <1>4 DEF Drop, Step, Lost, TypeOK
  <2>3. Cardinality(Lost') = Cardinality(Lost) + 1
    BY <1>0, <2>2, FS_AddElement
  <2>4. dropped' = dropped + 1 /\ UNCHANGED discarded
    BY <1>4 DEF Drop, MarkGap
  <2>5. Cardinality(Lost) \in Nat /\ Cardinality(discarded) \in Nat
    BY <1>0, FS_CardinalityType
  <2>6. DroppedIsExact'
    BY <1>0, <2>3, <2>4, <2>5 DEF DroppedIsExact, Lost
  <2> QED BY <2>1, <2>6 DEF CountInv
<1>5. ASSUME NEW o, Begin(o), UNCHANGED <<call, queue, failed, dropped, discarded>> PROVE CountInv'
  BY <1>1, <1>5 DEF Begin, CountInv, PlaceInv
<1>6. CASE BeginRun \/ BeginExit \/ BeginShutdown
  BY <1>5, <1>6 DEF BeginRun, BeginExit, BeginShutdown, gapVars
<1>7. ASSUME NEW c \in Caller, CallFlush(c) \/ Reader(c) PROVE CountInv'
  BY <1>2, <1>5, <1>7 DEF CallFlush, Reader, BeginCaller, Deferred, CallerReturns, Probe, gapVars
<1>8. CASE FlushStep
  <2>0. UNCHANGED <<call, dropped, discarded>>
    BY <1>8 DEF FlushStep, Receive, Collected, NoGap, PrepareMarker, PersistFailed, PersistBatch, PersistMarker, gapVars
  <2>1. ASSUME NEW e \in Entry, Receive(e) PROVE PlaceInv'
    BY <2>1, ReceiveEffect DEF Receive, CountInv, PlaceInv, FlushInv
  <2>2. ASSUME Collected PROVE PlaceInv'
    BY <2>2, CollectedEffect DEF Collected, CountInv, PlaceInv
  <2>3. ASSUME PrepareMarker \/ PersistFailed \/ PersistBatch PROVE PlaceInv'
    BY <2>3, GotoEffect DEF PrepareMarker, PersistFailed, PersistBatch, CountInv, PlaceInv
  <2>4. ASSUME NoGap \/ PersistMarker PROVE PlaceInv'
    BY <2>4, AfterGapEffect DEF NoGap, PersistMarker, Finish, NoFlush, CountInv, PlaceInv
  <2> QED BY <1>1, <1>8, <2>0, <2>1, <2>2, <2>3, <2>4 DEF FlushStep
<1>9. CASE PersistError
  <2>1. PlaceInv'
    BY <1>9 DEF PersistError, Retained, Finish, NoFlush, CountInv, PlaceInv
  <2> QED BY <1>1, <1>9, <2>1 DEF PersistError, gapVars
<1>10. ASSUME NEW b \in limbo, Land(b) PROVE CountInv'
  BY <1>2, <1>10 DEF Land, gapVars
<1>11. CASE RetryExpires \/ RequestShutdown \/ WorkerDone \/ Abandon \/ UNCHANGED vars
  BY <1>2, <1>11 DEF RetryExpires, RequestShutdown, WorkerDone, Abandon, vars, gapVars
<1>12. CASE Discard
  <2>1. PlaceInv'
    BY <1>12 DEF Discard, FlushInv, CountInv, PlaceInv
  <2>2. /\ (failed \cup queue) \cap discarded = {} /\ failed \cap queue = {}
        /\ discarded' = discarded \cup (failed \cup queue)
    BY <1>12 DEF Discard, CountInv, PlaceInv
  <2>3. /\ IsFiniteSet(failed \cup queue)
        /\ Cardinality(failed \cup queue) = Cardinality(failed) + Cardinality(queue)
    BY <1>0, <2>2, DisjointUnion
  <2>4. Cardinality(discarded') = Cardinality(discarded) + Cardinality(failed \cup queue)
    BY <1>0, <2>2, <2>3, DisjointUnion
  <2>5. /\ Cardinality(Lost) \in Nat /\ Cardinality(discarded) \in Nat
        /\ Cardinality(failed) \in Nat /\ Cardinality(queue) \in Nat
    BY <1>0, FS_CardinalityType
  <2>6. dropped' = dropped + (Cardinality(failed) + Cardinality(queue)) /\ UNCHANGED call
    BY <1>12 DEF Discard, MarkGap
  <2>7. DroppedIsExact'
    BY <1>0, <2>3, <2>4, <2>5, <2>6 DEF DroppedIsExact, Lost
  <2> QED BY <2>1, <2>7 DEF CountInv
<1> QED
  BY <1>3, <1>4, <1>6, <1>7, <1>8, <1>9, <1>10, <1>11, <1>12 DEF Next, WriteLog, Shutdown

-----------------------------------------------------------------------------
(* The theorems.                                                           *)

(* The inductive invariant. *)
IInv ==
  /\ TypeOK /\ FlushInv /\ NothingVanishes
  /\ GapInv /\ DurableInv /\ SettleInv /\ CountInv

LEMMA InitIInv == Init => IInv
<1> SUFFICES ASSUME Init PROVE IInv
  OBVIOUS
<1>1. TypeOK
  BY TypeInit
<1>2. FlushInv /\ NothingVanishes
  BY DEF Init, NoFlush, FlushInv, NothingVanishes
<1>3. GapInv
  BY DEF Init, NoFlush, NoMarker, GapInv, MarkerInv, GapsAccounted
<1>4. DurableInv
  BY DEF Init, NoFlush, DurableInv, OwnerInv, FlushIsDurable
<1>5. SettleInv
  BY DEF Init, NoFlush, SettleInv, ShutdownSettles
<1>6. CountInv
  <2>1. {e \in Entry : call[e] = "dropped"} = {}
    BY DEF Init
  <2>2. Cardinality({}) = 0
    BY FS_EmptySet
  <2> QED BY <2>1, <2>2 DEF Init, NoFlush, CountInv, PlaceInv, DroppedIsExact
<1> QED BY <1>1, <1>2, <1>3, <1>4, <1>5, <1>6 DEF IInv

LEMMA Inductive == Spec => []IInv
<1>1. IInv /\ [Next]_vars => IInv'
  BY TypeStep, FlushStepInv, VanishStep, GapStep, DurableStep, SettleStep, CountStep DEF IInv
<1> QED BY <1>1, InitIInv, PTL DEF Spec

(* Every variable keeps its type, for every instance. *)
THEOREM TypeCorrect == Spec => []TypeOK
<1>1. IInv => TypeOK
  BY DEF IInv
<1> QED BY <1>1, Inductive, PTL

(* No entry that WriteLog put into the queue vanishes, whatever the order  *)
(* of flushes, failures, late commits and Shutdown.                        *)
THEOREM EntriesKept == Spec => []NothingVanishes
<1>1. IInv => NothingVanishes
  BY DEF IInv
<1> QED BY <1>1, Inductive, PTL

(* The gap markers in the table and the pending count make up              *)
(* DroppedEvents: flushGap reports every refused entry exactly once.       *)
THEOREM GapsReportedOnce == Spec => []GapsAccounted
<1>1. IInv => GapsAccounted
  BY DEF IInv, GapInv
<1> QED BY <1>1, Inductive, PTL

(* A flush that returned nil has made durable all its caller has to see.   *)
THEOREM FlushDurable == Spec => []FlushIsDurable
<1>1. IInv => FlushIsDurable
  BY DEF IInv, DurableInv
<1> QED BY <1>1, Inductive, PTL

(* A Shutdown that ran to its end leaves nothing behind.                   *)
THEOREM ShutdownLeavesNothing == Spec => []ShutdownSettles
<1>1. IInv => ShutdownSettles
  BY DEF IInv, SettleInv
<1> QED BY <1>1, Inductive, PTL

(* DroppedEvents is the number of entries refused or discarded.            *)
THEOREM DroppedExact == Spec => []DroppedIsExact
<1>1. IInv => DroppedIsExact
  BY DEF IInv, CountInv
<1> QED BY <1>1, Inductive, PTL

=============================================================================
