------------------------- MODULE AudioDelivery_proofs -------------------------
(***************************************************************************)
(* Theorems about AudioDelivery for every set of pages and every bound on  *)
(* chunks, recorders, trouble and crashes.  Three arguments:               *)
(*   - delivery: whatever copy of a chunk or of its request id exists, in  *)
(*     a run, on the wire or at the server, is the one the archive and the *)
(*     job hold, and after the deletion the one the server holds;          *)
(*   - recording: while no capture has failed, the one recorder that is    *)
(*     not done holds the lock of the session and numbers its chunks from  *)
(*     the end of the archive;                                             *)
(*   - one tab: what its ending reads and freezes is the whole archive, and *)
(*     a clean checkpoint means that the last recorder has written.        *)
(***************************************************************************)
EXTENDS AudioDelivery, FiniteSetTheorems, WellFoundedInduction, TLAPS

(* The chunk of a sequence number: the archive's, until it is deleted; the *)
(* server then holds all of it.                                            *)
Held == IF receipt THEN rows ELSE archive

HeldInv ==
  /\ \A n \in SeqNos : rows[n] \in {0, Held[n]}
  /\ \A p \in Pages, n \in SeqNos : pump[p].todo[n] \in {0, Held[n]}
  /\ \A u \in wire : u.chunk = Held[u.no]

(* The request id of a chunk: the job's, until it is deleted with the      *)
(* archive; what is still under way has then been answered before.         *)
IdsInv ==
  /\ \A n \in SeqNos : rows[n] # 0 <=> \E i \in Pages : <<n, i>> \in answered
  /\ ~receipt =>
       /\ \A a \in answered : requestId[a[1]] = a[2]
       /\ \A u \in wire : requestId[u.no] = u.id
       /\ \A p \in Pages, n \in SeqNos : pump[p].ids[n] \in {NoPage, requestId[n]}
       /\ \A n \in SeqNos : requestId[n] # NoPage => archive[n] # 0
  /\ receipt =>
       /\ \A a, b \in answered : a[1] = b[1] => a = b
       /\ \A u \in wire : <<u.no, u.id>> \in answered
       /\ \A p \in Pages, n \in SeqNos :
            pump[p].ids[n] # NoPage => <<n, pump[p].ids[n]>> \in answered

(* A run has a chunk to deliver; one that was acknowledged is held.        *)
PumpInv ==
  \A p \in Pages :
    /\ pump[p].stage = "idle" <=> pump[p].todo = NoChunks
    /\ pump[p].stage = "ack" => rows[Current(p)] = pump[p].todo[Current(p)]

(* A job is made once; it is gone when the archive is.                     *)
JobInv ==
  /\ HasJob \/ receipt => session # "ready"
  /\ receipt => ~HasJob
  /\ ~HasJob => ~job.stopped

(* The deletion keeps the lock, and what it has verified stays true.       *)
DeleteInv ==
  /\ deleter.stage # "idle" => lock = Deleter
  /\ deleter.stage = "verified" => Complete /\ rows = deleter.seen

DeliveryInv == HeldInv /\ IdsInv /\ PumpInv /\ JobInv /\ DeleteInv

-----------------------------------------------------------------------------
Live(r) == rec[r].state \in {"recording", "tail", "closed"}

(* A recorder that is not used knows nothing, and is nobody's runtime. *)
UnusedInv ==
  /\ \A r \in Recordings :
       IF rec[r].state = "unused" THEN rec[r] = Unused ELSE rec[r].page \in Pages
  /\ \A p \in Pages : runtime[p] # 0 => rec[runtime[p]].page = p

(* A runtime is recording under the lock, and its page ends nothing. *)
RuntimeOK(p) ==
  runtime[p] # 0 =>
    /\ rec[runtime[p]].state = "recording" /\ rec[runtime[p]].page = p
    /\ ~rec[runtime[p]].failing
    /\ end[p].stage = "idle"

(* A live recorder has the lock; its page runs it or waits for it.         *)
LiveOK(r) ==
  Live(r) =>
    /\ lock = rec[r].page
    /\ \/ runtime[rec[r].page] = r
       \/ runtime[rec[r].page] = 0 /\ end[rec[r].page].stage \in {"stopping", "interrupting"}

(* It numbers its chunks from the end of the archive. *)
NumbersOK(r) ==
  IF Live(r)
  THEN /\ rec[r].next = nextNo + Len(rec[r].chain)
       /\ \A i \in 1 .. Len(rec[r].chain) : rec[r].chain[i] = nextNo + i - 1
  ELSE rec[r].chain = <<>>

Custody ==
  /\ \A p \in Pages : RuntimeOK(p)
  /\ \A r \in Recordings : LiveOK(r) /\ NumbersOK(r)
  /\ \A r, q \in Recordings : Live(r) /\ Live(q) => r = q
  /\ \A n \in SeqNos : archive[n] # 0 => n < nextNo

CustodyInv == failures = 0 => Custody

Inv == TypeOK /\ DeliveryInv /\ UnusedInv /\ CustodyInv

-----------------------------------------------------------------------------
(* Lemmas about the operators                                              *)

(* A set of natural numbers that is not empty has a least one. *)
LEMMA SmallestOf ==
  ASSUME NEW S \in SUBSET Nat, S # {}
  PROVE  Min(S) \in S /\ \A k \in S : Min(S) <= k
<1> DEFINE R == OpToRel(<, Nat)
<1>1. IsWellFoundedOn(R, Nat)
  BY NatLessThanWellFounded
<1>2. \A a, b \in Nat : <<a, b>> \in R <=> a < b
  BY DEF OpToRel
<1> HIDE DEF R
<1>3. PICK m \in S : \A k \in S : ~(<<k, m>> \in R)
  BY <1>1, WFMin, Zenon
<1>4. \A k \in S : m <= k
  <2> TAKE k \in S
  <2>1. m \in Nat /\ k \in Nat /\ ~(k < m)
    BY <1>2, <1>3
  <2> QED BY <2>1
<1> QED BY <1>4 DEF Min

(* The constants *)
LEMMA Bounds ==
  /\ MaxChunks \in Nat /\ MaxRecordings \in Nat /\ MaxTrouble \in Nat /\ MaxCrashes \in Nat
  /\ SeqNos \subseteq Nat /\ \A n \in SeqNos : n < MaxChunks /\ n + 1 \in 0 .. MaxChunks
  /\ Pages \subseteq Ids /\ NoPage \in Ids /\ NoPage \notin Pages
  /\ Deleter \notin Ids
BY PageAssumption, BoundAssumption DEF SeqNos, Ids

LEMMA NoneTypes ==
  NoChunks \in ChunkMap /\ NoIds \in [SeqNos -> Ids]
BY Bounds DEF NoChunks, NoIds, ChunkMap

(* The chunk a run is at is one it has to deliver. *)
LEMMA CurrentFacts ==
  ASSUME TypeOK, NEW p \in Pages, pump[p].todo # NoChunks
  PROVE  /\ Current(p) \in SeqNos
         /\ pump[p].todo[Current(p)] # 0
<1>1. pump[p].todo \in [SeqNos -> 0 .. MaxRecordings]
  BY DEF TypeOK, PumpRecords, ChunkMap
<1>2. PICK n \in SeqNos : pump[p].todo[n] # 0
  BY <1>1 DEF NoChunks
<1>3. Present(pump[p].todo) \in SUBSET Nat /\ Present(pump[p].todo) # {}
  BY <1>2, Bounds DEF Present
<1>4. Current(p) \in Present(pump[p].todo)
  BY <1>3, SmallestOf DEF Current
<1> QED BY <1>4 DEF Present

(* An archive has at most MaxChunks chunks. *)
LEMMA CountFacts ==
  ASSUME NEW m \in ChunkMap
  PROVE  Count(m) \in 0 .. MaxChunks
<1>1. MaxChunks \in Nat /\ MaxChunks # 0
  BY BoundAssumption
<1>2. IsFiniteSet(SeqNos) /\ Cardinality(SeqNos) = MaxChunks
  <2>1. 0 \in Int /\ MaxChunks - 1 \in Int /\ 0 <= MaxChunks - 1
    BY <1>1
  <2>2. IsFiniteSet(0 .. (MaxChunks - 1))
        /\ Cardinality(0 .. (MaxChunks - 1)) = (MaxChunks - 1) - 0 + 1
    BY <2>1, FS_Interval
  <2> QED BY <2>2, <1>1 DEF SeqNos
<1>3. Present(m) \subseteq SeqNos
  BY DEF Present
<1>4. IsFiniteSet(Present(m)) /\ Cardinality(Present(m)) <= Cardinality(SeqNos)
  BY <1>2, <1>3, FS_Subset
<1>5. Cardinality(Present(m)) \in Nat
  BY <1>4, FS_CardinalityType
<1> QED BY <1>1, <1>2, <1>4, <1>5 DEF Count

(* What the recorders' helpers make of a recorder *)
LEMMA WithBlobFacts ==
  ASSUME NEW c \in RecRecords, c.next < MaxChunks
  PROVE  LET d == WithBlob(c)
         IN /\ d \in RecRecords
            /\ d.next = c.next + 1 /\ d.chain = Append(c.chain, c.next)
            /\ d.state = c.state /\ d.page = c.page /\ d.failing = c.failing
<1> DEFINE e == Append(c.chain, c.next)
           k == c.next + 1
<1>1. c.next \in SeqNos /\ k \in 0 .. MaxChunks /\ c.chain \in Seq(SeqNos)
  BY Bounds DEF RecRecords, SeqNos
<1>2. e \in Seq(SeqNos)
  BY <1>1
<1>3. WithBlob(c) = [c EXCEPT !.next = k, !.chain = e]
  BY DEF WithBlob
<1> HIDE DEF e, k
<1>4. LET d == [c EXCEPT !.next = k, !.chain = e]
      IN /\ d \in RecRecords
         /\ d.next = k /\ d.chain = e
         /\ d.state = c.state /\ d.page = c.page /\ d.failing = c.failing
  BY <1>1, <1>2 DEF RecRecords
<1> QED BY <1>3, <1>4 DEF k, e

LEMMA WrittenFacts ==
  ASSUME NEW c \in RecRecords, c.chain # <<>>
  PROVE  LET d == Written(c)
         IN /\ d \in RecRecords
            /\ d.chain = Tail(c.chain) /\ d.next = c.next
            /\ d.state = c.state /\ d.page = c.page /\ d.failing = c.failing
<1> DEFINE e == Tail(c.chain)
<1>1. e \in Seq(SeqNos)
  BY DEF RecRecords
<1>2. Written(c) = [c EXCEPT !.chain = e]
  BY DEF Written
<1> HIDE DEF e
<1>3. LET d == [c EXCEPT !.chain = e]
      IN /\ d \in RecRecords
         /\ d.chain = e /\ d.next = c.next
         /\ d.state = c.state /\ d.page = c.page /\ d.failing = c.failing
  BY <1>1 DEF RecRecords
<1> QED BY <1>2, <1>3 DEF e

LEMMA FailingFacts ==
  ASSUME NEW c \in RecRecords
  PROVE  LET d == Failing(c)
         IN /\ d \in RecRecords
            /\ d.state = IF c.state = "recording" THEN "tail" ELSE c.state
            /\ d.page = c.page /\ d.next = c.next /\ d.chain = c.chain
BY DEF Failing, RecRecords

LEMMA UnusedType == Unused \in RecRecords
<1>1. <<>> \in Seq(SeqNos) /\ 0 \in 0 .. MaxChunks
  BY Bounds
<1> QED BY <1>1, Bounds DEF Unused, RecRecords

(* One recorder changes. *)
LEMMA RecPut ==
  ASSUME TypeOK, NEW r \in Recordings, NEW c \in RecRecords, rec' = [rec EXCEPT ![r] = c]
  PROVE  /\ rec' \in [Recordings -> RecRecords]
         /\ rec'[r] = c /\ \A q \in Recordings : q # r => rec'[q] = rec[q]
BY DEF TypeOK

LEMMA UnusedStep ==
  ASSUME TypeOK, UnusedInv, NEW r \in Recordings, NEW c \in RecRecords,
         rec' = [rec EXCEPT ![r] = c], c.state # "unused", c.page = rec[r].page,
         c.page \in Pages, \A p \in Pages : runtime'[p] \in {0, runtime[p]}
  PROVE  UnusedInv'
<1>1. rec'[r] = c /\ \A q \in Recordings : q # r => rec'[q] = rec[q]
  BY RecPut
<1>2. \A q \in Recordings : rec'[q].page = rec[q].page
  BY <1>1
<1>3. \A p \in Pages : runtime'[p] # 0 => rec'[runtime'[p]].page = p
  <2> SUFFICES ASSUME NEW p \in Pages, runtime'[p] # 0 PROVE rec'[runtime'[p]].page = p
    OBVIOUS
  <2>1. runtime'[p] = runtime[p] /\ runtime[p] \in Recordings
    BY Bounds DEF TypeOK, Recordings
  <2> QED BY <1>2, <2>1 DEF UnusedInv
<1>4. \A q \in Recordings :
        IF rec'[q].state = "unused" THEN rec'[q] = Unused ELSE rec'[q].page \in Pages
  BY <1>1 DEF UnusedInv
<1> QED BY <1>3, <1>4 DEF UnusedInv

-----------------------------------------------------------------------------
(* Steps that touch only one of the two arguments                          *)

(* What a chunk's leaving the browser needs: what NothingLost says of a    *)
(* step.                                                                   *)
NothingLostStep ==
  \A n \in Present(archive) :
    (archive'[n] = 0 \/ (n \in pending /\ n \notin pending')) => rows'[n] = archive[n]

(* The deletion is left alone. *)
DeletionStays ==
  /\ deleter' = deleter
  /\ lock = Deleter => lock' = Deleter
  /\ Complete => Complete'

LEMMA DeletionFrame ==
  ASSUME DeleteInv, DeletionStays, rows' = rows
  PROVE  DeleteInv'
BY DEF DeleteInv, DeletionStays

(* A step that neither changes a chunk nor carries one keeps the delivery. *)
LEMMA DeliveryFrame ==
  ASSUME TypeOK, DeliveryInv, JobInv', DeletionStays,
         UNCHANGED <<archive, pending, requestId, receipt, rows, answered, wire, pump>>
  PROVE  DeliveryInv' /\ NothingLostStep
<1>1. HeldInv'
  BY DEF DeliveryInv, HeldInv, Held
<1>2. IdsInv'
  BY DEF DeliveryInv, IdsInv
<1>3. PumpInv'
  BY DEF DeliveryInv, PumpInv, Current
<1>4. DeleteInv'
  BY DeletionFrame DEF DeliveryInv
<1>5. NothingLostStep
  BY DEF NothingLostStep, Present
<1> QED BY <1>1, <1>2, <1>3, <1>4, <1>5 DEF DeliveryInv

(* An ending that nobody waits for in a recorder goes its own way. *)
EndStays ==
  \A p \in Pages :
    end[p].stage \in {"idle", "stopping", "interrupting"} => end'[p].stage = end[p].stage

LEMMA CustodyFrame ==
  ASSUME TypeOK, UnusedInv, CustodyInv, EndStays, failures <= failures', failures' \in Nat,
         UNCHANGED <<rec, runtime, lock, nextNo, archive>>
  PROVE  UnusedInv' /\ CustodyInv'
<1>1. UnusedInv'
  BY DEF UnusedInv
<1>2. ASSUME failures' = 0 PROVE Custody'
  <2>1. failures = 0
    BY <1>2 DEF TypeOK
  <2>2. Custody
    BY <2>1 DEF CustodyInv
  <2>3. \A p \in Pages : RuntimeOK(p)'
    BY <2>2 DEF Custody, RuntimeOK, EndStays
  <2>4. \A r \in Recordings : LiveOK(r)' /\ NumbersOK(r)'
    <3> SUFFICES ASSUME NEW r \in Recordings PROVE LiveOK(r)' /\ NumbersOK(r)'
      OBVIOUS
    <3>1. LiveOK(r) /\ NumbersOK(r)
      BY <2>2 DEF Custody
    <3>2. Live(r) => rec[r].page \in Pages
      BY DEF UnusedInv, Live, Unused
    <3>3. LiveOK(r)'
      BY <3>1, <3>2 DEF LiveOK, Live, EndStays
    <3>4. NumbersOK(r)'
      BY <3>1 DEF NumbersOK, Live
    <3> QED BY <3>3, <3>4
  <2> QED BY <2>2, <2>3, <2>4 DEF Custody, Live
<1> QED BY <1>1, <1>2 DEF CustodyInv

(* The endings of the other pages do not change. *)
LEMMA EndPut ==
  ASSUME TypeOK, NEW p \in Pages, NEW e \in EndRecords, end' = [end EXCEPT ![p] = e]
  PROVE  /\ end' \in [Pages -> EndRecords] /\ end'[p] = e
         /\ \A q \in Pages : q # p => end'[q] = end[q]
         /\ end[p].stage \notin {"idle", "stopping", "interrupting"} => EndStays
BY DEF TypeOK, EndStays

EndStages ==
  {"idle", "stopping", "interrupting", "read", "freeze", "submit", "flush", "flushing",
   "drain", "draining", "check", "complete", "confirm"}

LEMMA EndTypes ==
  ASSUME TypeOK, NEW p \in Pages
  PROVE  /\ end[p] \in EndRecords /\ IdleEnd \in EndRecords /\ IdleEnd.stage = "idle"
         /\ EndStops(p) = [end EXCEPT ![p] = IdleEnd]
         /\ \A s \in EndStages :
              LET e == [end[p] EXCEPT !.stage = s]
              IN e \in EndRecords /\ e.stage = s /\ e.seen = end[p].seen /\ e.id = end[p].id
                 /\ EndAt(p, s) = [end EXCEPT ![p] = e]
<1>1. end[p] \in EndRecords
  BY DEF TypeOK
<1>2. IdleEnd \in EndRecords
  BY NoneTypes, Bounds DEF IdleEnd, EndRecords
<1>3. \A s \in EndStages :
        LET e == [end[p] EXCEPT !.stage = s]
        IN e \in EndRecords /\ e.stage = s /\ e.seen = end[p].seen /\ e.id = end[p].id
  BY <1>1 DEF EndRecords, EndStages
<1>4. \A s \in EndStages : EndAt(p, s) = [end EXCEPT ![p] = [end[p] EXCEPT !.stage = s]]
  BY DEF EndAt, TypeOK
<1> QED BY <1>1, <1>2, <1>3, <1>4 DEF IdleEnd, EndStops

-----------------------------------------------------------------------------
(* The ending of a recording                                               *)

(* A step of an ending that reads the archive, or talks to the server, but *)
(* moves no chunk.                                                         *)
LEMMA EndingKeeps ==
  ASSUME Inv, TypeOK', JobInv', DeletionStays, EndStays, failures' = failures,
         UNCHANGED <<archive, pending, nextNo, requestId, receipt, rows, answered, wire, pump,
                     rec, runtime, lock>>
  PROVE  Inv' /\ NothingLostStep
<1>1. DeliveryInv' /\ NothingLostStep
  BY DeliveryFrame DEF Inv
<1>2. failures \in Nat
  BY Bounds DEF Inv, TypeOK
<1>3. UnusedInv' /\ CustodyInv'
  BY <1>2, CustodyFrame DEF Inv
<1> QED BY <1>1, <1>3 DEF Inv

LEMMA ReadArchiveKeeps ==
  ASSUME Inv, NEW p \in Pages, ReadArchive(p)
  PROVE  Inv' /\ NothingLostStep
<1> USE DEF Inv
<1>1. /\ end[p].stage = "read"
      /\ UNCHANGED <<storeVars, rec, runtime, pump, deleter, serverVars, wire, boundVars>>
  BY DEF ReadArchive
<1> DEFINE e == [stage |-> "freeze", seen |-> archive, id |-> IF job.id = NoPage THEN p ELSE job.id]
<1>2. e \in EndRecords /\ IdleEnd \in EndRecords
  BY Bounds, EndTypes DEF TypeOK, EndRecords, JobRecords
<1> HIDE DEF e
<1>3. \E x \in EndRecords : end' = [end EXCEPT ![p] = x]
  BY <1>2, EndTypes DEF ReadArchive, e
<1>4. end' \in [Pages -> EndRecords] /\ EndStays
  BY <1>1, <1>3, EndPut
<1>5. TypeOK'
  BY <1>1, <1>4 DEF TypeOK, storeVars, serverVars, boundVars
<1>6. JobInv' /\ DeletionStays
  BY <1>1 DEF JobInv, HasJob, DeletionStays, Complete, DeliveryInv, storeVars, serverVars
<1> QED BY <1>1, <1>4, <1>5, <1>6, EndingKeeps DEF storeVars, serverVars, boundVars

(* The ending stops, or goes on with its next stage. *)
LEMMA EndMoves ==
  ASSUME TypeOK, NEW p \in Pages,
         end' = EndStops(p) \/ \E s \in EndStages : end' = EndAt(p, s)
  PROVE  /\ end' \in [Pages -> EndRecords]
         /\ end[p].stage \notin {"idle", "stopping", "interrupting"} => EndStays
<1>1. CASE end' = EndStops(p)
  BY <1>1, EndTypes, EndPut
<1>2. ASSUME NEW s \in EndStages, end' = EndAt(p, s)
      PROVE  /\ end' \in [Pages -> EndRecords]
             /\ end[p].stage \notin {"idle", "stopping", "interrupting"} => EndStays
  <2> DEFINE e == [end[p] EXCEPT !.stage = s]
  <2>1. e \in EndRecords /\ end' = [end EXCEPT ![p] = e]
    BY <1>2, EndTypes
  <2> HIDE DEF e
  <2> QED BY <2>1, EndPut
<1> QED BY <1>1, <1>2

LEMMA FreezeJobKeeps ==
  ASSUME Inv, NEW p \in Pages, FreezeJob(p)
  PROVE  Inv' /\ NothingLostStep
<1> USE DEF Inv
<1>1. /\ end[p].stage = "freeze"
      /\ UNCHANGED <<archive, pending, nextNo, requestId, checkpoint, receipt, lock, rec,
                     runtime, pump, deleter, serverVars, wire, boundVars>>
  BY DEF FreezeJob
<1>2. end' = EndStops(p) \/ \E s \in EndStages : end' = EndAt(p, s)
  BY DEF FreezeJob, EndStages
<1>3. end' \in [Pages -> EndRecords] /\ EndStays
  BY <1>1, <1>2, EndMoves
<1>4. job' \in JobRecords /\ (job' # job => HasJob /\ HasJob')
  <2>1. end[p] \in EndRecords
    BY EndTypes
  <2>2. end[p].id \in Ids /\ Count(end[p].seen) \in -1 .. MaxChunks
    BY <2>1, CountFacts, Bounds DEF EndRecords
  <2>3. job' = job \/ (HasJob /\ job' = [status |-> "uploading", expected |-> Count(end[p].seen),
                                         stopped |-> TRUE, id |-> end[p].id])
    BY DEF FreezeJob
  <2>4. ASSUME NEW k \in -1 .. MaxChunks, NEW i \in Ids,
               job' = [status |-> "uploading", expected |-> k, stopped |-> TRUE, id |-> i]
        PROVE  job' \in JobRecords /\ job'.status # "none"
    BY <2>4 DEF JobRecords
  <2>5. job' = job => job' \in JobRecords
    BY DEF TypeOK
  <2> QED BY <2>2, <2>3, <2>4, <2>5 DEF HasJob
<1>5. TypeOK'
  BY <1>1, <1>3, <1>4 DEF TypeOK, serverVars, boundVars
<1>6. JobInv' /\ DeletionStays
  BY <1>1, <1>4 DEF JobInv, HasJob, DeletionStays, Complete, DeliveryInv, serverVars
<1> QED BY <1>1, <1>3, <1>5, <1>6, EndingKeeps DEF serverVars, boundVars

(* What the answer of the server does to the ending *)
LEMMA AnswerFacts ==
  ASSUME TypeOK, NEW p \in Pages, NEW s \in EndStages, NEW ok \in BOOLEAN, Answer(p, ok, s)
  PROVE  /\ end' = EndStops(p) \/ \E t \in EndStages : end' = EndAt(p, t)
         /\ failures' = failures => lost' \in 0 .. MaxTrouble
<1>1. failures \in Nat /\ lost \in Nat /\ MaxTrouble \in Nat /\ lost <= MaxTrouble
  BY Bounds DEF TypeOK
<1> QED BY <1>1 DEF Answer, MayFail, TypeOK

LEMMA SubmitEndKeeps ==
  ASSUME Inv, NEW p \in Pages, SubmitEnd(p)
  PROVE  Inv' /\ NothingLostStep
<1> USE DEF Inv
<1> DEFINE ok == FreezeAccepted(end[p].seen)
<1>1. /\ end[p].stage = "submit"
      /\ UNCHANGED <<storeVars, rec, runtime, pump, deleter, rows, completedBy, answered, wire,
                     failures, crashes>>
      /\ committed' = IF ok THEN end[p].seen ELSE committed
      /\ session' = IF ok /\ ~Finalized THEN "stopping" ELSE session
      /\ Answer(p, ok, "flush")
  BY DEF SubmitEnd
<1>2. ok \in BOOLEAN
  BY DEF FreezeAccepted
<1> HIDE DEF ok
<1>3. end' = EndStops(p) \/ \E s \in EndStages : end' = EndAt(p, s)
  BY <1>1, <1>2, AnswerFacts DEF EndStages
<1>4. lost' \in 0 .. MaxTrouble
  BY <1>1, <1>2, AnswerFacts DEF EndStages
<1>5. end' \in [Pages -> EndRecords] /\ EndStays
  BY <1>1, <1>3, EndMoves
<1>6. end[p].seen \in ChunkMap
  BY EndTypes DEF EndRecords
<1>7. TypeOK'
  BY <1>1, <1>4, <1>5, <1>6 DEF TypeOK, storeVars
<1>8. JobInv' /\ DeletionStays
  BY <1>1 DEF JobInv, HasJob, DeletionStays, Complete, DeliveryInv, storeVars
<1> QED BY <1>1, <1>5, <1>7, <1>8, EndingKeeps DEF storeVars

LEMMA RequestLostKeeps ==
  ASSUME Inv, NEW p \in Pages, RequestLost(p)
  PROVE  Inv' /\ NothingLostStep
<1> USE DEF Inv
<1>1. /\ end[p].stage \in {"submit", "complete"} /\ MayFail
      /\ end' = EndStops(p) /\ lost' = lost + 1
      /\ UNCHANGED <<storeVars, rec, runtime, pump, deleter, serverVars, wire, failures, crashes>>
  BY DEF RequestLost
<1>2. end' \in [Pages -> EndRecords] /\ EndStays
  BY <1>1, EndMoves
<1>3. lost' \in 0 .. MaxTrouble
  BY <1>1, Bounds DEF TypeOK, MayFail
<1>4. TypeOK'
  BY <1>1, <1>2, <1>3 DEF TypeOK, storeVars, serverVars
<1>5. JobInv' /\ DeletionStays
  BY <1>1 DEF JobInv, HasJob, DeletionStays, Complete, DeliveryInv, storeVars, serverVars
<1> QED BY <1>1, <1>2, <1>4, <1>5, EndingKeeps DEF storeVars, serverVars

(* The job of a step that changes only its status *)
LEMMA JobStatusFacts ==
  ASSUME TypeOK, NEW s \in {"recording", "uploading", "failed", "completing", "complete"},
         job' = [job EXCEPT !.status = s]
  PROVE  job' \in JobRecords /\ HasJob' /\ job'.stopped = job.stopped
BY DEF TypeOK, JobRecords, HasJob

LEMMA CheckJobKeeps ==
  ASSUME Inv, NEW p \in Pages, CheckJob(p)
  PROVE  Inv' /\ NothingLostStep
<1> USE DEF Inv
<1>1. /\ end[p].stage = "check"
      /\ UNCHANGED <<archive, pending, nextNo, requestId, checkpoint, receipt, lock, rec,
                     runtime, pump, deleter, serverVars, wire, boundVars>>
  BY DEF CheckJob
<1>2. end' = EndStops(p) \/ \E s \in EndStages : end' = EndAt(p, s)
  BY DEF CheckJob, EndStages
<1>3. end' \in [Pages -> EndRecords] /\ EndStays
  BY <1>1, <1>2, EndMoves
<1>4. job' = job \/ (job.stopped /\ job' = [job EXCEPT !.status = "completing"])
  BY DEF CheckJob, FrozenMatches
<1>5. job' \in JobRecords
  BY <1>4, JobStatusFacts DEF TypeOK
<1>6. TypeOK'
  BY <1>1, <1>3, <1>5 DEF TypeOK, serverVars, boundVars
<1>7. JobInv'
  <2>1. JobInv /\ session' = session /\ receipt' = receipt
    BY <1>1 DEF DeliveryInv, serverVars
  <2>2. CASE job' = job
    BY <2>1, <2>2 DEF JobInv, HasJob
  <2>3. CASE job.stopped /\ job' = [job EXCEPT !.status = "completing"]
    BY <2>1, <2>3, JobStatusFacts DEF JobInv
  <2> QED BY <1>4, <2>2, <2>3
<1>8. DeletionStays
  BY <1>1 DEF DeletionStays, Complete, serverVars
<1> QED BY <1>1, <1>3, <1>6, <1>7, <1>8, EndingKeeps DEF serverVars, boundVars

LEMMA CompleteEndKeeps ==
  ASSUME Inv, NEW p \in Pages, CompleteEnd(p)
  PROVE  Inv' /\ NothingLostStep
<1> USE DEF Inv
<1> DEFINE ok == CompleteAccepted(p)
           good == ok /\ rows = end[p].seen
<1>1. /\ end[p].stage = "complete"
      /\ UNCHANGED <<storeVars, rec, runtime, pump, deleter, rows, committed, answered, wire,
                     failures, crashes>>
      /\ completedBy' = IF ok /\ ~Complete THEN end[p].id ELSE completedBy
      /\ session' = IF ok /\ ~Complete THEN "processing" ELSE session
      /\ Answer(p, good, "confirm")
  BY DEF CompleteEnd
<1>2. good \in BOOLEAN
  BY DEF CompleteAccepted
<1> HIDE DEF ok, good
<1>3. end' = EndStops(p) \/ \E s \in EndStages : end' = EndAt(p, s)
  BY <1>1, <1>2, AnswerFacts DEF EndStages
<1>4. lost' \in 0 .. MaxTrouble
  BY <1>1, <1>2, AnswerFacts DEF EndStages
<1>5. end' \in [Pages -> EndRecords] /\ EndStays
  BY <1>1, <1>3, EndMoves
<1>6. end[p].id \in Ids
  BY EndTypes DEF EndRecords
<1>7. TypeOK'
  BY <1>1, <1>4, <1>5, <1>6 DEF TypeOK, storeVars
<1>8. JobInv' /\ DeletionStays
  BY <1>1 DEF JobInv, HasJob, DeletionStays, Complete, DeliveryInv, storeVars
<1> QED BY <1>1, <1>5, <1>7, <1>8, EndingKeeps DEF storeVars

LEMMA ConfirmEndKeeps ==
  ASSUME Inv, NEW p \in Pages, ConfirmEnd(p)
  PROVE  Inv' /\ NothingLostStep
<1> USE DEF Inv
<1>1. /\ end[p].stage = "confirm" /\ end' = EndStops(p)
      /\ UNCHANGED <<archive, pending, nextNo, requestId, checkpoint, receipt, lock, rec,
                     runtime, pump, deleter, serverVars, wire, boundVars>>
  BY DEF ConfirmEnd
<1>2. end' \in [Pages -> EndRecords] /\ EndStays
  BY <1>1, EndMoves
<1>3. job' = job \/ (HasJob /\ job' = [job EXCEPT !.status = "complete"])
  BY DEF ConfirmEnd
<1>4. job' \in JobRecords
  BY <1>3, JobStatusFacts DEF TypeOK
<1>5. TypeOK'
  BY <1>1, <1>2, <1>4 DEF TypeOK, serverVars, boundVars
<1>6. JobInv'
  <2>1. JobInv /\ session' = session /\ receipt' = receipt
    BY <1>1 DEF DeliveryInv, serverVars
  <2>2. CASE job' = job
    BY <2>1, <2>2 DEF JobInv, HasJob
  <2>3. CASE HasJob /\ job' = [job EXCEPT !.status = "complete"]
    BY <2>1, <2>3, JobStatusFacts DEF JobInv
  <2> QED BY <1>3, <2>2, <2>3
<1>7. DeletionStays
  BY <1>1 DEF DeletionStays, Complete, serverVars
<1> QED BY <1>1, <1>2, <1>5, <1>6, <1>7, EndingKeeps DEF serverVars, boundVars

LEMMA FlushWithoutJobKeeps ==
  ASSUME Inv, NEW p \in Pages, FlushWithoutJob(p)
  PROVE  Inv' /\ NothingLostStep
<1> USE DEF Inv
<1>1. /\ end[p].stage \in {"flush", "drain"} /\ end' = EndStops(p)
      /\ UNCHANGED <<storeVars, rec, runtime, pump, deleter, serverVars, wire, boundVars>>
  BY DEF FlushWithoutJob
<1>2. end' \in [Pages -> EndRecords] /\ EndStays
  BY <1>1, EndMoves
<1>3. TypeOK'
  BY <1>1, <1>2 DEF TypeOK, storeVars, serverVars, boundVars
<1>4. JobInv' /\ DeletionStays
  BY <1>1 DEF JobInv, HasJob, DeletionStays, Complete, DeliveryInv, storeVars, serverVars
<1> QED BY <1>1, <1>2, <1>3, <1>4, EndingKeeps DEF storeVars, serverVars, boundVars

-----------------------------------------------------------------------------
(* The delivery                                                            *)

(* A run that the invariant allows, at any moment *)
PumpFits(q) ==
  /\ \A n \in SeqNos : q.todo[n] \in {0, Held[n]}
  /\ ~receipt => \A n \in SeqNos : q.ids[n] \in {NoPage, requestId[n]}
  /\ receipt => \A n \in SeqNos : q.ids[n] # NoPage => <<n, q.ids[n]>> \in answered
  /\ q.stage = "idle" <=> q.todo = NoChunks
  /\ q.stage = "ack" => LET n == Min(Present(q.todo)) IN rows[n] = q.todo[n]

UploadFits(u) ==
  /\ u.chunk = Held[u.no]
  /\ IF receipt THEN <<u.no, u.id>> \in answered ELSE requestId[u.no] = u.id

LEMMA PumpsFit ==
  ASSUME DeliveryInv, NEW p \in Pages
  PROVE  PumpFits(pump[p])
BY DEF DeliveryInv, HeldInv, IdsInv, PumpInv, PumpFits, Current

(* A run goes on, and it may send. *)
LEMMA PumpStep ==
  ASSUME TypeOK, DeliveryInv, DeletionStays, JobInv',
         NEW p \in Pages, NEW q \in PumpRecords, PumpFits(q), pump' = [pump EXCEPT ![p] = q],
         \A u \in wire' : u \in wire \/ UploadFits(u),
         UNCHANGED <<archive, requestId, receipt, rows, answered>>
  PROVE  DeliveryInv' /\ pump' \in [Pages -> PumpRecords]
<1>1. /\ pump' \in [Pages -> PumpRecords]
      /\ pump'[p] = q /\ \A o \in Pages : o # p => pump'[o] = pump[o]
  BY DEF TypeOK
<1>2. \A o \in Pages : PumpFits(pump[o])
  BY PumpsFit
<1>3. \A o \in Pages : PumpFits(pump'[o])
  BY <1>1, <1>2
<1>4. \A u \in wire : UploadFits(u)
  BY DEF DeliveryInv, HeldInv, IdsInv, UploadFits
<1>5. \A u \in wire' : UploadFits(u)
  BY <1>4
<1>6. Held' = Held
  BY DEF Held
<1>7. HeldInv'
  BY <1>3, <1>5, <1>6 DEF HeldInv, DeliveryInv, PumpFits, UploadFits
<1>8. IdsInv'
  <2>1. IdsInv
    BY DEF DeliveryInv
  <2>2. ~receipt => /\ \A u \in wire' : requestId[u.no] = u.id
                    /\ \A o \in Pages, n \in SeqNos : pump'[o].ids[n] \in {NoPage, requestId[n]}
    BY <1>3, <1>5 DEF PumpFits, UploadFits
  <2>3. receipt => /\ \A u \in wire' : <<u.no, u.id>> \in answered
                   /\ \A o \in Pages, n \in SeqNos :
                        pump'[o].ids[n] # NoPage => <<n, pump'[o].ids[n]>> \in answered
    BY <1>3, <1>5 DEF PumpFits, UploadFits
  <2> QED BY <2>1, <2>2, <2>3 DEF IdsInv
<1>9. PumpInv'
  BY <1>3 DEF PumpInv, PumpFits, Current
<1>10. DeleteInv'
  BY DeletionFrame DEF DeliveryInv
<1> QED BY <1>1, <1>7, <1>8, <1>9, <1>10 DEF DeliveryInv

LEMMA IdlePumpFacts ==
  IdlePump \in PumpRecords /\ PumpFits(IdlePump)
<1>1. IdlePump \in PumpRecords
  BY NoneTypes DEF IdlePump, PumpRecords
<1>2. PumpFits(IdlePump)
  BY DEF IdlePump, PumpFits, NoChunks, NoIds
<1> QED BY <1>1, <1>2

LEMMA FlushedFacts ==
  ASSUME TypeOK, NEW p \in Pages, NEW ok \in BOOLEAN, end' = Flushed(p, ok)
  PROVE  end' \in [Pages -> EndRecords] /\ EndStays
<1>1. CASE end[p].stage \in {"flushing", "draining"}
  <2>1. end' = EndStops(p) \/ \E s \in EndStages : end' = EndAt(p, s)
    BY <1>1 DEF Flushed, EndStages
  <2> QED BY <1>1, <2>1, EndMoves
<1>2. CASE end[p].stage \notin {"flushing", "draining"}
  <2>1. end' = end
    BY <1>2 DEF Flushed
  <2> QED BY <2>1 DEF TypeOK, EndStays
<1> QED BY <1>1, <1>2

(* The custody of the recorders does not look at the delivery. *)
LEMMA RunKeeps ==
  ASSUME Inv, TypeOK', DeliveryInv', EndStays, failures' = failures,
         UNCHANGED <<rec, runtime, lock, nextNo, archive>>
  PROVE  Inv'
<1>1. failures \in Nat
  BY Bounds DEF Inv, TypeOK
<1>2. UnusedInv' /\ CustodyInv'
  BY <1>1, CustodyFrame DEF Inv
<1> QED BY <1>2 DEF Inv

(* Archive and delivery rows stay: no chunk leaves the browser. *)
LEMMA NothingLeaves ==
  ASSUME UNCHANGED <<archive, pending>>
  PROVE  NothingLostStep
BY DEF NothingLostStep, Present

LEMMA GiveUpKeeps ==
  ASSUME Inv, NEW p \in Pages, GiveUp(p)
  PROVE  Inv' /\ NothingLostStep
<1> USE DEF Inv
<1> DEFINE q == [pump[p] EXCEPT !.stage = "fail"]
<1>1. /\ pump[p].stage = "wait" /\ MayFail
      /\ lost' = lost + 1 /\ pump' = [pump EXCEPT ![p] = q]
      /\ UNCHANGED <<storeVars, rec, runtime, end, deleter, serverVars, wire, failures, crashes>>
  BY DEF GiveUp
<1>2. pump[p] \in PumpRecords /\ PumpFits(pump[p])
  BY PumpsFit DEF TypeOK
<1>3. q \in PumpRecords /\ PumpFits(q)
  BY <1>1, <1>2 DEF PumpRecords, PumpFits
<1> HIDE DEF q
<1>4. JobInv' /\ DeletionStays /\ EndStays
  BY <1>1 DEF JobInv, HasJob, DeletionStays, Complete, EndStays, DeliveryInv, storeVars,
              serverVars
<1>5. DeliveryInv' /\ pump' \in [Pages -> PumpRecords]
  BY <1>1, <1>3, <1>4, PumpStep DEF storeVars, serverVars
<1>6. lost' \in 0 .. MaxTrouble
  BY <1>1, Bounds DEF TypeOK, MayFail
<1>7. TypeOK'
  BY <1>1, <1>5, <1>6 DEF TypeOK, storeVars, serverVars
<1> QED BY <1>1, <1>4, <1>5, <1>7, RunKeeps, NothingLeaves DEF storeVars

LEMMA RecordFailureKeeps ==
  ASSUME Inv, NEW p \in Pages, RecordFailure(p)
  PROVE  Inv' /\ NothingLostStep
<1> USE DEF Inv
<1>1. /\ pump' = [pump EXCEPT ![p] = IdlePump] /\ end' = Flushed(p, FALSE)
      /\ UNCHANGED <<archive, pending, nextNo, requestId, checkpoint, receipt, lock, rec,
                     runtime, deleter, serverVars, wire, boundVars>>
  BY DEF RecordFailure, RunEnds
<1>2. job' = job \/ (HasJob /\ job' = [job EXCEPT !.status = "failed"])
  BY DEF RecordFailure
<1>3. job' \in JobRecords
  BY <1>2, JobStatusFacts DEF TypeOK
<1>4. JobInv'
  <2>1. JobInv /\ session' = session /\ receipt' = receipt
    BY <1>1 DEF DeliveryInv, serverVars
  <2>2. CASE job' = job
    BY <2>1, <2>2 DEF JobInv, HasJob
  <2>3. CASE HasJob /\ job' = [job EXCEPT !.status = "failed"]
    BY <2>1, <2>3, JobStatusFacts DEF JobInv
  <2> QED BY <1>2, <2>2, <2>3
<1>5. DeletionStays
  BY <1>1 DEF DeletionStays, Complete, serverVars
<1>6. DeliveryInv' /\ pump' \in [Pages -> PumpRecords]
  BY <1>1, <1>4, <1>5, IdlePumpFacts, PumpStep DEF serverVars
<1>7. end' \in [Pages -> EndRecords] /\ EndStays
  BY <1>1, FlushedFacts
<1>8. TypeOK'
  BY <1>1, <1>3, <1>6, <1>7 DEF TypeOK, serverVars, boundVars
<1> QED BY <1>1, <1>6, <1>7, <1>8, RunKeeps, NothingLeaves DEF boundVars

LEMMA AcknowledgeKeeps ==
  ASSUME Inv, NEW p \in Pages, Acknowledge(p)
  PROVE  Inv' /\ NothingLostStep
<1> USE DEF Inv
<1> DEFINE n == Current(p)
           rest == [pump[p].todo EXCEPT ![n] = 0]
           good == n \in pending /\ archive[n] = pump[p].todo[n]
           gone == [pump[p] EXCEPT !.stage = "fail"]
           going == [pump[p] EXCEPT !.stage = "next", !.todo = rest]
<1>1. /\ pump[p].stage = "ack"
      /\ UNCHANGED <<archive, nextNo, requestId, job, checkpoint, receipt, lock, rec, runtime,
                     deleter, serverVars, wire, boundVars>>
  BY DEF Acknowledge
<1>2. /\ pump[p] \in PumpRecords /\ PumpFits(pump[p]) /\ pump[p].todo # NoChunks
      /\ rows[n] = pump[p].todo[n]
  <2>1. PumpInv
    BY DEF DeliveryInv
  <2>2. pump[p].todo # NoChunks /\ rows[n] = pump[p].todo[n]
    BY <1>1, <2>1 DEF PumpInv
  <2> QED BY <2>2, PumpsFit DEF TypeOK
<1>3. n \in SeqNos
  BY <1>2, CurrentFacts
<1>4. rest \in ChunkMap /\ \A k \in SeqNos : rest[k] \in {0, pump[p].todo[k]}
  <2>1. pump[p].todo \in ChunkMap
    BY <1>2 DEF PumpRecords
  <2> QED BY <2>1, <1>3, Bounds DEF ChunkMap
<1>5. \/ /\ good /\ pending' = pending \ {n} /\ RunEnds(p, TRUE)
      \/ /\ good /\ pending' = pending \ {n} /\ rest # NoChunks /\ end' = end
         /\ pump' = [pump EXCEPT ![p].stage = "next", ![p].todo = rest]
      \/ pending' = pending /\ end' = end /\ pump' = [pump EXCEPT ![p].stage = "fail"]
  BY DEF Acknowledge
<1> HIDE DEF n, rest
<1>6. gone \in PumpRecords /\ PumpFits(gone)
  BY <1>1, <1>2 DEF PumpRecords, PumpFits
<1>7. going \in PumpRecords
  BY <1>2, <1>4 DEF PumpRecords
<1>8. rest # NoChunks => PumpFits(going)
  <2>1. going.stage = "next" /\ going.todo = rest /\ going.ids = pump[p].ids
    BY <1>2 DEF PumpRecords
  <2>2. \A k \in SeqNos : rest[k] \in {0, Held[k]}
    BY <1>2, <1>4 DEF PumpFits
  <2> HIDE DEF going
  <2> QED BY <1>2, <2>1, <2>2 DEF PumpFits
<1>9. JobInv' /\ DeletionStays
  BY <1>1 DEF JobInv, HasJob, DeletionStays, Complete, DeliveryInv, serverVars
<1>10. pending' \subseteq pending /\ (pending' # pending => good /\ pending' = pending \ {n})
  BY <1>5
<1>11. NothingLostStep
  BY <1>1, <1>2, <1>10 DEF NothingLostStep, Present, serverVars
<1>12. /\ \E q \in PumpRecords : PumpFits(q) /\ pump' = [pump EXCEPT ![p] = q]
       /\ end' = end \/ end' = Flushed(p, TRUE)
  <2>1. CASE RunEnds(p, TRUE)
    BY <2>1, IdlePumpFacts DEF RunEnds
  <2>2. CASE /\ rest # NoChunks /\ end' = end
             /\ pump' = [pump EXCEPT ![p].stage = "next", ![p].todo = rest]
    <3>1. pump' = [pump EXCEPT ![p] = going]
      BY <2>2 DEF TypeOK
    <3> HIDE DEF going
    <3> QED BY <2>2, <3>1, <1>7, <1>8
  <2>3. CASE end' = end /\ pump' = [pump EXCEPT ![p].stage = "fail"]
    <3>1. pump' = [pump EXCEPT ![p] = gone]
      BY <2>3
    <3> HIDE DEF gone
    <3> QED BY <2>3, <3>1, <1>6
  <2> QED BY <1>5, <2>1, <2>2, <2>3
<1>13. DeliveryInv' /\ pump' \in [Pages -> PumpRecords]
  BY <1>1, <1>9, <1>12, PumpStep DEF serverVars
<1>14. end' \in [Pages -> EndRecords] /\ EndStays
  BY <1>12, FlushedFacts DEF TypeOK, EndStays
<1>15. TypeOK'
  BY <1>1, <1>10, <1>13, <1>14 DEF TypeOK, serverVars, boundVars
<1> QED BY <1>1, <1>11, <1>13, <1>14, <1>15, RunKeeps DEF boundVars

LEMMA StartRunKeeps ==
  ASSUME Inv, NEW p \in Pages, StartRun(p)
  PROVE  Inv' /\ NothingLostStep
<1> USE DEF Inv
<1> DEFINE q == [stage |-> "next", todo |-> Undelivered, ids |-> requestId]
           fresh == pump[p] = IdlePump /\ pending # {}
<1>1. /\ HasJob /\ UNCHANGED <<storeVars, rec, runtime, deleter, serverVars, wire, boundVars>>
      /\ end[p].stage \in {"flush", "drain"} \/ (end[p].stage = "idle" /\ fresh)
  BY DEF StartRun
<1>2. ~receipt
  BY <1>1 DEF DeliveryInv, JobInv
<1>3. /\ Undelivered \in ChunkMap
      /\ \A n \in SeqNos : Undelivered[n] \in {0, archive[n]}
  BY Bounds DEF Undelivered, TypeOK, ChunkMap
<1>4. fresh => q \in PumpRecords /\ PumpFits(q)
  <2> SUFFICES ASSUME fresh PROVE q \in PumpRecords /\ PumpFits(q)
    OBVIOUS
  <2>1. Undelivered # NoChunks
    <3>1. PICK n \in pending : n \in SeqNos /\ archive[n] # 0
      BY DEF TypeOK, Present
    <3>2. Undelivered[n] = archive[n] /\ NoChunks[n] = 0
      BY <3>1 DEF Undelivered, NoChunks
    <3> QED BY <3>1, <3>2
  <2>2. q \in PumpRecords
    BY <1>3 DEF PumpRecords, TypeOK
  <2> QED BY <1>2, <1>3, <2>1, <2>2 DEF PumpFits, Held
<1>5. \/ /\ fresh /\ pump' = [pump EXCEPT ![p] = q]
         /\ end' = EndAt(p, Waits(end[p].stage))
      \/ /\ ~fresh /\ pump' = pump /\ end[p].stage \in {"flush", "drain"}
         /\ \/ end' = EndAt(p, Waits(end[p].stage))
            \/ end' = EndAt(p, "check")
            \/ end' = EndStops(p)
  BY <1>1 DEF StartRun
<1> HIDE DEF q, fresh
<1>6. JobInv' /\ DeletionStays
  BY <1>1 DEF JobInv, HasJob, DeletionStays, Complete, DeliveryInv, storeVars, serverVars
<1>7. DeliveryInv' /\ pump' \in [Pages -> PumpRecords]
  <2>1. \E x \in PumpRecords : PumpFits(x) /\ pump' = [pump EXCEPT ![p] = x]
    <3>1. pump[p] \in PumpRecords /\ PumpFits(pump[p]) /\ pump = [pump EXCEPT ![p] = pump[p]]
      BY PumpsFit DEF TypeOK
    <3> QED BY <1>4, <1>5, <3>1
  <2> QED BY <1>1, <1>6, <2>1, PumpStep DEF storeVars, serverVars
<1>8. end' \in [Pages -> EndRecords] /\ EndStays
  <2>1. Waits(end[p].stage) \in EndStages
    BY <1>1 DEF Waits, EndStages
  <2>2. CASE end[p].stage \in {"flush", "drain"}
    <3>1. end' = EndStops(p) \/ \E s \in EndStages : end' = EndAt(p, s)
      BY <1>5, <2>1 DEF EndStages
    <3> QED BY <2>2, <3>1, EndMoves
  <2>3. CASE end[p].stage = "idle"
    <3>1. Waits(end[p].stage) = "idle"
      BY <2>3 DEF Waits
    <3>2. end' = EndAt(p, "idle") /\ "idle" \in EndStages
      BY <1>5, <2>3, <3>1 DEF EndStages
    <3> DEFINE e == [end[p] EXCEPT !.stage = "idle"]
    <3>3. e \in EndRecords /\ e.stage = "idle" /\ end' = [end EXCEPT ![p] = e]
      BY <3>2, EndTypes
    <3> HIDE DEF e
    <3>4. /\ end' \in [Pages -> EndRecords] /\ end'[p] = e
          /\ \A o \in Pages : o # p => end'[o] = end[o]
      BY <3>3, EndPut
    <3> QED BY <2>3, <3>3, <3>4 DEF EndStays
  <2> QED BY <1>1, <2>2, <2>3
<1>9. TypeOK'
  BY <1>1, <1>7, <1>8 DEF TypeOK, storeVars, serverVars, boundVars
<1> QED BY <1>1, <1>7, <1>8, <1>9, RunKeeps, NothingLeaves DEF storeVars, boundVars

LEMMA SendKeeps ==
  ASSUME Inv, NEW p \in Pages, Send(p)
  PROVE  Inv' /\ NothingLostStep
<1> USE DEF Inv
<1> DEFINE n == Current(p)
           u == [page |-> p, no |-> n, chunk |-> pump[p].todo[n], id |-> pump[p].ids[n]]
           q == [pump[p] EXCEPT !.stage = "wait"]
<1>1. /\ pump[p].stage = "next" /\ pump[p].ids[n] # NoPage
      /\ UNCHANGED <<storeVars, rec, runtime, deleter, serverVars, boundVars>>
  BY DEF Send
<1>2. pump[p] \in PumpRecords /\ PumpFits(pump[p]) /\ pump[p].todo # NoChunks
  BY <1>1, PumpsFit DEF TypeOK, DeliveryInv, PumpInv
<1>3. n \in SeqNos /\ pump[p].todo[n] # 0
  BY <1>2, CurrentFacts
<1>4. \/ wire' = wire \cup {u} /\ pump' = [pump EXCEPT ![p] = q] /\ end' = end
      \/ wire' = wire /\ pump' = [pump EXCEPT ![p] = IdlePump] /\ end' = Flushed(p, FALSE)
  BY DEF Send, RunEnds
<1> HIDE DEF n
<1>5. u \in UploadRecords
  <2>1. pump[p].todo \in [SeqNos -> 0 .. MaxRecordings] /\ pump[p].ids \in [SeqNos -> Ids]
    BY <1>2 DEF PumpRecords, ChunkMap
  <2>2. pump[p].todo[n] \in Recordings /\ pump[p].ids[n] \in Pages
    BY <1>1, <1>3, <2>1, Bounds DEF Recordings, Ids
  <2> QED BY <1>3, <2>2 DEF UploadRecords
<1>6. UploadFits(u)
  BY <1>1, <1>2, <1>3 DEF UploadFits, PumpFits
<1>7. q \in PumpRecords /\ PumpFits(q)
  BY <1>1, <1>2 DEF PumpRecords, PumpFits
<1> HIDE DEF u, q
<1>8. JobInv' /\ DeletionStays
  BY <1>1 DEF JobInv, HasJob, DeletionStays, Complete, DeliveryInv, storeVars, serverVars
<1>9. \E x \in PumpRecords : PumpFits(x) /\ pump' = [pump EXCEPT ![p] = x]
  BY <1>4, <1>7, IdlePumpFacts
<1>10. \A w \in wire' : w \in wire \/ UploadFits(w)
  BY <1>4, <1>6
<1>11. DeliveryInv' /\ pump' \in [Pages -> PumpRecords]
  BY <1>1, <1>8, <1>9, <1>10, PumpStep DEF storeVars, serverVars
<1>12. end' \in [Pages -> EndRecords] /\ EndStays
  BY <1>4, FlushedFacts DEF TypeOK, EndStays
<1>13. wire' \subseteq UploadRecords
  BY <1>4, <1>5 DEF TypeOK
<1>14. TypeOK'
  BY <1>1, <1>11, <1>12, <1>13 DEF TypeOK, storeVars, serverVars, boundVars
<1> QED BY <1>1, <1>11, <1>12, <1>14, RunKeeps, NothingLeaves DEF storeVars, boundVars

LEMMA AssignIdKeeps ==
  ASSUME Inv, NEW p \in Pages, AssignId(p)
  PROVE  Inv' /\ NothingLostStep
<1> USE DEF Inv
<1> DEFINE n == Current(p)
           ids == [requestId EXCEPT ![n] = KeptId(p, n)]
           q == [pump[p] EXCEPT !.ids = ids]
<1>1. /\ pump[p].stage = "next" /\ pump[p].ids[n] = NoPage
      /\ UNCHANGED <<archive, pending, nextNo, checkpoint, receipt, lock, rec, runtime,
                     deleter, serverVars, wire, boundVars>>
  BY DEF AssignId
<1>2. pump[p] \in PumpRecords /\ PumpFits(pump[p]) /\ pump[p].todo # NoChunks
  BY <1>1, PumpsFit DEF TypeOK, DeliveryInv, PumpInv
<1>3. n \in SeqNos /\ pump[p].todo[n] # 0
  BY <1>2, CurrentFacts
<1>4. DeletionStays
  BY <1>1 DEF DeletionStays, Complete, serverVars
<1>5. CASE ~HasJob
  <2>1. UNCHANGED <<requestId, job>> /\ pump' = [pump EXCEPT ![p] = IdlePump]
        /\ end' = Flushed(p, FALSE)
    BY <1>5 DEF AssignId, RunEnds
  <2>2. JobInv'
    BY <1>1, <2>1 DEF JobInv, HasJob, DeliveryInv, serverVars
  <2>3. DeliveryInv' /\ pump' \in [Pages -> PumpRecords]
    BY <1>1, <1>4, <2>1, <2>2, IdlePumpFacts, PumpStep DEF serverVars
  <2>4. end' \in [Pages -> EndRecords] /\ EndStays
    BY <2>1, FlushedFacts
  <2>5. TypeOK'
    BY <1>1, <2>1, <2>3, <2>4 DEF TypeOK, serverVars, boundVars
  <2> QED BY <1>1, <2>3, <2>4, <2>5, RunKeeps, NothingLeaves DEF boundVars
<1>6. CASE HasJob
  <2>1. /\ requestId' = ids /\ job' = [job EXCEPT !.status = "uploading"] /\ end' = end
        /\ pump' = [pump EXCEPT ![p].ids = requestId']
    BY <1>6 DEF AssignId
  <2>2. pump' = [pump EXCEPT ![p] = q]
    BY <2>1
  <2> HIDE DEF n
  <2>3. /\ ids \in [SeqNos -> Ids] /\ ids[n] # NoPage
        /\ \A k \in SeqNos : requestId[k] # NoPage => ids[k] = requestId[k]
        /\ \A k \in SeqNos : k # n => ids[k] = requestId[k]
    BY <1>3, Bounds DEF KeptId, TypeOK
  <2> HIDE DEF ids
  <2>4. /\ q \in PumpRecords /\ q.ids = ids
        /\ q.todo = pump[p].todo /\ q.stage = pump[p].stage
    BY <1>2, <2>3 DEF PumpRecords
  <2> HIDE DEF q
  <2>5. /\ pump' \in [Pages -> PumpRecords] /\ pump'[p] = q
        /\ \A o \in Pages : o # p => pump'[o] = pump[o]
    BY <2>2, <2>4 DEF TypeOK
  <2>6. ~receipt /\ archive[n] # 0
    BY <1>2, <1>3, <1>6 DEF DeliveryInv, JobInv, PumpFits, Held
  <2>7. /\ \A a \in answered : requestId[a[1]] = a[2] /\ a[1] \in SeqNos /\ a[2] # NoPage
        /\ \A u \in wire : requestId[u.no] = u.id /\ u.no \in SeqNos /\ u.id # NoPage
        /\ \A o \in Pages, k \in SeqNos : pump[o].ids[k] \in {NoPage, requestId[k]}
        /\ \A k \in SeqNos : requestId[k] # NoPage => archive[k] # 0
    BY <2>6, Bounds DEF DeliveryInv, IdsInv, TypeOK, UploadRecords
  <2>8. IdsInv'
    <3>1. \A a \in answered : ids[a[1]] = a[2]
      BY <2>3, <2>7
    <3>2. \A u \in wire : ids[u.no] = u.id
      BY <2>3, <2>7
    <3>3. \A o \in Pages, k \in SeqNos : pump'[o].ids[k] \in {NoPage, ids[k]}
      BY <2>3, <2>4, <2>5, <2>7
    <3>4. \A k \in SeqNos : ids[k] # NoPage => archive[k] # 0
      BY <2>3, <2>6, <2>7
    <3>5. \A k \in SeqNos : rows[k] # 0 <=> \E i \in Pages : <<k, i>> \in answered
      BY DEF DeliveryInv, IdsInv
    <3> QED BY <1>1, <2>1, <2>6, <3>1, <3>2, <3>3, <3>4, <3>5 DEF IdsInv, serverVars
  <2>9. HeldInv'
    BY <1>1, <2>4, <2>5 DEF HeldInv, Held, DeliveryInv, serverVars
  <2>10. PumpInv'
    BY <1>1, <2>4, <2>5 DEF PumpInv, DeliveryInv, Current, serverVars
  <2>11. JobInv'
    BY <1>1, <1>6, <2>1, <2>6, JobStatusFacts DEF JobInv, DeliveryInv, serverVars
  <2>12. DeliveryInv'
    BY <1>1, <1>4, <2>8, <2>9, <2>10, <2>11, DeletionFrame DEF DeliveryInv, serverVars
  <2>13. job' \in JobRecords
    BY <2>1, JobStatusFacts
  <2>14. TypeOK'
    BY <1>1, <2>1, <2>3, <2>5, <2>13 DEF TypeOK, serverVars, boundVars
  <2> QED BY <1>1, <2>1, <2>12, <2>14, RunKeeps, NothingLeaves DEF EndStays, boundVars
<1> QED BY <1>5, <1>6

(* An upload that arrives: a first one puts the chunk of the archive into a *)
(* row, and an answer is given only for what is in one.                    *)
LEMMA UploadKeeps ==
  ASSUME Inv, NEW u \in wire, Upload(u)
  PROVE  Inv' /\ NothingLostStep
<1> USE DEF Inv
<1> DEFINE ok == UploadAccepted(u)
           fresh == ok /\ <<u.no, u.id>> \notin answered
           p == u.page
           stage == pump'[p].stage
<1>1. /\ wire' = wire \ {u}
      /\ rows' = IF fresh THEN [rows EXCEPT ![u.no] = u.chunk] ELSE rows
      /\ answered' = IF fresh THEN answered \cup {<<u.no, u.id>>} ELSE answered
      /\ UNCHANGED <<storeVars, rec, runtime, end, deleter, session, committed, completedBy,
                     failures, crashes>>
  BY DEF Upload
<1>2. u \in UploadRecords /\ p \in Pages /\ u.no \in SeqNos /\ u.chunk \in Recordings
      /\ u.id \in Pages
  BY DEF TypeOK, UploadRecords
<1>3. UploadFits(u)
  BY DEF DeliveryInv, HeldInv, IdsInv, UploadFits
<1>4. fresh => ~receipt /\ ~Complete /\ archive[u.no] = u.chunk
  BY <1>3 DEF UploadAccepted, UploadFits, Held
<1>5. \A n \in SeqNos : rows'[n] = IF fresh /\ n = u.no THEN u.chunk ELSE rows[n]
  BY <1>1, <1>2 DEF TypeOK, ChunkMap
<1>6. rows' \in ChunkMap
  BY <1>1, <1>2, Bounds DEF TypeOK, ChunkMap, Recordings
<1>7. answered' \subseteq SeqNos \X Pages
  BY <1>1, <1>2 DEF TypeOK
<1>8. \/ pump' = pump /\ lost' = lost
      \/ /\ Waiting(u) /\ pump' = [pump EXCEPT ![p].stage = Verdict(ok)] /\ lost' = lost
      \/ /\ Waiting(u) /\ MayFail /\ lost' = lost + 1
         /\ pump' = [pump EXCEPT ![p].stage = "fail"]
  BY DEF Upload
<1>9. lost' \in 0 .. MaxTrouble
  BY <1>8, Bounds DEF TypeOK, MayFail
<1>10. ok => \E i \in Pages : <<u.no, i>> \in answered'
  BY <1>1, <1>2
<1>11. ~fresh => (ok => <<u.no, u.id>> \in answered)
  OBVIOUS
<1> HIDE DEF ok
<1> DEFINE Heard ==
             /\ pump' \in [Pages -> PumpRecords]
             /\ \A o \in Pages :
                  /\ pump'[o].todo = pump[o].todo /\ pump'[o].ids = pump[o].ids
                  /\ \/ pump'[o].stage = pump[o].stage
                     \/ /\ o = p /\ pump[p].stage = "wait" /\ Current(p) = u.no
                        /\ pump'[p].stage = "fail" \/ (pump'[p].stage = "ack" /\ ok)
<1>12. Heard
  <2>1. CASE pump' = pump
    BY <2>1 DEF TypeOK
  <2>2. ASSUME NEW s \in {"ack", "fail"}, Waiting(u), pump' = [pump EXCEPT ![p].stage = s],
               s = "fail" \/ ok
        PROVE  Heard
    BY <1>2, <2>2 DEF TypeOK, PumpRecords, Waiting
  <2>3. Verdict(ok) \in {"ack", "fail"} /\ (Verdict(ok) = "fail" \/ ok)
    BY DEF Verdict
  <2>4. CASE Waiting(u) /\ pump' = [pump EXCEPT ![p].stage = Verdict(ok)]
    BY <2>2, <2>3, <2>4
  <2>5. CASE Waiting(u) /\ pump' = [pump EXCEPT ![p].stage = "fail"]
    BY <2>2, <2>5
  <2> QED BY <1>8, <2>1, <2>4, <2>5
<1> HIDE DEF fresh, Heard
<1>12a. u.chunk # 0
  BY <1>2, Bounds DEF Recordings
<1>13. Held' = Held
  BY <1>1, <1>4 DEF Held, storeVars
<1>14. HeldInv'
  <2>1. HeldInv
    BY DEF DeliveryInv
  <2>2. \A n \in SeqNos : rows'[n] \in {0, Held'[n]}
    BY <1>3, <1>5, <1>13, <2>1 DEF HeldInv, UploadFits
  <2>3. \A o \in Pages, n \in SeqNos : pump'[o].todo[n] \in {0, Held'[n]}
    BY <1>12, <1>13, <2>1 DEF HeldInv, Heard
  <2> QED BY <1>1, <1>13, <2>1, <2>2, <2>3 DEF HeldInv
<1>15. IdsInv'
  <2>1. IdsInv
    BY DEF DeliveryInv
  <2>2. \A n \in SeqNos : rows'[n] # 0 <=> \E i \in Pages : <<n, i>> \in answered'
    <3> SUFFICES ASSUME NEW n \in SeqNos
                 PROVE  rows'[n] # 0 <=> \E i \in Pages : <<n, i>> \in answered'
      OBVIOUS
    <3>1. rows[n] # 0 <=> \E i \in Pages : <<n, i>> \in answered
      BY <2>1 DEF IdsInv
    <3>2. CASE fresh /\ n = u.no
      <4>1. <<n, u.id>> \in answered' /\ rows'[n] = u.chunk
        BY <1>1, <1>5, <3>2
      <4> QED BY <1>2, <1>12a, <4>1
    <3>3. CASE ~(fresh /\ n = u.no)
      <4>1. \A i \in Pages : <<n, i>> \in answered' <=> <<n, i>> \in answered
        BY <1>1, <3>3
      <4>2. rows'[n] = rows[n]
        BY <1>5, <3>3
      <4> QED BY <3>1, <4>1, <4>2
    <3> QED BY <3>2, <3>3
  <2>3. CASE receipt
    <3>1. answered' = answered /\ receipt' /\ requestId' = requestId
      BY <1>1, <1>4, <2>3 DEF storeVars
    <3>2. /\ \A a, b \in answered : a[1] = b[1] => a = b
          /\ \A w \in wire' : <<w.no, w.id>> \in answered
          /\ \A o \in Pages, n \in SeqNos :
               pump'[o].ids[n] # NoPage => <<n, pump'[o].ids[n]>> \in answered
      <4>1. /\ \A a, b \in answered : a[1] = b[1] => a = b
            /\ \A w \in wire : <<w.no, w.id>> \in answered
            /\ \A o \in Pages, n \in SeqNos :
                 pump[o].ids[n] # NoPage => <<n, pump[o].ids[n]>> \in answered
        BY <2>1, <2>3 DEF IdsInv
      <4>2. \A o \in Pages : pump'[o].ids = pump[o].ids
        BY <1>12 DEF Heard
      <4>3. \A w \in wire' : w \in wire
        BY <1>1
      <4> QED BY <4>1, <4>2, <4>3
    <3> QED BY <2>2, <3>1, <3>2 DEF IdsInv
  <2>4. CASE ~receipt
    <3>1. requestId[u.no] = u.id
      BY <1>3, <2>4 DEF UploadFits
    <3>2. \A a \in answered' : requestId[a[1]] = a[2]
      BY <1>1, <2>1, <2>4, <3>1 DEF IdsInv
    <3> QED BY <1>1, <1>12, <2>1, <2>2, <2>4, <3>2 DEF IdsInv, storeVars, Heard
  <2> QED BY <2>3, <2>4
<1>16. PumpInv'
  <2> SUFFICES ASSUME NEW o \in Pages
               PROVE  /\ pump'[o].stage = "idle" <=> pump'[o].todo = NoChunks
                      /\ pump'[o].stage = "ack" => rows'[Current(o)] = pump'[o].todo[Current(o)]
    BY <1>12 DEF PumpInv, Current, Heard
  <2>1. /\ pump[o].stage = "idle" <=> pump[o].todo = NoChunks
        /\ pump[o].stage = "ack" => rows[Current(o)] = pump[o].todo[Current(o)]
    BY DEF DeliveryInv, PumpInv
  <2>2. pump'[o].stage = "idle" <=> pump'[o].todo = NoChunks
    BY <1>12, <2>1 DEF Heard
  <2>3. ASSUME pump'[o].stage = "ack"
        PROVE  rows'[Current(o)] = pump'[o].todo[Current(o)]
    <3> DEFINE n == Current(o)
    <3>1. pump[o].todo # NoChunks
      BY <1>12, <2>2, <2>3 DEF Heard
    <3>2. n \in SeqNos /\ pump[o].todo[n] # 0 /\ pump[o].todo[n] = Held[n]
      BY <3>1, CurrentFacts DEF DeliveryInv, HeldInv
    <3> HIDE DEF n
    <3>3. rows'[n] # 0
      <4>1. CASE pump[o].stage = "ack"
        <5>1. rows[n] # 0
          BY <2>1, <3>2, <4>1 DEF n
        <5> QED BY <1>5, <1>12a, <3>2, <5>1
      <4>2. CASE n = u.no /\ ok
        BY <1>10, <1>15, <3>2, <4>2 DEF IdsInv
      <4> QED BY <1>12, <2>3, <4>1, <4>2 DEF n, Heard
    <3>4. rows'[n] = Held[n]
      BY <1>13, <1>14, <3>2, <3>3 DEF HeldInv
    <3> QED BY <1>12, <3>2, <3>4 DEF n, Heard
  <2> QED BY <2>2, <2>3
<1>17. JobInv' /\ DeleteInv'
  <2>1. Complete => rows' = rows
    BY <1>1, <1>4
  <2> QED BY <1>1, <2>1 DEF JobInv, HasJob, DeleteInv, Complete, DeliveryInv, storeVars
<1>18. DeliveryInv' /\ EndStays
  BY <1>1, <1>14, <1>15, <1>16, <1>17 DEF DeliveryInv, EndStays
<1>19. TypeOK'
  BY <1>1, <1>6, <1>7, <1>9, <1>12 DEF TypeOK, storeVars, Heard
<1> QED BY <1>1, <1>18, <1>19, RunKeeps, NothingLeaves DEF storeVars

-----------------------------------------------------------------------------
(* The recorders                                                           *)

(* One recorder changes, and no chunk moves. *)
LEMMA RecorderKeeps ==
  ASSUME Inv, NEW r \in Recordings, NEW c \in RecRecords, rec' = [rec EXCEPT ![r] = c],
         c.state # "unused", c.page = rec[r].page, c.page \in Pages, CustodyInv',
         failures' \in 0 .. MaxTrouble,
         UNCHANGED <<storeVars, runtime, pump, end, deleter, serverVars, wire, lost, crashes>>
  PROVE  Inv' /\ NothingLostStep
<1> USE DEF Inv
<1>1. /\ rec' \in [Recordings -> RecRecords]
      /\ rec'[r] = c /\ \A q \in Recordings : q # r => rec'[q] = rec[q]
  BY RecPut
<1>2. TypeOK'
  BY <1>1 DEF TypeOK, storeVars, serverVars
<1>3. UnusedInv'
  BY <1>1 DEF UnusedInv
<1>4. JobInv' /\ DeletionStays
  BY DEF JobInv, HasJob, DeletionStays, Complete, DeliveryInv, storeVars, serverVars
<1>5. DeliveryInv' /\ NothingLostStep
  BY <1>4, DeliveryFrame DEF storeVars, serverVars
<1> QED BY <1>2, <1>3, <1>5

(* While no capture fails, a recorder that goes on keeps the lock and the  *)
(* page that runs it, and its numbers continue the archive.                *)
LEMMA LiveStep ==
  ASSUME TypeOK, UnusedInv, Custody, NEW r \in Recordings, NEW c \in RecRecords,
         rec' = [rec EXCEPT ![r] = c], Live(r), c.state \in {"recording", "tail", "closed"},
         c.page = rec[r].page, c.failing = rec[r].failing,
         rec[r].state = "recording" => c.state = "recording",
         c.next = nextNo' + Len(c.chain),
         \A i \in 1 .. Len(c.chain) : c.chain[i] = nextNo' + i - 1,
         \A n \in SeqNos : archive'[n] # 0 => n < nextNo',
         UNCHANGED <<runtime, lock, end>>
  PROVE  Custody'
<1>1. rec'[r] = c /\ \A q \in Recordings : q # r => rec'[q] = rec[q]
  BY RecPut
<1>2. \A q \in Recordings : q # r => ~Live(q) /\ rec[q].chain = <<>>
  BY DEF Custody, NumbersOK
<1>3. LiveOK(r) /\ \A p \in Pages : RuntimeOK(p)
  BY DEF Custody
<1>4. \A p \in Pages : RuntimeOK(p)'
  <2> SUFFICES ASSUME NEW p \in Pages, runtime[p] # 0 PROVE RuntimeOK(p)'
    BY DEF RuntimeOK
  <2>1. runtime[p] \in Recordings /\ RuntimeOK(p)
    BY <1>3, Bounds DEF TypeOK, Recordings
  <2>2. runtime[p] = r
    BY <1>2, <2>1 DEF RuntimeOK, Live
  <2> QED BY <1>1, <2>1, <2>2 DEF RuntimeOK
<1>5. LiveOK(r)' /\ NumbersOK(r)'
  BY <1>1, <1>3 DEF LiveOK, NumbersOK, Live
<1>6. \A q \in Recordings : q # r => ~Live(q)' /\ LiveOK(q)' /\ NumbersOK(q)'
  BY <1>1, <1>2 DEF LiveOK, NumbersOK, Live
<1> QED BY <1>4, <1>5, <1>6 DEF Custody

(* The page of a recorder that is used is a page of the browser. *)
LEMMA UsedFacts ==
  ASSUME TypeOK, UnusedInv, NEW r \in Recordings,
         rec[r].state # "unused" \/ rec[r].chain # <<>>
  PROVE  rec[r] \in RecRecords /\ rec[r].page \in Pages /\ rec[r].state # "unused"
BY DEF TypeOK, UnusedInv, Unused

LEMMA AcceptKeeps ==
  ASSUME Inv, NEW r \in Recordings, Accept(r)
  PROVE  Inv' /\ NothingLostStep
<1> USE DEF Inv
<1> DEFINE c == WithBlob(rec[r])
           k == Append(rec[r].chain, rec[r].next)
<1>1. /\ rec[r].state = "recording" /\ rec[r].next < MaxChunks
      /\ rec' = [rec EXCEPT ![r] = c]
      /\ UNCHANGED <<storeVars, runtime, pump, end, deleter, serverVars, wire, boundVars>>
  BY DEF Accept
<1>2. rec[r] \in RecRecords /\ rec[r].page \in Pages
  BY <1>1, UsedFacts
<1>3. /\ c \in RecRecords /\ c.next = rec[r].next + 1 /\ c.chain = k
      /\ c.state = rec[r].state /\ c.page = rec[r].page /\ c.failing = rec[r].failing
  BY <1>1, <1>2, WithBlobFacts
<1> HIDE DEF c
<1>4. ASSUME Custody PROVE Custody'
  <2>1. Live(r) /\ NumbersOK(r) /\ nextNo \in Nat /\ rec[r].chain \in Seq(SeqNos)
    BY <1>1, <1>2, <1>4, Bounds DEF Live, Custody, TypeOK, RecRecords
  <2>2. /\ rec[r].next = nextNo + Len(rec[r].chain) /\ Len(rec[r].chain) \in Nat
        /\ \A i \in 1 .. Len(rec[r].chain) : rec[r].chain[i] = nextNo + i - 1
    BY <2>1 DEF NumbersOK
  <2>3. Len(k) = Len(rec[r].chain) + 1
    BY <2>1
  <2>4. \A i \in 1 .. Len(k) : k[i] = IF i <= Len(rec[r].chain) THEN rec[r].chain[i]
                                                             ELSE rec[r].next
    BY <2>1, <2>2, <2>3
  <2> HIDE DEF k
  <2>5. \A i \in 1 .. Len(k) : k[i] = nextNo + i - 1
    BY <2>1, <2>2, <2>3, <2>4
  <2>6. rec[r].next + 1 = nextNo + Len(k)
    BY <2>1, <2>2, <2>3
  <2>7. \A n \in SeqNos : archive[n] # 0 => n < nextNo
    BY <1>4 DEF Custody
  <2> QED BY <1>1, <1>3, <1>4, <2>1, <2>5, <2>6, <2>7, LiveStep DEF storeVars
<1>5. CustodyInv' /\ failures' \in 0 .. MaxTrouble
  BY <1>1, <1>4 DEF CustodyInv, TypeOK, boundVars
<1> QED BY <1>1, <1>2, <1>3, <1>5, RecorderKeeps DEF boundVars

LEMMA LastBlobKeeps ==
  ASSUME Inv, NEW r \in Recordings, LastBlob(r)
  PROVE  Inv' /\ NothingLostStep
<1> USE DEF Inv
<1> DEFINE more == WithBlob(rec[r])
           k == Append(rec[r].chain, rec[r].next)
<1>1. /\ rec[r].state = "tail"
      /\ UNCHANGED <<storeVars, runtime, pump, end, deleter, serverVars, wire, boundVars>>
  BY DEF LastBlob
<1>2. rec[r] \in RecRecords /\ rec[r].page \in Pages
  BY <1>1, UsedFacts
<1>3. PICK d : /\ d = rec[r] \/ (rec[r].next < MaxChunks /\ d = more)
               /\ rec' = [rec EXCEPT ![r] = [d EXCEPT !.state = "closed"]]
  BY DEF LastBlob
<1>4. rec[r].next < MaxChunks =>
        /\ more \in RecRecords /\ more.next = rec[r].next + 1 /\ more.chain = k
        /\ more.page = rec[r].page /\ more.failing = rec[r].failing
  BY <1>2, WithBlobFacts
<1> HIDE DEF more
<1> DEFINE c == [d EXCEPT !.state = "closed"]
<1>5. /\ d \in RecRecords /\ d.page = rec[r].page /\ d.failing = rec[r].failing
      /\ \/ d.next = rec[r].next /\ d.chain = rec[r].chain
         \/ d.next = rec[r].next + 1 /\ d.chain = k
  BY <1>2, <1>3, <1>4
<1>6. /\ c \in RecRecords /\ c.state = "closed" /\ c.page = d.page /\ c.failing = d.failing
      /\ c.next = d.next /\ c.chain = d.chain
  BY <1>5 DEF RecRecords
<1>7. rec' = [rec EXCEPT ![r] = c]
  BY <1>3
<1> HIDE DEF c
<1>8. ASSUME Custody PROVE Custody'
  <2>1. Live(r) /\ NumbersOK(r) /\ nextNo \in Nat /\ rec[r].chain \in Seq(SeqNos)
    BY <1>1, <1>2, <1>8, Bounds DEF Live, Custody, TypeOK, RecRecords
  <2>2. /\ rec[r].next = nextNo + Len(rec[r].chain) /\ Len(rec[r].chain) \in Nat
        /\ \A i \in 1 .. Len(rec[r].chain) : rec[r].chain[i] = nextNo + i - 1
    BY <2>1 DEF NumbersOK
  <2>3. Len(k) = Len(rec[r].chain) + 1
    BY <2>1
  <2>4. \A i \in 1 .. Len(k) : k[i] = IF i <= Len(rec[r].chain) THEN rec[r].chain[i]
                                                             ELSE rec[r].next
    BY <2>1, <2>2, <2>3
  <2> HIDE DEF k
  <2>5. \A i \in 1 .. Len(k) : k[i] = nextNo + i - 1
    BY <2>1, <2>2, <2>3, <2>4
  <2>6. rec[r].next + 1 = nextNo + Len(k)
    BY <2>1, <2>2, <2>3
  <2>7. \A n \in SeqNos : archive[n] # 0 => n < nextNo
    BY <1>8 DEF Custody
  <2>8. /\ c.next = nextNo + Len(c.chain)
        /\ \A i \in 1 .. Len(c.chain) : c.chain[i] = nextNo + i - 1
    BY <1>5, <1>6, <2>2, <2>5, <2>6
  <2> QED BY <1>1, <1>5, <1>6, <1>7, <1>8, <2>1, <2>7, <2>8, LiveStep DEF storeVars
<1>9. CustodyInv' /\ failures' \in 0 .. MaxTrouble
  BY <1>1, <1>8 DEF CustodyInv, TypeOK, boundVars
<1> QED BY <1>1, <1>2, <1>5, <1>6, <1>7, <1>9, RecorderKeeps DEF boundVars

(* A recorder fails: from then on nothing is said of the custody. *)
LEMMA FailureKeeps ==
  ASSUME Inv, NEW r \in Recordings, NEW c \in RecRecords, rec' = [rec EXCEPT ![r] = Failing(c)],
         c.state # "unused", c.page = rec[r].page, c.page \in Pages, MayFail, failures' = failures + 1,
         UNCHANGED <<storeVars, runtime, pump, end, deleter, serverVars, wire, lost, crashes>>
  PROVE  Inv' /\ NothingLostStep
<1>1. /\ Failing(c) \in RecRecords /\ Failing(c).state # "unused"
      /\ Failing(c).page = rec[r].page /\ Failing(c).page \in Pages
  BY FailingFacts
<1>2. failures' \in 0 .. MaxTrouble /\ failures' # 0
  BY Bounds DEF Inv, TypeOK, MayFail
<1>3. CustodyInv'
  BY <1>2 DEF CustodyInv
<1> QED BY <1>1, <1>2, <1>3, RecorderKeeps

LEMMA PersistFailsKeeps ==
  ASSUME Inv, NEW r \in Recordings, PersistFails(r)
  PROVE  Inv' /\ NothingLostStep
<1> DEFINE d == Written(rec[r])
           c == [d EXCEPT !.broken = TRUE]
<1>1. rec[r].chain # <<>> /\ rec' = [rec EXCEPT ![r] = Failing(c)]
  BY DEF PersistFails
<1>2. rec[r] \in RecRecords /\ rec[r].page \in Pages /\ rec[r].state # "unused"
  BY <1>1, UsedFacts DEF Inv
<1>3. d \in RecRecords /\ d.page = rec[r].page /\ d.state = rec[r].state
  BY <1>1, <1>2, WrittenFacts
<1> HIDE DEF d
<1>4. c \in RecRecords /\ c.state # "unused" /\ c.page = rec[r].page /\ c.page \in Pages
  BY <1>2, <1>3 DEF RecRecords
<1> HIDE DEF c
<1> QED BY <1>1, <1>4, FailureKeeps DEF PersistFails

LEMMA DeviceFailsKeeps ==
  ASSUME Inv, NEW r \in Recordings, DeviceFails(r)
  PROVE  Inv' /\ NothingLostStep
<1>1. PICK b \in BOOLEAN : rec' = [rec EXCEPT ![r] = Failing([rec[r] EXCEPT !.broken = b])]
  BY DEF DeviceFails
<1> DEFINE c == [rec[r] EXCEPT !.broken = b]
<1>2. rec[r] \in RecRecords /\ rec[r].page \in Pages /\ rec[r].state # "unused"
  BY UsedFacts DEF Inv, DeviceFails
<1>3. c \in RecRecords /\ c.state # "unused" /\ c.page = rec[r].page /\ c.page \in Pages
  BY <1>2 DEF RecRecords
<1>4. rec' = [rec EXCEPT ![r] = Failing(c)]
  BY <1>1
<1> HIDE DEF c
<1> QED BY <1>3, <1>4, FailureKeeps DEF DeviceFails

(* A number that the archive does not have has no copy anywhere, as long as *)
(* the archive is not deleted.                                             *)
LEMMA PersistDelivery ==
  ASSUME TypeOK, DeliveryInv, JobInv', DeletionStays, NEW n \in SeqNos, archive[n] = 0,
         NEW r \in Recordings, archive' = [archive EXCEPT ![n] = r],
         UNCHANGED <<requestId, receipt, rows, answered, wire, pump>>
  PROVE  DeliveryInv'
<1>1. /\ \A k \in SeqNos : archive'[k] = IF k = n THEN r ELSE archive[k]
      /\ r # 0
  BY Bounds DEF TypeOK, ChunkMap, Recordings
<1>2. HeldInv'
  <2>1. CASE receipt
    BY <2>1 DEF HeldInv, Held, DeliveryInv
  <2>2. CASE ~receipt
    <3>1. /\ \A k \in SeqNos : rows[k] \in {0, archive[k]}
          /\ \A p \in Pages, k \in SeqNos : pump[p].todo[k] \in {0, archive[k]}
          /\ \A u \in wire : u.chunk = archive[u.no]
      BY <2>2 DEF HeldInv, Held, DeliveryInv
    <3>2. \A k \in SeqNos : rows[k] \in {0, archive'[k]}
      BY <1>1, <3>1
    <3>3. \A p \in Pages, k \in SeqNos : pump[p].todo[k] \in {0, archive'[k]}
      BY <1>1, <3>1
    <3>4. \A u \in wire : u.chunk = archive'[u.no]
      <4> TAKE u \in wire
      <4>1. u.no \in SeqNos /\ u.chunk \in Recordings
        BY DEF TypeOK, UploadRecords
      <4>2. u.no # n
        BY <3>1, <4>1, Bounds DEF Recordings
      <4> QED BY <1>1, <3>1, <4>1, <4>2
    <3> QED BY <2>2, <3>2, <3>3, <3>4 DEF HeldInv, Held
  <2> QED BY <2>1, <2>2
<1>3. IdsInv'
  <2>1. \A k \in SeqNos : archive[k] # 0 => archive'[k] # 0
    BY <1>1
  <2> QED BY <2>1 DEF IdsInv, DeliveryInv
<1>4. PumpInv' /\ DeleteInv'
  BY DeletionFrame DEF PumpInv, DeliveryInv, Current
<1> QED BY <1>2, <1>3, <1>4 DEF DeliveryInv

LEMMA PersistKeeps ==
  ASSUME Inv, NEW r \in Recordings, Persist(r)
  PROVE  Inv' /\ NothingLostStep
<1> USE DEF Inv
<1> DEFINE n == Head(rec[r].chain)
           c == Written(rec[r])
           b == [c EXCEPT !.broken = TRUE]
<1>1. /\ rec[r].chain # <<>>
      /\ UNCHANGED <<requestId, job, checkpoint, receipt, lock, runtime, pump, end, deleter,
                     serverVars, wire, boundVars>>
  BY DEF Persist
<1>2. /\ rec[r] \in RecRecords /\ rec[r].page \in Pages /\ rec[r].state # "unused"
      /\ rec[r].chain \in Seq(SeqNos)
  BY <1>1, UsedFacts DEF RecRecords
<1>3. /\ n \in SeqNos
      /\ Len(rec[r].chain) \in Nat \ {0} /\ n = rec[r].chain[1]
  BY <1>1, <1>2
<1>4. /\ c \in RecRecords /\ c.chain = Tail(rec[r].chain) /\ c.next = rec[r].next
      /\ c.state = rec[r].state /\ c.page = rec[r].page /\ c.failing = rec[r].failing
  BY <1>1, <1>2, WrittenFacts
<1>5. \/ /\ archive[n] = 0 /\ archive' = [archive EXCEPT ![n] = r]
         /\ pending' = pending \cup {n}
         /\ nextNo' = IF n + 1 > nextNo THEN n + 1 ELSE nextNo
         /\ rec' = [rec EXCEPT ![r] = c]
      \/ /\ archive[n] # 0 /\ rec' = [rec EXCEPT ![r] = Failing(b)]
         /\ UNCHANGED <<archive, pending, nextNo>>
  BY DEF Persist
<1> HIDE DEF n, c
<1>6. ASSUME Custody
      PROVE  /\ Live(r) /\ n = nextNo /\ archive[n] = 0
             /\ rec[r].next = nextNo + Len(rec[r].chain)
             /\ \A i \in 1 .. Len(rec[r].chain) : rec[r].chain[i] = nextNo + i - 1
  <2>1. NumbersOK(r) /\ \A k \in SeqNos : archive[k] # 0 => k < nextNo
    BY <1>6 DEF Custody
  <2>2. Live(r)
    BY <1>1, <2>1 DEF NumbersOK
  <2>3. \A i \in 1 .. Len(rec[r].chain) : rec[r].chain[i] = nextNo + i - 1
    BY <2>1, <2>2 DEF NumbersOK
  <2>4. nextNo \in Nat
    BY Bounds DEF TypeOK
  <2>5. n = nextNo
    BY <1>3, <2>3, <2>4
  <2> QED BY <1>3, <2>1, <2>2, <2>3, <2>4, <2>5 DEF NumbersOK
<1>7. CASE archive[n] # 0
  <2>1. rec' = [rec EXCEPT ![r] = Failing(b)] /\ UNCHANGED <<archive, pending, nextNo>>
    BY <1>5, <1>7
  <2>2. b \in RecRecords /\ b.state = c.state /\ b.page = c.page
    BY <1>4 DEF RecRecords
  <2> HIDE DEF b
  <2>3. /\ Failing(b) \in RecRecords /\ Failing(b).state # "unused"
        /\ Failing(b).page = rec[r].page /\ Failing(b).page \in Pages
    BY <1>2, <1>4, <2>2, FailingFacts
  <2>4. CustodyInv' /\ failures' \in 0 .. MaxTrouble
    BY <1>1, <1>6, <1>7 DEF CustodyInv, TypeOK, boundVars
  <2> QED BY <1>1, <2>1, <2>3, <2>4, RecorderKeeps DEF storeVars, boundVars
<1>8. CASE archive[n] = 0
  <2>1. /\ archive' = [archive EXCEPT ![n] = r] /\ pending' = pending \cup {n}
        /\ nextNo' = IF n + 1 > nextNo THEN n + 1 ELSE nextNo
        /\ rec' = [rec EXCEPT ![r] = c]
    BY <1>5, <1>8
  <2>2. \A k \in SeqNos : archive'[k] = IF k = n THEN r ELSE archive[k]
    BY <2>1 DEF TypeOK, ChunkMap
  <2>3. r # 0 /\ r \in 0 .. MaxRecordings
    BY Bounds DEF Recordings
  <2>4. archive' \in ChunkMap /\ pending' \subseteq Present(archive')
    BY <1>3, <2>1, <2>2, <2>3 DEF TypeOK, ChunkMap, Present
  <2>5. nextNo' \in 0 .. MaxChunks
    BY <1>3, <2>1, Bounds DEF TypeOK
  <2>6. /\ rec' \in [Recordings -> RecRecords]
        /\ rec'[r] = c /\ \A q \in Recordings : q # r => rec'[q] = rec[q]
    BY <1>4, <2>1, RecPut
  <2>7. TypeOK'
    BY <1>1, <2>4, <2>5, <2>6 DEF TypeOK, serverVars, boundVars
  <2>8. JobInv' /\ DeletionStays
    BY <1>1 DEF JobInv, HasJob, DeletionStays, Complete, DeliveryInv, serverVars
  <2>9. DeliveryInv'
    BY <1>1, <1>3, <1>8, <2>1, <2>8, PersistDelivery DEF serverVars
  <2>10. NothingLostStep
    BY <1>8, <2>1, <2>2 DEF NothingLostStep, Present
  <2>11. UnusedInv'
    BY <1>1, <1>2, <1>4, <2>1, UnusedStep
  <2>12. ASSUME Custody PROVE Custody'
    <3> DEFINE k == rec[r].chain
               t == Tail(k)
    <3>1. /\ Live(r) /\ n = nextNo /\ nextNo \in Nat
          /\ rec[r].next = nextNo + Len(k)
          /\ \A i \in 1 .. Len(k) : k[i] = nextNo + i - 1
      BY <1>6, <2>12, Bounds DEF TypeOK
    <3>2. nextNo' = nextNo + 1
      BY <2>1, <3>1
    <3>3. k \in Seq(SeqNos) /\ k # <<>>
      BY <1>1, <1>2
    <3> HIDE DEF k
    <3>4. /\ Len(t) \in Nat /\ Len(k) = Len(t) + 1
          /\ \A i \in 1 .. Len(t) : t[i] = k[i + 1] /\ i + 1 \in 1 .. Len(k)
      BY <3>3
    <3> HIDE DEF t
    <3>5. /\ c.next = nextNo' + Len(t)
          /\ \A i \in 1 .. Len(t) : t[i] = nextNo' + i - 1
      BY <1>4, <3>1, <3>2, <3>4
    <3>6. c.chain = t
      BY <1>4 DEF t, k
    <3>7. \A m \in SeqNos : archive'[m] # 0 => m < nextNo'
      <4>1. \A m \in SeqNos : archive[m] # 0 => m < nextNo
        BY <2>12 DEF Custody
      <4> QED BY <2>2, <3>1, <3>2, <4>1, Bounds
    <3>8. c.state \in {"recording", "tail", "closed"}
      BY <1>4, <3>1 DEF Live
    <3> QED BY <1>1, <1>4, <2>1, <2>12, <3>1, <3>5, <3>6, <3>7, <3>8, LiveStep
  <2>13. CustodyInv'
    BY <1>1, <2>12 DEF CustodyInv, boundVars
  <2> QED BY <2>7, <2>9, <2>10, <2>11, <2>13
<1> QED BY <1>7, <1>8

-----------------------------------------------------------------------------
(* The lock and the runtimes                                               *)

Quiet == (\A r \in Recordings : ~Live(r)) /\ \A p \in Pages : runtime[p] = 0

(* A runtime is that of the only live recorder. *)
LEMMA RuntimeIsLive ==
  ASSUME TypeOK, Custody, NEW p \in Pages, runtime[p] # 0
  PROVE  /\ runtime[p] \in Recordings /\ Live(runtime[p])
         /\ rec[runtime[p]].state = "recording" /\ rec[runtime[p]].page = p
         /\ ~rec[runtime[p]].failing /\ end[p].stage = "idle" /\ lock = p
<1>1. runtime[p] \in Recordings
  BY Bounds DEF TypeOK, Recordings
<1>2. RuntimeOK(p) /\ LiveOK(runtime[p])
  BY <1>1 DEF Custody
<1> QED BY <1>1, <1>2 DEF RuntimeOK, Live, LiveOK

(* Nobody records when the lock is with nobody, with the deletion, or with *)
(* a page that neither runs a recorder nor waits for one.                  *)
LEMMA LockIsFree ==
  ASSUME TypeOK, UnusedInv, Custody,
         \/ lock \notin Pages
         \/ /\ runtime[lock] = 0
            /\ end[lock].stage \notin {"stopping", "interrupting"}
  PROVE  Quiet
<1>1. ASSUME NEW r \in Recordings, Live(r) PROVE FALSE
  <2>1. LiveOK(r) /\ rec[r].page \in Pages
    BY <1>1, UsedFacts DEF Custody, Live
  <2> QED BY <1>1, <2>1, Bounds DEF LiveOK, Recordings
<1>2. \A p \in Pages : runtime[p] = 0
  BY <1>1, RuntimeIsLive
<1> QED BY <1>1, <1>2 DEF Quiet

(* Where nobody records, the endings and the lock are free. *)
LEMMA QuietStep ==
  ASSUME TypeOK', Quiet', \A r \in Recordings : rec'[r].chain = <<>>,
         \A n \in SeqNos : archive'[n] # 0 => n < nextNo'
  PROVE  Custody'
BY DEF Custody, Quiet, RuntimeOK, LiveOK, NumbersOK, Live

LEMMA QuietFacts ==
  ASSUME TypeOK, Custody, Quiet
  PROVE  /\ \A r \in Recordings : rec[r].chain = <<>>
         /\ \A n \in SeqNos : archive[n] # 0 => n < nextNo
BY DEF Custody, Quiet, NumbersOK

LEMMA FreedFacts ==
  ASSUME TypeOK, NEW p \in Pages
  PROVE  /\ Freed(p) \in Ids \cup {Deleter}
         /\ lock = Deleter => Freed(p) = Deleter
         /\ lock # p => Freed(p) = lock
BY Bounds DEF TypeOK, Freed

LEMMA CloseKeeps ==
  ASSUME Inv, NEW r \in Recordings, Close(r)
  PROVE  Inv' /\ NothingLostStep
<1> USE DEF Inv
<1> DEFINE p == rec[r].page
           stopped == ClosedCleanly(rec[r])
           c == [rec[r] EXCEPT !.state = "done"]
<1>1. /\ rec[r].state = "closed" /\ rec[r].chain = <<>>
      /\ rec' = [rec EXCEPT ![r].state = "done"]
      /\ lock' = Freed(p)
      /\ UNCHANGED <<archive, pending, nextNo, requestId, job, receipt, runtime, pump, deleter,
                     serverVars, wire, boundVars>>
  BY DEF Close
<1>2. checkpoint' \in {"dirty", "clean"}
  BY DEF Close
<1>3. \/ end' = end \/ end' = EndStops(p) \/ end' = EndAt(p, "read") \/ end' = EndAt(p, "drain")
  BY DEF Close, EndAt, EndStops
<1>4. rec[r] \in RecRecords /\ p \in Pages
  BY <1>1, UsedFacts
<1>5. c \in RecRecords /\ c.state = "done" /\ c.page = p /\ c.chain = <<>>
  BY <1>1, <1>4 DEF RecRecords
<1>6. rec' = [rec EXCEPT ![r] = c]
  BY <1>1
<1> HIDE DEF c, p
<1>7. /\ rec' \in [Recordings -> RecRecords]
      /\ rec'[r] = c /\ \A q \in Recordings : q # r => rec'[q] = rec[q]
  BY <1>5, <1>6, RecPut
<1>8. end' \in [Pages -> EndRecords]
  <2>1. "read" \in EndStages /\ "drain" \in EndStages
    BY DEF EndStages
  <2>2. CASE end' = end
    BY <2>2 DEF TypeOK
  <2>3. CASE end' # end
    BY <1>3, <1>4, <2>1, <2>3, EndMoves
  <2> QED BY <2>2, <2>3
<1>9. lock' \in Ids \cup {Deleter} /\ (lock = Deleter => lock' = Deleter)
  BY <1>1, <1>4, FreedFacts
<1>10. TypeOK'
  BY <1>1, <1>2, <1>7, <1>8, <1>9 DEF TypeOK, serverVars, boundVars
<1>11. JobInv' /\ DeletionStays
  BY <1>1, <1>9 DEF JobInv, HasJob, DeletionStays, Complete, DeliveryInv, serverVars
<1>12. DeliveryInv' /\ NothingLostStep
  BY <1>1, <1>11, DeliveryFrame DEF serverVars
<1>13. UnusedInv'
  BY <1>1, <1>4, <1>5, <1>6, UnusedStep DEF p
<1>14. ASSUME Custody PROVE Custody'
  <2>1. Live(r)
    BY <1>1 DEF Live
  <2>2. \A q \in Recordings : q # r => ~Live(q) /\ rec[q].chain = <<>>
    BY <1>14, <2>1 DEF Custody, NumbersOK
  <2>3. \A o \in Pages : runtime[o] = 0
    <3> SUFFICES ASSUME NEW o \in Pages, runtime[o] # 0 PROVE FALSE
      OBVIOUS
    <3>1. /\ runtime[o] \in Recordings /\ Live(runtime[o])
          /\ rec[runtime[o]].state = "recording"
      BY <1>14, RuntimeIsLive
    <3> QED BY <1>1, <2>2, <3>1
  <2>4. Quiet'
    BY <1>1, <1>5, <1>7, <2>2, <2>3 DEF Quiet, Live
  <2>5. \A q \in Recordings : rec'[q].chain = <<>>
    BY <1>5, <1>7, <2>2
  <2>6. \A n \in SeqNos : archive'[n] # 0 => n < nextNo'
    BY <1>1, <1>14 DEF Custody
  <2> QED BY <1>10, <2>4, <2>5, <2>6, QuietStep
<1>15. CustodyInv'
  BY <1>1, <1>14 DEF CustodyInv, boundVars
<1> QED BY <1>10, <1>12, <1>13, <1>15

(* A step in which the browser leaves the chunks alone and nobody records. *)
LEMMA QuietKeeps ==
  ASSUME Inv, TypeOK', JobInv', DeletionStays, failures' = failures, Custody => Quiet,
         UNCHANGED <<archive, pending, nextNo, requestId, receipt, rows, answered, wire, pump,
                     rec, runtime>>
  PROVE  Inv' /\ NothingLostStep
<1> USE DEF Inv
<1>1. DeliveryInv' /\ NothingLostStep
  BY DeliveryFrame
<1>2. UnusedInv'
  BY DEF UnusedInv
<1>3. ASSUME Custody PROVE Custody'
  <2>1. Quiet' /\ Quiet
    BY <1>3 DEF Quiet, Live
  <2> QED BY <1>3, <2>1, QuietStep, QuietFacts
<1>4. CustodyInv'
  BY <1>3 DEF CustodyInv
<1> QED BY <1>1, <1>2, <1>4

LEMMA DropRuntimeKeeps ==
  ASSUME Inv, NEW p \in Pages, DropRuntime(p)
  PROVE  Inv' /\ NothingLostStep
<1> USE DEF Inv
<1>1. /\ runtime[p] # 0 /\ rec[runtime[p]].failing
      /\ runtime' = [runtime EXCEPT ![p] = 0]
      /\ job' = [job EXCEPT !.stopped = FALSE]
      /\ session' \in {session} \cup (IF session = "recording" THEN {"interrupted"} ELSE {})
      /\ UNCHANGED <<archive, pending, nextNo, requestId, checkpoint, receipt, lock, rec, pump,
                     end, deleter, rows, committed, completedBy, answered, wire, boundVars>>
  BY DEF DropRuntime
<1>2. job' \in JobRecords /\ job'.status = job.status /\ job'.stopped = FALSE
  BY <1>1 DEF TypeOK, JobRecords
<1>3. runtime' \in [Pages -> 0 .. MaxRecordings]
  BY <1>1, Bounds DEF TypeOK
<1>4. session' \in {session, "interrupted"}
  BY <1>1
<1>5. TypeOK'
  BY <1>1, <1>2, <1>3, <1>4 DEF TypeOK, boundVars
<1>6. JobInv' /\ DeletionStays
  BY <1>1, <1>2, <1>4 DEF JobInv, HasJob, DeletionStays, Complete, DeliveryInv
<1>7. DeliveryInv' /\ NothingLostStep
  BY <1>1, <1>6, DeliveryFrame
<1>8. UnusedInv'
  BY <1>1 DEF UnusedInv
<1>9. ~Custody
  BY <1>1, RuntimeIsLive
<1>10. CustodyInv'
  BY <1>1, <1>9 DEF CustodyInv, boundVars
<1> QED BY <1>5, <1>7, <1>8, <1>10

LEMMA RecoverKeeps ==
  ASSUME Inv, NEW p \in Pages, Recover(p)
  PROVE  Inv' /\ NothingLostStep
<1> USE DEF Inv
<1>1. /\ session = "recording" /\ runtime[p] = 0 /\ end[p].stage = "idle" /\ CanLock(p)
      /\ lock' = NoPage
      /\ job' = [job EXCEPT !.stopped = FALSE]
      /\ session' \in {session, "interrupted"}
      /\ UNCHANGED <<archive, pending, nextNo, requestId, checkpoint, receipt, pageVars, rows,
                     committed, completedBy, answered, wire, boundVars>>
  BY DEF Recover
<1>2. job' \in JobRecords /\ job'.status = job.status /\ job'.stopped = FALSE
  BY <1>1 DEF TypeOK, JobRecords
<1>3. TypeOK'
  BY <1>1, <1>2, Bounds DEF TypeOK, pageVars, boundVars
<1>4. lock # Deleter
  BY <1>1, Bounds, PageAssumption DEF CanLock
<1>5. JobInv' /\ DeletionStays
  BY <1>1, <1>2, <1>4 DEF JobInv, HasJob, DeletionStays, Complete, DeliveryInv, pageVars
<1>6. Custody => Quiet
  BY <1>1, Bounds, LockIsFree DEF CanLock
<1> QED BY <1>1, <1>3, <1>5, <1>6, QuietKeeps DEF pageVars, boundVars

LEMMA BeginDeleteKeeps ==
  ASSUME Inv, BeginDelete
  PROVE  Inv' /\ NothingLostStep
<1> USE DEF Inv
<1>1. /\ lock = NoPage /\ lock' = Deleter
      /\ deleter' = [stage |-> "inspected", seen |-> archive]
      /\ UNCHANGED <<archive, pending, nextNo, requestId, job, checkpoint, receipt, rec, runtime,
                     pump, end, serverVars, wire, boundVars>>
  BY DEF BeginDelete
<1>2. TypeOK'
  BY <1>1, Bounds DEF TypeOK, serverVars, boundVars
<1>3. Custody => Quiet
  BY <1>1, Bounds, LockIsFree
<1> DEFINE d == [stage |-> "inspected", seen |-> archive]
<1>4. JobInv' /\ DeleteInv'
  BY <1>1 DEF JobInv, HasJob, DeleteInv, Complete, DeliveryInv, serverVars
<1>5. DeliveryInv' /\ NothingLostStep
  <2>1. HeldInv' /\ IdsInv' /\ PumpInv'
    BY <1>1 DEF DeliveryInv, HeldInv, Held, IdsInv, PumpInv, Current, serverVars
  <2> QED BY <1>1, <1>4, <2>1, NothingLeaves DEF DeliveryInv
<1>6. UnusedInv'
  BY <1>1 DEF UnusedInv
<1>7. ASSUME Custody PROVE Custody'
  <2>1. Quiet' /\ Quiet
    BY <1>1, <1>3, <1>7 DEF Quiet, Live
  <2> QED BY <1>1, <1>2, <1>7, <2>1, QuietStep, QuietFacts
<1>8. CustodyInv'
  BY <1>1, <1>7 DEF CustodyInv, boundVars
<1> QED BY <1>2, <1>5, <1>6, <1>8

LEMMA VerifyDeleteKeeps ==
  ASSUME Inv, VerifyDelete
  PROVE  Inv' /\ NothingLostStep
<1> USE DEF Inv
<1>1. /\ deleter.stage = "inspected"
      /\ \/ ServerHolds /\ deleter' = [deleter EXCEPT !.stage = "verified"] /\ lock' = lock
         \/ deleter' = IdleDelete /\ lock' = NoPage
      /\ UNCHANGED <<archive, pending, nextNo, requestId, job, checkpoint, receipt, rec, runtime,
                     pump, end, serverVars, wire, boundVars>>
  BY DEF VerifyDelete
<1>2. lock = Deleter
  BY <1>1 DEF DeliveryInv, DeleteInv
<1>3. /\ deleter' \in [stage : {"idle", "inspected", "verified"}, seen : ChunkMap]
      /\ deleter'.stage \in {"idle", "verified"}
      /\ deleter'.stage = "verified" => ServerHolds /\ deleter'.seen = deleter.seen /\ lock' = lock
  BY <1>1, NoneTypes DEF TypeOK, IdleDelete
<1>4. lock' \in Ids \cup {Deleter}
  BY <1>1, Bounds DEF TypeOK
<1>5. TypeOK'
  BY <1>1, <1>3, <1>4 DEF TypeOK, serverVars, boundVars
<1>6. Custody => Quiet
  BY <1>2, PageAssumption, LockIsFree
<1>7. JobInv' /\ DeleteInv'
  BY <1>1, <1>2, <1>3 DEF JobInv, HasJob, DeleteInv, ServerHolds, Complete, DeliveryInv,
                          serverVars
<1>8. DeliveryInv' /\ NothingLostStep
  <2>1. HeldInv' /\ IdsInv' /\ PumpInv'
    BY <1>1 DEF DeliveryInv, HeldInv, Held, IdsInv, PumpInv, Current, serverVars
  <2> QED BY <1>1, <1>7, <2>1, NothingLeaves DEF DeliveryInv
<1>9. UnusedInv'
  BY <1>1 DEF UnusedInv
<1>10. ASSUME Custody PROVE Custody'
  <2>1. Quiet' /\ Quiet
    BY <1>1, <1>6, <1>10 DEF Quiet, Live
  <2> QED BY <1>1, <1>5, <1>10, <2>1, QuietStep, QuietFacts
<1>11. CustodyInv'
  BY <1>1, <1>10 DEF CustodyInv, boundVars
<1> QED BY <1>5, <1>8, <1>9, <1>11

(* The archive is deleted only when the server has it all; from then on    *)
(* what is under way is compared with the server.                          *)
LEMMA CommitDeleteKeeps ==
  ASSUME Inv, CommitDelete
  PROVE  Inv' /\ NothingLostStep
<1> USE DEF Inv
<1>1. /\ deleter.stage = "verified" /\ deleter' = IdleDelete /\ lock' = NoPage
      /\ UNCHANGED <<rec, runtime, pump, end, serverVars, wire, boundVars>>
  BY DEF CommitDelete
<1>2. \/ /\ StillDeletable
         /\ archive' = NoChunks /\ pending' = {} /\ nextNo' = 0 /\ requestId' = NoIds
         /\ job' = NoJob /\ checkpoint' = "none" /\ receipt' = TRUE
      \/ UNCHANGED <<archive, pending, nextNo, requestId, job, checkpoint, receipt>>
  BY DEF CommitDelete
<1>3. lock = Deleter /\ Complete /\ rows = deleter.seen
  BY <1>1 DEF DeliveryInv, DeleteInv
<1>4. deleter' \in [stage : {"idle", "inspected", "verified"}, seen : ChunkMap]
      /\ deleter'.stage = "idle"
  BY <1>1, NoneTypes DEF IdleDelete
<1>5. Custody => Quiet
  BY <1>3, PageAssumption, LockIsFree
<1>6. UnusedInv'
  BY <1>1 DEF UnusedInv
<1>7. CASE UNCHANGED <<archive, pending, nextNo, requestId, job, checkpoint, receipt>>
  <2>1. TypeOK'
    BY <1>1, <1>4, <1>7, Bounds DEF TypeOK, serverVars, boundVars
  <2>2. JobInv' /\ DeleteInv'
    BY <1>1, <1>4, <1>7 DEF JobInv, HasJob, DeleteInv, DeliveryInv, serverVars
  <2>3. HeldInv' /\ IdsInv' /\ PumpInv'
    BY <1>1, <1>7 DEF DeliveryInv, HeldInv, Held, IdsInv, PumpInv, Current, serverVars
  <2>4. ASSUME Custody PROVE Custody'
    <3>1. Quiet' /\ Quiet
      BY <1>1, <1>5, <2>4 DEF Quiet, Live
    <3> QED BY <1>1, <1>7, <2>1, <2>4, <3>1, QuietStep, QuietFacts
  <2>5. CustodyInv'
    BY <1>1, <2>4 DEF CustodyInv, boundVars
  <2> QED BY <1>6, <1>7, <2>1, <2>2, <2>3, <2>5, NothingLeaves DEF DeliveryInv
<1>8. CASE /\ StillDeletable
           /\ archive' = NoChunks /\ pending' = {} /\ nextNo' = 0 /\ requestId' = NoIds
           /\ job' = NoJob /\ checkpoint' = "none" /\ receipt' = TRUE
  <2>1. archive = rows /\ HasJob
    BY <1>3, <1>8 DEF StillDeletable, Deletable, DeletableJob, HasJob
  <2>2. ~receipt /\ session # "ready"
    BY <2>1 DEF DeliveryInv, JobInv
  <2>3. job' \in JobRecords /\ ~job'.stopped /\ job'.status = "none"
    BY <1>8, Bounds DEF NoJob, JobRecords
  <2>4. 0 \in 0 .. MaxChunks /\ pending' \subseteq Present(archive')
    BY <1>8, Bounds
  <2>5. TypeOK'
    BY <1>1, <1>4, <1>8, <2>3, <2>4, NoneTypes, Bounds DEF TypeOK, serverVars, boundVars
  <2>6. JobInv' /\ DeleteInv'
    BY <1>1, <1>4, <1>8, <2>2, <2>3 DEF JobInv, HasJob, DeleteInv, serverVars
  <2>7. Held = rows /\ Held' = rows
    BY <1>1, <1>8, <2>1, <2>2 DEF Held, serverVars
  <2>8. HeldInv'
    BY <1>1, <2>7 DEF DeliveryInv, HeldInv, serverVars
  <2>9. PumpInv'
    BY <1>1 DEF DeliveryInv, PumpInv, Current, serverVars
  <2>10. IdsInv'
    <3>1. /\ \A a \in answered : requestId[a[1]] = a[2] /\ a \in SeqNos \X Pages
          /\ \A u \in wire : requestId[u.no] = u.id /\ u.no \in SeqNos /\ u.id \in Pages
          /\ \A p \in Pages, n \in SeqNos : pump[p].ids[n] \in {NoPage, requestId[n]}
          /\ \A n \in SeqNos : requestId[n] # NoPage => rows[n] # 0
          /\ \A n \in SeqNos : rows[n] # 0 <=> \E i \in Pages : <<n, i>> \in answered
      BY <2>1, <2>2 DEF DeliveryInv, IdsInv, TypeOK, UploadRecords
    <3>2. \A n \in SeqNos : requestId[n] # NoPage => <<n, requestId[n]>> \in answered
      BY <3>1
    <3>3. \A a, b \in answered : a[1] = b[1] => a = b
      BY <3>1
    <3>4. \A u \in wire : <<u.no, u.id>> \in answered
      <4> TAKE u \in wire
      <4>1. /\ requestId[u.no] = u.id /\ u.no \in SeqNos /\ u.id # NoPage
        BY <3>1, PageAssumption
      <4> QED BY <3>2, <4>1
    <3>5. \A p \in Pages, n \in SeqNos :
            pump[p].ids[n] # NoPage => <<n, pump[p].ids[n]>> \in answered
      BY <3>1, <3>2
    <3> QED BY <1>1, <1>8, <3>1, <3>3, <3>4, <3>5 DEF IdsInv, serverVars
  <2>11. NothingLostStep
    BY <1>1, <2>1 DEF NothingLostStep, serverVars, Present
  <2>12. ASSUME Custody PROVE Custody'
    <3>1. Quiet' /\ Quiet
      BY <1>1, <1>5, <2>12 DEF Quiet, Live
    <3>2. \A n \in SeqNos : archive'[n] # 0 => n < nextNo'
      BY <1>8 DEF NoChunks
    <3>3. \A r \in Recordings : rec'[r].chain = <<>>
      BY <1>1, <2>12, <3>1, QuietFacts
    <3> QED BY <2>5, <3>1, <3>2, <3>3, QuietStep
  <2>13. CustodyInv'
    BY <1>1, <2>12 DEF CustodyInv, boundVars
  <2> QED BY <1>6, <2>5, <2>6, <2>8, <2>9, <2>10, <2>11, <2>13 DEF DeliveryInv
<1> QED BY <1>2, <1>7, <1>8

LEMMA StartRecordingKeeps ==
  ASSUME Inv, NEW p \in Pages, NEW r \in Recordings, StartRecording(p, r)
  PROVE  Inv' /\ NothingLostStep
<1> USE DEF Inv
<1> DEFINE c == [Unused EXCEPT !.state = "recording", !.page = p, !.first = nextNo,
                               !.next = nextNo]
<1>1. /\ rec[r] = Unused /\ runtime[p] = 0 /\ end[p].stage = "idle" /\ CanLock(p)
      /\ session = "ready" \/ HasJob
      /\ lock' = p /\ session' = "recording" /\ checkpoint' = "dirty"
      /\ rec' = [rec EXCEPT ![r] = c]
      /\ runtime' = [runtime EXCEPT ![p] = r]
      /\ UNCHANGED <<archive, pending, nextNo, requestId, receipt, pump, end, deleter, rows,
                     committed, completedBy, answered, wire, boundVars>>
  BY DEF StartRecording
<1>2. job' \in JobRecords /\ HasJob' /\ job'.stopped = FALSE
  <2>1. CASE HasJob
    BY <1>1, <2>1 DEF StartRecording, TypeOK, JobRecords, HasJob
  <2>2. CASE ~HasJob
    <3>1. NoJob \in JobRecords /\ NoJob.stopped = FALSE
      BY Bounds DEF NoJob, JobRecords
    <3>2. job' = [NoJob EXCEPT !.status = "recording"]
      BY <2>2 DEF StartRecording
    <3> QED BY <3>1, <3>2 DEF JobRecords, HasJob
  <2> QED BY <2>1, <2>2
<1>3. /\ c \in RecRecords /\ c.state = "recording" /\ c.page = p /\ c.chain = <<>>
      /\ c.next = nextNo /\ ~c.failing
  <2>1. nextNo \in 0 .. MaxChunks /\ p \in Ids
    BY Bounds DEF TypeOK
  <2>2. Unused.chain = <<>> /\ Unused.failing = FALSE
    BY DEF Unused
  <2> QED BY <2>1, <2>2, UnusedType DEF RecRecords
<1>4. rec[r].page = NoPage /\ ~Live(r)
  BY <1>1 DEF Unused, Live
<1> HIDE DEF c
<1>5. /\ rec' \in [Recordings -> RecRecords]
      /\ rec'[r] = c /\ \A q \in Recordings : q # r => rec'[q] = rec[q]
  BY <1>1, <1>3, RecPut
<1>6. /\ runtime' \in [Pages -> 0 .. MaxRecordings]
      /\ runtime'[p] = r /\ \A o \in Pages : o # p => runtime'[o] = runtime[o]
  BY <1>1, Bounds DEF TypeOK, Recordings
<1>7. TypeOK'
  BY <1>1, <1>2, <1>5, <1>6, Bounds DEF TypeOK, boundVars
<1>8. lock # Deleter
  BY <1>1, PageAssumption DEF CanLock
<1>9. JobInv' /\ DeletionStays
  BY <1>1, <1>2, <1>8 DEF JobInv, DeletionStays, Complete, DeliveryInv
<1>10. DeliveryInv' /\ NothingLostStep
  BY <1>1, <1>9, DeliveryFrame
<1>11. UnusedInv'
  <2>1. \A q \in Recordings :
          IF rec'[q].state = "unused" THEN rec'[q] = Unused ELSE rec'[q].page \in Pages
    BY <1>3, <1>5 DEF UnusedInv
  <2>2. \A o \in Pages : runtime'[o] # 0 => rec'[runtime'[o]].page = o
    <3> SUFFICES ASSUME NEW o \in Pages, o # p, runtime[o] # 0 PROVE rec'[runtime[o]].page = o
      BY <1>3, <1>5, <1>6
    <3>1. runtime[o] \in Recordings /\ rec[runtime[o]].page = o
      BY Bounds DEF UnusedInv, TypeOK, Recordings
    <3>2. runtime[o] # r
      BY <1>4, <3>1, PageAssumption
    <3> QED BY <1>5, <3>1, <3>2
  <2> QED BY <2>1, <2>2 DEF UnusedInv
<1>12. ASSUME Custody PROVE Custody'
  <2>1. Quiet
    BY <1>1, <1>12, Bounds, LockIsFree DEF CanLock
  <2>2. \A q \in Recordings : rec'[q].chain = <<>> /\ (q # r => ~Live(q)')
    BY <1>3, <1>5, <1>12, <2>1, QuietFacts DEF Quiet, Live
  <2>3. \A o \in Pages : RuntimeOK(o)'
    BY <1>1, <1>3, <1>5, <1>6, <2>1 DEF Quiet, RuntimeOK
  <2>4. LiveOK(r)'
    BY <1>1, <1>3, <1>5, <1>6 DEF LiveOK
  <2>5. NumbersOK(r)'
    <3>1. Len(<<>>) = 0 /\ nextNo \in Nat
      BY Bounds DEF TypeOK
    <3> QED BY <1>1, <1>3, <1>5, <3>1 DEF NumbersOK
  <2>6. \A q \in Recordings : q # r => LiveOK(q)' /\ NumbersOK(q)'
    BY <2>2 DEF LiveOK, NumbersOK
  <2>7. \A n \in SeqNos : archive'[n] # 0 => n < nextNo'
    BY <1>1, <1>12 DEF Custody
  <2> QED BY <2>2, <2>3, <2>4, <2>5, <2>6, <2>7 DEF Custody
<1>13. CustodyInv'
  BY <1>1, <1>12 DEF CustodyInv, boundVars
<1> QED BY <1>7, <1>10, <1>11, <1>13

(* A runtime is given up, and its recorder goes on to its end; the page    *)
(* waits for it.                                                           *)
LEMMA StopStep ==
  ASSUME TypeOK, UnusedInv, Custody, NEW p \in Pages, NEW r \in Recordings, r = runtime[p],
         NEW c \in RecRecords, rec' = [rec EXCEPT ![r] = c],
         c.state = "tail", c.page = p, c.next = rec[r].next, c.chain = rec[r].chain,
         runtime' = [runtime EXCEPT ![p] = 0],
         NEW e \in EndRecords, end' = [end EXCEPT ![p] = e],
         e.stage \in {"stopping", "interrupting"},
         UNCHANGED <<lock, nextNo, archive>>
  PROVE  Custody'
<1>1. rec'[r] = c /\ \A q \in Recordings : q # r => rec'[q] = rec[q]
  BY RecPut
<1>2. runtime'[p] = 0 /\ \A o \in Pages : o # p => runtime'[o] = runtime[o]
  BY DEF TypeOK
<1>3. end'[p] = e /\ \A o \in Pages : o # p => end'[o] = end[o]
  BY EndPut
<1>4. runtime[p] # 0
  BY Bounds DEF Recordings
<1>5. Live(r) /\ lock = p
  BY <1>4, RuntimeIsLive
<1>6. \A q \in Recordings : q # r => ~Live(q) /\ rec[q].chain = <<>>
  BY <1>5 DEF Custody, NumbersOK
<1>7. \A o \in Pages : runtime'[o] = 0
  <2> SUFFICES ASSUME NEW o \in Pages, o # p, runtime[o] # 0 PROVE FALSE
    BY <1>2
  <2>1. lock = o
    BY RuntimeIsLive
  <2> QED BY <1>5, <2>1
<1>8. \A o \in Pages : RuntimeOK(o)'
  BY <1>7 DEF RuntimeOK
<1>9. LiveOK(r)' /\ NumbersOK(r)'
  <2>1. NumbersOK(r)
    BY DEF Custody
  <2> QED BY <1>1, <1>3, <1>5, <1>7, <2>1 DEF LiveOK, NumbersOK, Live
<1>10. \A q \in Recordings : q # r => ~Live(q)' /\ LiveOK(q)' /\ NumbersOK(q)'
  BY <1>1, <1>6 DEF LiveOK, NumbersOK, Live
<1> QED BY <1>8, <1>9, <1>10 DEF Custody

LEMMA VerifyKeeps ==
  ASSUME Inv, NEW p \in Pages, Verify(p)
  PROVE  Inv' /\ NothingLostStep
<1> USE DEF Inv
<1> DEFINE r == runtime[p]
           ending == rec[r].failing \/ rec[r].state = "done"
           d == [rec[r] EXCEPT !.interrupted = TRUE]
           s == IF ending THEN "drain" ELSE "interrupting"
           e == [end[p] EXCEPT !.stage = s]
<1>1. /\ r # 0 /\ end[p].stage = "idle"
      /\ runtime' = [runtime EXCEPT ![p] = 0]
      /\ end' = EndAt(p, s)
      /\ rec' = IF ending THEN rec ELSE [rec EXCEPT ![r] = Failing(d)]
      /\ lock' = IF ending THEN Freed(p) ELSE lock
      /\ UNCHANGED <<archive, pending, nextNo, requestId, job, checkpoint, receipt, pump, deleter,
                     serverVars, wire, boundVars>>
  BY DEF Verify, EndAt
<1>2. s \in EndStages
  BY DEF EndStages
<1>3. e \in EndRecords /\ e.stage = s /\ end' = [end EXCEPT ![p] = e]
  BY <1>1, <1>2, EndTypes
<1>4. /\ r \in Recordings /\ rec[r] \in RecRecords /\ rec[r].page = p
      /\ rec[r].state # "unused"
  BY <1>1, Bounds DEF TypeOK, UnusedInv, Recordings, Unused
<1>5. /\ d \in RecRecords /\ d.state = rec[r].state /\ d.page = p
      /\ d.next = rec[r].next /\ d.chain = rec[r].chain
  BY <1>4 DEF RecRecords
<1>6. /\ Failing(d) \in RecRecords /\ Failing(d).page = p
      /\ Failing(d).state = IF rec[r].state = "recording" THEN "tail" ELSE rec[r].state
      /\ Failing(d).next = rec[r].next /\ Failing(d).chain = rec[r].chain
  BY <1>5, FailingFacts
<1> HIDE DEF d, e
<1>7. end' \in [Pages -> EndRecords]
  BY <1>3, EndPut
<1>8. runtime' \in [Pages -> 0 .. MaxRecordings] /\ \A o \in Pages : runtime'[o] \in {0, runtime[o]}
  BY <1>1, Bounds DEF TypeOK
<1>9. rec' \in [Recordings -> RecRecords] /\ UnusedInv'
  <2>1. CASE ending
    <3>1. rec' = rec
      BY <1>1, <2>1
    <3> QED BY <1>8, <3>1 DEF TypeOK, UnusedInv
  <2>2. CASE ~ending
    <3>1. rec' = [rec EXCEPT ![r] = Failing(d)]
      BY <1>1, <2>2
    <3>2. /\ r \in Recordings /\ Failing(d) \in RecRecords /\ Failing(d).state # "unused"
          /\ Failing(d).page = rec[r].page /\ Failing(d).page \in Pages
      BY <1>4, <1>6, <3>1
    <3> HIDE DEF r
    <3>3. rec' \in [Recordings -> RecRecords]
      BY <3>1, <3>2, RecPut
    <3>4. UnusedInv'
      BY <1>8, <3>1, <3>2, UnusedStep
    <3> QED BY <3>3, <3>4
  <2> QED BY <2>1, <2>2
<1>10. lock' \in Ids \cup {Deleter} /\ (lock = Deleter => lock' = Deleter)
  BY <1>1, FreedFacts DEF TypeOK
<1>11. TypeOK'
  BY <1>1, <1>7, <1>8, <1>9, <1>10 DEF TypeOK, serverVars, boundVars
<1>12. JobInv' /\ DeletionStays
  BY <1>1, <1>10 DEF JobInv, HasJob, DeletionStays, Complete, DeliveryInv, serverVars
<1>13. DeliveryInv' /\ NothingLostStep
  BY <1>1, <1>12, DeliveryFrame DEF serverVars
<1>14. ASSUME Custody PROVE Custody'
  <2>1. rec[r].state = "recording" /\ ~ending
    BY <1>1, <1>14, RuntimeIsLive
  <2>2. rec' = [rec EXCEPT ![r] = Failing(d)] /\ lock' = lock /\ e.stage = "interrupting"
    BY <1>1, <1>3, <2>1
  <2>3. Failing(d).state = "tail"
    BY <1>6, <2>1
  <2> HIDE DEF r
  <2> QED BY <1>1, <1>3, <1>4, <1>6, <1>14, <2>2, <2>3, StopStep DEF r
<1>15. CustodyInv'
  BY <1>1, <1>14 DEF CustodyInv, boundVars
<1> QED BY <1>9, <1>11, <1>13, <1>15

LEMMA BeginEndKeeps ==
  ASSUME Inv, NEW p \in Pages, BeginEnd(p)
  PROVE  Inv' /\ NothingLostStep
<1> USE DEF Inv
<1> DEFINE r == runtime[p]
           running == r # 0 /\ rec[r].state # "done"
           c == [rec[r] EXCEPT !.stopping = TRUE,
                               !.state = IF rec[r].state = "recording" THEN "tail" ELSE rec[r].state]
           s == IF running THEN "stopping" ELSE "read"
           e == [end[p] EXCEPT !.stage = s]
<1>1. /\ end[p].stage = "idle"
      /\ runtime' = [runtime EXCEPT ![p] = 0]
      /\ end' = EndAt(p, s)
      /\ lock' = IF r = 0 THEN Freed(p) ELSE lock
      /\ UNCHANGED <<archive, pending, nextNo, requestId, job, checkpoint, receipt, pump, deleter,
                     serverVars, wire, boundVars>>
  BY DEF BeginEnd, EndAt
<1>2. rec' = IF running THEN [rec EXCEPT ![r] = c] ELSE rec
  BY DEF BeginEnd
<1>3. s \in EndStages
  BY DEF EndStages
<1>4. e \in EndRecords /\ e.stage = s /\ end' = [end EXCEPT ![p] = e]
  BY <1>1, <1>3, EndTypes
<1>5. r # 0 => /\ r \in Recordings /\ rec[r] \in RecRecords /\ rec[r].page = p
               /\ rec[r].state # "unused"
  BY Bounds DEF TypeOK, UnusedInv, Recordings, Unused
<1>6. r # 0 => /\ c \in RecRecords /\ c.page = p /\ c.next = rec[r].next
               /\ c.state = IF rec[r].state = "recording" THEN "tail" ELSE rec[r].state
               /\ c.chain = rec[r].chain
  BY <1>5 DEF RecRecords
<1> HIDE DEF c, e
<1>7. end' \in [Pages -> EndRecords]
  BY <1>4, EndPut
<1>8. runtime' \in [Pages -> 0 .. MaxRecordings] /\ \A o \in Pages : runtime'[o] \in {0, runtime[o]}
  BY <1>1, Bounds DEF TypeOK
<1>9. rec' \in [Recordings -> RecRecords] /\ UnusedInv'
  <2>1. CASE ~running
    <3>1. rec' = rec
      BY <1>2, <2>1
    <3> QED BY <1>8, <3>1 DEF TypeOK, UnusedInv
  <2>2. CASE running
    <3>1. rec' = [rec EXCEPT ![r] = c] /\ r # 0
      BY <1>2, <2>2
    <3>2. /\ r \in Recordings /\ c \in RecRecords /\ c.state # "unused"
          /\ c.page = rec[r].page /\ c.page \in Pages
      BY <1>5, <1>6, <3>1
    <3> HIDE DEF r
    <3>3. rec' \in [Recordings -> RecRecords]
      BY <3>1, <3>2, RecPut
    <3>4. UnusedInv'
      BY <1>8, <3>1, <3>2, UnusedStep
    <3> QED BY <3>3, <3>4
  <2> QED BY <2>1, <2>2
<1>10. lock' \in Ids \cup {Deleter} /\ (lock = Deleter => lock' = Deleter)
  BY <1>1, FreedFacts DEF TypeOK
<1>11. TypeOK'
  BY <1>1, <1>7, <1>8, <1>9, <1>10 DEF TypeOK, serverVars, boundVars
<1>12. JobInv' /\ DeletionStays
  BY <1>1, <1>10 DEF JobInv, HasJob, DeletionStays, Complete, DeliveryInv, serverVars
<1>13. DeliveryInv' /\ NothingLostStep
  BY <1>1, <1>12, DeliveryFrame DEF serverVars
<1>14. ASSUME Custody, r # 0 PROVE Custody'
  <2>1. rec[r].state = "recording"
    BY <1>14, RuntimeIsLive
  <2>2. rec' = [rec EXCEPT ![r] = c] /\ lock' = lock /\ e.stage = "stopping" /\ c.state = "tail"
    BY <1>1, <1>2, <1>4, <1>6, <1>14, <2>1
  <2> HIDE DEF r
  <2> QED BY <1>1, <1>4, <1>5, <1>6, <1>14, <2>2, StopStep DEF r
<1>15. ASSUME Custody, r = 0 PROVE Custody'
  <2>1. rec' = rec /\ runtime' = runtime
    BY <1>1, <1>2, <1>15 DEF TypeOK
  <2>2. CASE lock = p
    <3>1. Quiet
      BY <1>1, <1>15, <2>2, LockIsFree
    <3>2. Quiet'
      BY <2>1, <3>1 DEF Quiet, Live
    <3> QED BY <1>1, <1>11, <1>15, <2>1, <3>1, <3>2, QuietFacts, QuietStep
  <2>3. CASE lock # p
    <3>1. lock' = lock
      BY <1>1, <1>15, <2>3, FreedFacts
    <3>2. \A o \in Pages : o # p => end'[o] = end[o]
      BY <1>4, EndPut
    <3>3. \A o \in Pages : RuntimeOK(o)'
      BY <1>15, <2>1, <3>2 DEF Custody, RuntimeOK
    <3>4. \A q \in Recordings : LiveOK(q)' /\ NumbersOK(q)'
      <4> SUFFICES ASSUME NEW q \in Recordings PROVE LiveOK(q)' /\ NumbersOK(q)'
        OBVIOUS
      <4>1. LiveOK(q) /\ NumbersOK(q) /\ (Live(q) => rec[q].page \in Pages)
        BY <1>15, UsedFacts DEF Custody, Live
      <4> QED BY <1>1, <2>1, <2>3, <3>1, <3>2, <4>1 DEF LiveOK, NumbersOK, Live
    <3> QED BY <1>1, <1>15, <2>1, <3>3, <3>4 DEF Custody, Live
  <2> QED BY <2>2, <2>3
<1>16. CustodyInv'
  BY <1>1, <1>14, <1>15 DEF CustodyInv, boundVars
<1> QED BY <1>9, <1>11, <1>13, <1>16

LEMMA CrashKeeps ==
  ASSUME Inv, NEW p \in Pages, Crash(p)
  PROVE  Inv' /\ NothingLostStep
<1> USE DEF Inv
<1> DEFINE c == [Unused EXCEPT !.state = "done", !.page = p]
<1>1. /\ crashes < MaxCrashes /\ crashes' = crashes + 1
      /\ rec' = [r \in Recordings |-> IF rec[r].page = p THEN c ELSE rec[r]]
      /\ runtime' = [runtime EXCEPT ![p] = 0]
      /\ pump' = [pump EXCEPT ![p] = IdlePump]
      /\ end' = [end EXCEPT ![p] = IdleEnd]
      /\ lock' = Freed(p)
      /\ UNCHANGED <<archive, pending, nextNo, requestId, job, checkpoint, receipt, deleter,
                     serverVars, wire, failures, lost>>
  BY DEF Crash, EndStops
<1>2. c \in RecRecords /\ c.state = "done" /\ c.page = p /\ c.chain = <<>>
  <2>1. Unused.chain = <<>>
    BY DEF Unused
  <2> QED BY <2>1, UnusedType, Bounds DEF RecRecords
<1> HIDE DEF c
<1>3. /\ rec' \in [Recordings -> RecRecords]
      /\ \A r \in Recordings : rec'[r] = IF rec[r].page = p THEN c ELSE rec[r]
  BY <1>1, <1>2 DEF TypeOK
<1>4. /\ runtime' \in [Pages -> 0 .. MaxRecordings]
      /\ runtime'[p] = 0 /\ \A o \in Pages : o # p => runtime'[o] = runtime[o]
  BY <1>1, Bounds DEF TypeOK
<1>5. /\ end' \in [Pages -> EndRecords]
      /\ \A o \in Pages : o # p => end'[o] = end[o]
  BY <1>1, EndTypes, EndPut
<1>6. JobInv' /\ DeletionStays
  BY <1>1, FreedFacts DEF JobInv, HasJob, DeletionStays, Complete, DeliveryInv, serverVars
<1>7. DeliveryInv' /\ pump' \in [Pages -> PumpRecords]
  BY <1>1, <1>6, IdlePumpFacts, PumpStep DEF serverVars
<1>8. crashes' \in 0 .. MaxCrashes /\ lock' \in Ids \cup {Deleter}
  BY <1>1, FreedFacts, Bounds DEF TypeOK
<1>9. TypeOK'
  BY <1>1, <1>3, <1>4, <1>5, <1>7, <1>8 DEF TypeOK, serverVars
<1>10. UnusedInv'
  <2>1. \A r \in Recordings :
          IF rec'[r].state = "unused" THEN rec'[r] = Unused ELSE rec'[r].page \in Pages
    BY <1>2, <1>3 DEF UnusedInv
  <2>2. \A o \in Pages : runtime'[o] # 0 => rec'[runtime'[o]].page = o
    <3> SUFFICES ASSUME NEW o \in Pages, o # p, runtime[o] # 0 PROVE rec'[runtime[o]].page = o
      BY <1>4
    <3>1. runtime[o] \in Recordings /\ rec[runtime[o]].page = o
      BY Bounds DEF UnusedInv, TypeOK, Recordings
    <3> QED BY <1>3, <3>1
  <2> QED BY <2>1, <2>2 DEF UnusedInv
<1>11. ASSUME Custody PROVE Custody'
  <2>1. \A r \in Recordings : Live(r)' => Live(r) /\ rec[r].page # p /\ rec'[r] = rec[r]
    BY <1>2, <1>3 DEF Live
  <2>2. \A o \in Pages : RuntimeOK(o)'
    <3> SUFFICES ASSUME NEW o \in Pages, o # p, runtime[o] # 0 PROVE RuntimeOK(o)'
      BY <1>4 DEF RuntimeOK
    <3>1. runtime[o] \in Recordings /\ RuntimeOK(o)
      BY <1>11, Bounds DEF Custody, TypeOK, Recordings
    <3>2. rec'[runtime[o]] = rec[runtime[o]]
      BY <1>3, <3>1 DEF RuntimeOK
    <3> QED BY <1>4, <1>5, <3>1, <3>2 DEF RuntimeOK
  <2>3. \A r \in Recordings : LiveOK(r)' /\ NumbersOK(r)'
    <3> SUFFICES ASSUME NEW r \in Recordings PROVE LiveOK(r)' /\ NumbersOK(r)'
      OBVIOUS
    <3>1. LiveOK(r) /\ NumbersOK(r)
      BY <1>11 DEF Custody
    <3>2. CASE ~Live(r)'
      <4>1. rec'[r].chain = <<>>
        BY <1>2, <1>3, <3>1, <3>2 DEF NumbersOK, Live
      <4> QED BY <3>2, <4>1 DEF LiveOK, NumbersOK
    <3>3. CASE Live(r)'
      <4>1. Live(r) /\ rec[r].page # p /\ rec'[r] = rec[r] /\ rec[r].page \in Pages
        BY <2>1, <3>3, UsedFacts DEF Live
      <4>2. lock' = lock
        BY <1>1, <3>1, <4>1, FreedFacts DEF LiveOK
      <4>3. LiveOK(r)'
        BY <1>4, <1>5, <3>1, <4>1, <4>2 DEF LiveOK
      <4>4. NumbersOK(r)'
        BY <1>1, <3>1, <3>3, <4>1 DEF NumbersOK
      <4> QED BY <4>3, <4>4
    <3> QED BY <3>2, <3>3
  <2>4. \A r, q \in Recordings : Live(r)' /\ Live(q)' => r = q
    BY <1>11, <2>1 DEF Custody
  <2>5. \A n \in SeqNos : archive'[n] # 0 => n < nextNo'
    BY <1>1, <1>11 DEF Custody
  <2> QED BY <2>2, <2>3, <2>4, <2>5 DEF Custody
<1>12. CustodyInv'
  BY <1>1, <1>11 DEF CustodyInv
<1> QED BY <1>1, <1>7, <1>9, <1>10, <1>12, NothingLeaves

-----------------------------------------------------------------------------
(* The invariant                                                           *)

LEMMA InvInit ==
  ASSUME Init
  PROVE  Inv
<1>1. TypeOK
  <2>1. IdlePump \in PumpRecords /\ IdleEnd \in EndRecords
    BY NoneTypes, Bounds DEF IdlePump, PumpRecords, IdleEnd, EndRecords
  <2>2. NoJob \in JobRecords /\ Present(NoChunks) = {}
    BY Bounds DEF NoJob, JobRecords, Present, NoChunks
  <2>3. IdleDelete \in [stage : {"idle", "inspected", "verified"}, seen : ChunkMap]
    BY NoneTypes DEF IdleDelete
  <2>4. receipt \in BOOLEAN
    BY Zenon DEF Init
  <2>5. archive \in ChunkMap /\ pending \subseteq Present(archive)
    BY NoneTypes DEF Init
  <2>6. /\ nextNo \in 0 .. MaxChunks /\ requestId \in [SeqNos -> Ids] /\ job \in JobRecords
        /\ checkpoint \in {"none", "dirty", "clean"}
        /\ lock \in Ids \cup {Deleter}
    BY <2>2, NoneTypes, Bounds DEF Init
  <2>7. /\ rec \in [Recordings -> RecRecords] /\ runtime \in [Pages -> 0 .. MaxRecordings]
        /\ pump \in [Pages -> PumpRecords] /\ end \in [Pages -> EndRecords]
        /\ deleter \in [stage : {"idle", "inspected", "verified"}, seen : ChunkMap]
    BY <2>1, <2>3, UnusedType, Bounds DEF Init
  <2>8. /\ rows \in ChunkMap /\ committed \in ChunkMap /\ completedBy \in Ids
        /\ session \in {"ready", "recording", "interrupted", "stopping", "processing"}
        /\ answered \subseteq SeqNos \X Pages /\ wire \subseteq UploadRecords
        /\ failures \in 0 .. MaxTrouble /\ lost \in 0 .. MaxTrouble
        /\ crashes \in 0 .. MaxCrashes
    BY NoneTypes, Bounds DEF Init
  <2> QED BY <2>6, <2>7, <2>8, <2>4, <2>5 DEF TypeOK
<1>2. DeliveryInv
  <2>1. HeldInv
    BY DEF Init, HeldInv, Held, NoChunks, IdlePump
  <2>2. IdsInv
    BY DEF Init, IdsInv, NoChunks, NoIds, IdlePump
  <2>3. PumpInv /\ JobInv /\ DeleteInv
    BY DEF Init, PumpInv, JobInv, DeleteInv, IdlePump, NoJob, HasJob, IdleDelete
  <2> QED BY <2>1, <2>2, <2>3 DEF DeliveryInv
<1>3. UnusedInv
  BY DEF Init, UnusedInv, Unused
<1>4. CustodyInv
  BY DEF Init, CustodyInv, Custody, RuntimeOK, LiveOK, NumbersOK, Live, Unused, NoChunks
<1> QED BY <1>1, <1>2, <1>3, <1>4 DEF Inv

LEMMA InvStep ==
  ASSUME Inv, [Next]_vars
  PROVE  Inv' /\ NothingLostStep
<1>1. ASSUME NEW p \in Pages, NEW r \in Recordings, StartRecording(p, r)
      PROVE  Inv' /\ NothingLostStep
  BY <1>1, StartRecordingKeeps
<1>2. ASSUME NEW r \in Recordings,
             \/ Accept(r) \/ Persist(r) \/ PersistFails(r)
             \/ DeviceFails(r) \/ LastBlob(r) \/ Close(r)
      PROVE  Inv' /\ NothingLostStep
  BY <1>2, AcceptKeeps, PersistKeeps, PersistFailsKeeps, DeviceFailsKeeps, LastBlobKeeps,
     CloseKeeps
<1>3. ASSUME NEW u \in wire, Upload(u)
      PROVE  Inv' /\ NothingLostStep
  BY <1>3, UploadKeeps
<1>4. CASE BeginDelete \/ VerifyDelete \/ CommitDelete
  BY <1>4, BeginDeleteKeeps, VerifyDeleteKeeps, CommitDeleteKeeps
<1>5. ASSUME NEW p \in Pages, EndSteps(p)
      PROVE  Inv' /\ NothingLostStep
  BY <1>5, BeginEndKeeps, ReadArchiveKeeps, FreezeJobKeeps, SubmitEndKeeps, CheckJobKeeps,
     CompleteEndKeeps, ConfirmEndKeeps DEF EndSteps
<1>6. ASSUME NEW p \in Pages, RunSteps(p)
      PROVE  Inv' /\ NothingLostStep
  BY <1>6, StartRunKeeps, FlushWithoutJobKeeps, AssignIdKeeps, SendKeeps, AcknowledgeKeeps,
     RecordFailureKeeps DEF RunSteps
<1>7. ASSUME NEW p \in Pages,
             \/ DropRuntime(p) \/ Verify(p) \/ Recover(p)
             \/ RequestLost(p) \/ GiveUp(p) \/ Crash(p)
      PROVE  Inv' /\ NothingLostStep
  BY <1>7, DropRuntimeKeeps, VerifyKeeps, RecoverKeeps, RequestLostKeeps, GiveUpKeeps,
     CrashKeeps
<1>8. CASE UNCHANGED vars
  <2>1. UNCHANGED <<archive, pending>>
    BY <1>8 DEF vars, storeVars
  <2>2. TypeOK' /\ JobInv' /\ DeletionStays /\ EndStays
    BY <1>8 DEF Inv, DeliveryInv, TypeOK, JobInv, HasJob, DeletionStays, EndStays, Complete,
                vars, storeVars, pageVars, serverVars, boundVars
  <2> QED BY <1>8, <2>2, EndingKeeps DEF vars, storeVars, pageVars, serverVars, boundVars
<1> QED
  BY <1>1, <1>2, <1>3, <1>4, <1>5, <1>6, <1>7, <1>8
  DEF Next, StartStep, RecorderSteps, ServerStep, DeleteSteps

(* The invariant: where every copy of a chunk and of its request id lies,   *)
(* and, while no capture fails, who holds the lock.                        *)
THEOREM Invariance == Spec => []Inv
<1>1. Init => Inv
  BY InvInit
<1>2. Inv /\ [Next]_vars => Inv'
  BY InvStep
<1> QED BY <1>1, <1>2, PTL DEF Spec

(* Every variable of the browser, its pages and the server has its type. *)
THEOREM TypeCorrect == Spec => []TypeOK
<1>1. Inv => TypeOK
  BY DEF Inv
<1> QED BY <1>1, Invariance, PTL

(* A chunk leaves the delivery queue or the archive only when the server    *)
(* holds it, for any number of tabs, crashes, lost requests and failed     *)
(* writes.                                                                 *)
THEOREM ChunksAreKept == Spec => NothingLost
<1>1. Inv /\ [Next]_vars =>
        [\A n \in Present(archive) :
           (archive'[n] = 0 \/ (n \in pending /\ n \notin pending')) => rows'[n] = archive[n]]_vars
  BY InvStep DEF NothingLostStep
<1> QED BY <1>1, Invariance, PTL DEF Spec, NothingLost

(* All uploads of a chunk carry one request id, whichever tab sends them    *)
(* and whenever they arrive, also after the archive has been deleted.      *)
THEOREM OneRequest == Spec => []OneRequestPerChunk
<1>1. ASSUME Inv PROVE OneRequestPerChunk
  <2> DEFINE sent == answered \cup {<<u.no, u.id>> : u \in wire}
  <2>1. \A a \in sent : a \in SeqNos \X Pages
    BY <1>1 DEF Inv, TypeOK, UploadRecords
  <2>2. CASE receipt
    <3>1. \A a \in sent : a \in answered
      BY <1>1, <2>2 DEF Inv, DeliveryInv, IdsInv
    <3> QED BY <1>1, <2>2, <3>1 DEF Inv, DeliveryInv, IdsInv, OneRequestPerChunk
  <2>3. CASE ~receipt
    <3>1. \A a \in sent : requestId[a[1]] = a[2]
      BY <1>1, <2>3 DEF Inv, DeliveryInv, IdsInv
    <3> HIDE DEF sent
    <3>2. \A a, b \in sent : a[1] = b[1] => a = b
      BY <2>1, <3>1
    <3> QED BY <3>2 DEF OneRequestPerChunk, sent
  <2> QED BY <2>2, <2>3
<1> QED BY <1>1, Invariance, PTL

(* While no capture fails, one page at a time records. *)
THEOREM SingleRecorder == Spec => []OneRecorder
<1>1. ASSUME Inv PROVE OneRecorder
  BY <1>1 DEF Inv, CustodyInv, Custody, OneRecorder, Live
<1> QED BY <1>1, Invariance, PTL

-----------------------------------------------------------------------------
(* One tab.  With a second one neither of the two properties holds: its    *)
(* ending asks for no lock and does not wait for the recorder of the first.*)

OneTab == \A p, q \in Pages : p = q

NobodyLive == \A r \in Recordings : ~Live(r)

(* A job is frozen, and the archive read for it, when nobody records any   *)
(* more; what was read is the archive as long as there is a job.           *)
FreezeInv ==
  /\ ~HasJob => job.expected = -1
  /\ job.expected >= 0 => NobodyLive /\ Present(archive) = 0 .. (job.expected - 1)
  /\ \A p \in Pages :
       /\ end[p].stage \in {"read", "freeze"} => NobodyLive
       /\ end[p].stage = "freeze" /\ HasJob => end[p].seen = archive /\ Contiguous(archive)

Used(r) == rec[r].state # "unused"

(* The last recorder that was started *)
Latest(r) == Used(r) /\ \A q \in Recordings : q > r => ~Used(q)

(* Recorders are started one after the other; the runtime is the last, and *)
(* so is one that is being stopped.                                        *)
OrderInv ==
  /\ \A r, q \in Recordings : q < r /\ Used(r) => Used(q)
  /\ \A p \in Pages : runtime[p] # 0 => Latest(runtime[p])

StoppingInv ==
  \A r \in Recordings :
    Live(r) /\ rec[r].stopping =>
      /\ Latest(r)
      /\ runtime[rec[r].page] = 0 /\ end[rec[r].page].stage = "stopping"

InChain(c, n) == \E i \in 1 .. Len(c.chain) : c.chain[i] = n

(* Every number the last recorder took is in the archive, or on its way    *)
(* there, unless a write has failed; under a clean checkpoint it has       *)
(* arrived.                                                                *)
TakenInv ==
  \A r \in Recordings :
    /\ rec[r].state = "recording" => ~rec[r].broken
    /\ Latest(r) /\ Live(r) /\ ~rec[r].broken =>
         \A n \in rec[r].first .. (rec[r].next - 1) : archive[n] = r \/ InChain(rec[r], n)

CleanInv ==
  checkpoint = "clean" =>
    \A r \in Recordings :
      Latest(r) => /\ ~Live(r)
                   /\ \A n \in rec[r].first .. (rec[r].next - 1) : archive[n] = r

(* What is said of the recorders, the runtimes and the checkpoint *)
RecordedInv == OrderInv /\ StoppingInv /\ TakenInv /\ CleanInv

TabInv == (failures = 0 => FreezeInv) /\ RecordedInv

LEMMA UsedIsNotUnused ==
  ASSUME UnusedInv, NEW r \in Recordings
  PROVE  Used(r) <=> rec[r] # Unused
<1>1. Unused.state = "unused"
  BY DEF Unused
<1>2. rec[r].state = "unused" => rec[r] = Unused
  BY DEF UnusedInv
<1> QED BY <1>1, <1>2 DEF Used

LEMMA LatestIsOne ==
  ASSUME NEW r \in Recordings, NEW q \in Recordings, Latest(r), Latest(q)
  PROVE  r = q
BY Bounds DEF Latest, Recordings

(* The recorder that a bounded set of them ends with *)
LEMMA LargestOf ==
  ASSUME NEW S \in SUBSET Recordings, S # {}
  PROVE  Max(S) \in S /\ \A q \in S : q <= Max(S)
<1> DEFINE D == {MaxRecordings - q : q \in S}
<1>1. D \in SUBSET Nat /\ D # {}
  <2>1. \A q \in S : MaxRecordings - q \in Nat
    BY Bounds DEF Recordings
  <2> QED BY <2>1
<1>2. Min(D) \in D
  BY <1>1, SmallestOf
<1>3. \A d \in D : Min(D) <= d
  BY <1>1, SmallestOf
<1>4. PICK m \in S : Min(D) = MaxRecordings - m
  BY <1>2
<1>5. \A q \in S : q <= m
  <2> SUFFICES ASSUME NEW q \in S PROVE q <= m
    OBVIOUS
  <2>1. MaxRecordings - q \in D
    OBVIOUS
  <2>2. MaxRecordings - m <= MaxRecordings - q
    BY <1>3, <1>4, <2>1
  <2> QED BY <2>2, Bounds DEF Recordings
<1> QED BY <1>4, <1>5 DEF Max

(* What is taken stays with the recorder through its helpers.              *)
LEMMA BlobTaken ==
  ASSUME NEW c \in RecRecords, c.next < MaxChunks
  PROVE  LET d == WithBlob(c)
         IN /\ d.first = c.first /\ d.broken = c.broken /\ d.stopping = c.stopping
            /\ \A n : InChain(c, n) => InChain(d, n)
            /\ InChain(d, c.next)
<1> DEFINE e == Append(c.chain, c.next)
           k == c.next + 1
<1>1. c.next \in SeqNos /\ k \in 0 .. MaxChunks /\ c.chain \in Seq(SeqNos)
  BY Bounds DEF RecRecords, SeqNos
<1>2. /\ e \in Seq(SeqNos) /\ Len(e) = Len(c.chain) + 1 /\ Len(c.chain) \in Nat
      /\ e[Len(c.chain) + 1] = c.next
      /\ \A i \in 1 .. Len(c.chain) : e[i] = c.chain[i]
  BY <1>1
<1>3. WithBlob(c) = [c EXCEPT !.next = k, !.chain = e]
  BY DEF WithBlob
<1> HIDE DEF e, k
<1>4. LET d == [c EXCEPT !.next = k, !.chain = e]
      IN d.first = c.first /\ d.broken = c.broken /\ d.stopping = c.stopping /\ d.chain = e
  BY <1>1, <1>2 DEF RecRecords
<1> DEFINE d == WithBlob(c)
<1>5. /\ d.first = c.first /\ d.broken = c.broken /\ d.stopping = c.stopping /\ d.chain = e
  BY <1>3, <1>4
<1> HIDE DEF d
<1>6. \A n : InChain(c, n) => InChain(d, n)
  BY <1>2, <1>5 DEF InChain
<1>7. InChain(d, c.next)
  <2>1. Len(c.chain) + 1 \in 1 .. Len(e)
    BY <1>2
  <2> QED BY <1>2, <1>5, <2>1 DEF InChain
<1> QED BY <1>5, <1>6, <1>7 DEF d

LEMMA WrittenTaken ==
  ASSUME NEW c \in RecRecords, c.chain # <<>>
  PROVE  LET d == Written(c)
         IN /\ d.first = c.first /\ d.broken = c.broken /\ d.stopping = c.stopping
            /\ \A n : InChain(c, n) => n = Head(c.chain) \/ InChain(d, n)
<1> DEFINE e == Tail(c.chain)
<1>1. c.chain \in Seq(SeqNos)
  BY DEF RecRecords
<1>2. /\ e \in Seq(SeqNos) /\ Len(e) = Len(c.chain) - 1 /\ Len(c.chain) \in Nat
      /\ \A i \in 1 .. Len(e) : e[i] = c.chain[i + 1]
      /\ Head(c.chain) = c.chain[1]
  BY <1>1
<1>3. Written(c) = [c EXCEPT !.chain = e]
  BY DEF Written
<1> HIDE DEF e
<1>4. LET d == [c EXCEPT !.chain = e]
      IN d.first = c.first /\ d.broken = c.broken /\ d.stopping = c.stopping /\ d.chain = e
  BY <1>1, <1>2 DEF RecRecords
<1> DEFINE d == Written(c)
<1>5. /\ d.first = c.first /\ d.broken = c.broken /\ d.stopping = c.stopping /\ d.chain = e
  BY <1>3, <1>4
<1> HIDE DEF d
<1>6. ASSUME NEW n, InChain(c, n), n # Head(c.chain) PROVE InChain(d, n)
  <2>1. PICK i \in 1 .. Len(c.chain) : c.chain[i] = n
    BY <1>6 DEF InChain
  <2>2. i # 1
    BY <1>2, <1>6, <2>1
  <2>3. i - 1 \in 1 .. Len(e) /\ (i - 1) + 1 = i
    BY <1>2, <2>1, <2>2
  <2>4. e[i - 1] = n
    BY <1>2, <2>1, <2>3
  <2> QED BY <1>5, <2>3, <2>4 DEF InChain
<1> QED BY <1>5, <1>6 DEF d

LEMMA FailingTaken ==
  ASSUME NEW c \in RecRecords
  PROVE  LET d == Failing(c)
         IN /\ d.first = c.first /\ d.broken = c.broken /\ d.stopping = c.stopping
            /\ \A n : InChain(c, n) <=> InChain(d, n)
<1> DEFINE d == Failing(c)
<1>1. d.first = c.first /\ d.broken = c.broken /\ d.stopping = c.stopping /\ d.chain = c.chain
  BY DEF Failing, RecRecords
<1> HIDE DEF d
<1>2. \A n : InChain(c, n) <=> InChain(d, n)
  BY <1>1 DEF InChain
<1> QED BY <1>1, <1>2 DEF d

(* An ending that reads or freezes has done so before. *)
ReadsStay ==
  \A p \in Pages : end'[p].stage \in {"read", "freeze"} => end'[p] = end[p]

(* A step that leaves the recorders and the archive alone *)
AsideStep ==
  /\ UNCHANGED <<archive, rec, checkpoint, failures>>
  /\ job'.expected = job.expected /\ (HasJob' <=> HasJob)
  /\ \A p \in Pages : runtime'[p] \in {0, runtime[p]}
  /\ \A p \in Pages : end[p].stage = "stopping" => end'[p].stage = "stopping"
  /\ ReadsStay

LEMMA RecordedStays ==
  ASSUME Inv, RecordedInv, UNCHANGED <<archive, rec, checkpoint>>,
         \A p \in Pages : runtime'[p] \in {0, runtime[p]},
         \A p \in Pages : end[p].stage = "stopping" => end'[p].stage = "stopping"
  PROVE  RecordedInv'
<1>1. \A r \in Recordings : (Used(r)' <=> Used(r)) /\ (Latest(r)' <=> Latest(r))
                            /\ (Live(r)' <=> Live(r))
  BY DEF Latest, Used, Live
<1>2. OrderInv'
  <2>1. \A p \in Pages : (runtime[p] # 0 => Latest(runtime[p]))'
    <3> SUFFICES ASSUME NEW p \in Pages, runtime'[p] # 0 PROVE Latest(runtime[p])'
      OBVIOUS
    <3>1. runtime'[p] = runtime[p]
      OBVIOUS
    <3>2. PICK r \in Recordings : r = runtime[p] /\ Latest(r)
      BY <3>1, Bounds DEF RecordedInv, OrderInv, Inv, TypeOK, Recordings
    <3> QED BY <1>1, <3>1, <3>2
  <2> QED BY <1>1, <2>1 DEF RecordedInv, OrderInv
<1>3. StoppingInv'
  <2> SUFFICES ASSUME NEW r \in Recordings, Live(r)', rec[r].stopping
               PROVE  /\ Latest(r)'
                      /\ runtime'[rec[r].page] = 0 /\ end'[rec[r].page].stage = "stopping"
    BY DEF StoppingInv
  <2>1. Live(r) /\ rec[r].page \in Pages
    BY <1>1, UsedFacts DEF Inv, Live
  <2>2. Latest(r) /\ runtime[rec[r].page] = 0 /\ end[rec[r].page].stage = "stopping"
    BY <2>1 DEF RecordedInv, StoppingInv
  <2> QED BY <1>1, <2>1, <2>2
<1>4. TakenInv' /\ CleanInv'
  BY <1>1 DEF RecordedInv, TakenInv, CleanInv, InChain
<1> QED BY <1>2, <1>3, <1>4 DEF RecordedInv

LEMMA AsideKeeps ==
  ASSUME Inv, TabInv, AsideStep
  PROVE  TabInv'
<1>1. /\ archive' = archive /\ rec' = rec /\ failures' = failures
      /\ job'.expected = job.expected /\ (HasJob' <=> HasJob)
      /\ \A p \in Pages : end'[p].stage \in {"read", "freeze"} => end'[p] = end[p]
  BY DEF AsideStep, ReadsStay
<1>2. ASSUME failures' = 0 PROVE FreezeInv'
  <2>1. FreezeInv
    BY <1>1, <1>2 DEF TabInv
  <2>2. NobodyLive' <=> NobodyLive
    BY <1>1 DEF NobodyLive, Live
  <2>3. Present(archive') = Present(archive) /\ (Contiguous(archive') <=> Contiguous(archive))
    BY <1>1
  <2>4. ~HasJob' => job'.expected = -1
    BY <1>1, <2>1 DEF FreezeInv
  <2>5. job'.expected >= 0 => NobodyLive' /\ Present(archive') = 0 .. (job'.expected - 1)
    BY <1>1, <2>1, <2>2, <2>3 DEF FreezeInv
  <2>6. \A p \in Pages :
          /\ end'[p].stage \in {"read", "freeze"} => NobodyLive'
          /\ end'[p].stage = "freeze" /\ HasJob' => end'[p].seen = archive' /\ Contiguous(archive')
    BY <1>1, <2>1, <2>2, <2>3 DEF FreezeInv
  <2> QED BY <2>4, <2>5, <2>6 DEF FreezeInv
<1>3. RecordedInv'
  BY RecordedStays DEF AsideStep, TabInv
<1> QED BY <1>2, <1>3 DEF TabInv

-----------------------------------------------------------------------------
(* Steps that leave the recorders alone                                    *)

LEMMA EndMovesAside ==
  ASSUME TypeOK, NEW p \in Pages, end[p].stage \notin {"idle", "stopping", "interrupting"},
         \/ end' = EndStops(p)
         \/ \E s \in EndStages \ {"read", "freeze"} : end' = EndAt(p, s)
  PROVE  ReadsStay /\ EndStays
<1>1. EndStays
  BY EndMoves
<1>2. \A q \in Pages : q # p => end'[q] = end[q]
  BY DEF EndStops, EndAt, TypeOK
<1>3. end'[p].stage \notin {"read", "freeze"}
  <2>1. CASE end' = EndStops(p)
    BY <2>1, EndTypes, EndPut
  <2>2. ASSUME NEW s \in EndStages \ {"read", "freeze"}, end' = EndAt(p, s)
        PROVE  end'[p].stage = s
    <3> DEFINE e == [end[p] EXCEPT !.stage = s]
    <3>1. e \in EndRecords /\ e.stage = s /\ end' = [end EXCEPT ![p] = e]
      BY <2>2, EndTypes
    <3> HIDE DEF e
    <3> QED BY <3>1, EndPut
  <2> QED BY <2>1, <2>2
<1> QED BY <1>1, <1>2, <1>3 DEF ReadsStay

LEMMA FlushedAside ==
  ASSUME TypeOK, NEW p \in Pages, NEW ok \in BOOLEAN, end' = Flushed(p, ok)
  PROVE  ReadsStay /\ EndStays
<1>1. CASE end[p].stage \in {"flushing", "draining"}
  <2>1. end' = EndStops(p) \/ \E s \in EndStages \ {"read", "freeze"} : end' = EndAt(p, s)
    BY <1>1 DEF Flushed, EndStages
  <2> QED BY <1>1, <2>1, EndMovesAside
<1>2. CASE end[p].stage \notin {"flushing", "draining"}
  <2>1. end' = end
    BY <1>2 DEF Flushed
  <2> QED BY <2>1 DEF EndStays, ReadsStay
<1> QED BY <1>1, <1>2

(* A change of the job that keeps what was frozen *)
JobStays == job'.expected = job.expected /\ (HasJob' <=> HasJob)

LEMMA JobAside ==
  ASSUME TypeOK, JobInv,
         \/ job' = job \/ job' = [job EXCEPT !.stopped = FALSE]
         \/ /\ HasJob \/ job.stopped
            /\ \E s \in {"uploading", "failed", "completing", "complete"} :
                 job' = [job EXCEPT !.status = s]
  PROVE  JobStays
<1>1. job \in JobRecords
  BY DEF TypeOK
<1>2. CASE job' = job
  BY <1>2 DEF JobStays, HasJob
<1>3. CASE job' = [job EXCEPT !.stopped = FALSE]
  BY <1>1, <1>3 DEF JobStays, HasJob, JobRecords
<1>4. ASSUME HasJob, NEW s \in {"uploading", "failed", "completing", "complete"},
             job' = [job EXCEPT !.status = s]
      PROVE  JobStays
  BY <1>1, <1>4 DEF JobStays, HasJob, JobRecords
<1>5. job.stopped => HasJob
  BY DEF JobInv
<1> QED BY <1>2, <1>3, <1>4, <1>5

(* An ending that talks to the server or waits for a delivery *)
LEMMA EndingAside ==
  ASSUME Inv, NEW p \in Pages,
         \/ SubmitEnd(p) \/ RequestLost(p) \/ CheckJob(p) \/ CompleteEnd(p) \/ ConfirmEnd(p)
         \/ FlushWithoutJob(p)
  PROVE  AsideStep
<1> USE DEF Inv
<1>1. UNCHANGED <<archive, rec, checkpoint, failures, runtime>>
  BY DEF SubmitEnd, RequestLost, CheckJob, CompleteEnd, ConfirmEnd, FlushWithoutJob, storeVars,
         boundVars
<1>2. end[p].stage \notin {"idle", "stopping", "interrupting"}
  BY DEF SubmitEnd, RequestLost, CheckJob, CompleteEnd, ConfirmEnd, FlushWithoutJob
<1>3. \/ end' = EndStops(p)
      \/ \E s \in EndStages \ {"read", "freeze"} : end' = EndAt(p, s)
  BY DEF SubmitEnd, RequestLost, CheckJob, CompleteEnd, ConfirmEnd, FlushWithoutJob, Answer,
         EndStages
<1>4. ReadsStay /\ EndStays
  BY <1>2, <1>3, EndMovesAside
<1>5. JobStays
  <2>1. \/ job' = job
        \/ (HasJob \/ job.stopped) /\ \E s \in {"uploading", "failed", "completing", "complete"} :
                                         job' = [job EXCEPT !.status = s]
    BY DEF SubmitEnd, RequestLost, CheckJob, CompleteEnd, ConfirmEnd, FlushWithoutJob, storeVars,
           FrozenMatches
  <2> QED BY <2>1, JobAside DEF DeliveryInv
<1> QED BY <1>1, <1>4, <1>5 DEF AsideStep, JobStays, EndStays

(* A delivery *)
LEMMA RunAside ==
  ASSUME Inv, NEW p \in Pages,
         AssignId(p) \/ Send(p) \/ Acknowledge(p) \/ RecordFailure(p) \/ GiveUp(p)
  PROVE  AsideStep
<1> USE DEF Inv
<1>1. UNCHANGED <<archive, rec, checkpoint, failures, runtime>>
  BY DEF AssignId, Send, Acknowledge, RecordFailure, GiveUp, storeVars, boundVars
<1>2. end' = end \/ \E ok \in BOOLEAN : end' = Flushed(p, ok)
  BY DEF AssignId, Send, Acknowledge, RecordFailure, GiveUp, RunEnds
<1>3. ReadsStay /\ EndStays
  <2>1. CASE end' = end
    BY <2>1 DEF ReadsStay, EndStays
  <2>2. ASSUME NEW ok \in BOOLEAN, end' = Flushed(p, ok) PROVE ReadsStay /\ EndStays
    BY <2>2, FlushedAside
  <2> QED BY <1>2, <2>1, <2>2
<1>4. JobStays
  <2>1. \/ job' = job
        \/ (HasJob \/ job.stopped) /\ \E s \in {"uploading", "failed", "completing", "complete"} :
                                         job' = [job EXCEPT !.status = s]
    BY DEF AssignId, Send, Acknowledge, RecordFailure, GiveUp, storeVars
  <2> QED BY <2>1, JobAside DEF DeliveryInv
<1> QED BY <1>1, <1>3, <1>4 DEF AsideStep, JobStays, EndStays

LEMMA StartRunAside ==
  ASSUME Inv, NEW p \in Pages, StartRun(p)
  PROVE  AsideStep
<1> USE DEF Inv
<1>1. UNCHANGED <<archive, rec, checkpoint, failures, runtime, job>>
  BY DEF StartRun, storeVars, boundVars
<1>2. ReadsStay /\ EndStays
  <2>1. CASE end[p].stage \in {"flush", "drain"}
    <3>1. \/ end' = EndStops(p)
          \/ \E s \in EndStages \ {"read", "freeze"} : end' = EndAt(p, s)
      BY <2>1 DEF StartRun, Waits, EndStages
    <3> QED BY <2>1, <3>1, EndMovesAside
  <2>2. CASE end[p].stage = "idle" /\ pending # {} /\ pump[p] = IdlePump
    <3>1. end' = EndAt(p, "idle")
      BY <2>2 DEF StartRun, Waits
    <3>2. \A q \in Pages : end'[q].stage = end[q].stage
      BY <2>2, <3>1 DEF EndAt, TypeOK, EndRecords
    <3>3. \A q \in Pages : q # p => end'[q] = end[q]
      BY <3>1 DEF EndAt, TypeOK
    <3> QED BY <2>2, <3>2, <3>3 DEF ReadsStay, EndStays
  <2> QED BY <2>1, <2>2 DEF StartRun
<1> QED BY <1>1, <1>2 DEF AsideStep, EndStays, HasJob

(* What the page, the server and the deletion do besides *)
LEMMA OtherAside ==
  ASSUME Inv,
         \/ \E p \in Pages : DropRuntime(p) \/ Recover(p)
         \/ \E u \in wire : Upload(u)
         \/ BeginDelete \/ VerifyDelete \/ UNCHANGED vars
  PROVE  AsideStep
<1> USE DEF Inv
<1>1. UNCHANGED <<archive, rec, checkpoint, failures, end>>
  BY DEF DropRuntime, Recover, Upload, BeginDelete, VerifyDelete, vars, storeVars, pageVars,
         boundVars
<1>2. \A p \in Pages : runtime'[p] \in {0, runtime[p]}
  BY DEF DropRuntime, Recover, Upload, BeginDelete, VerifyDelete, vars, pageVars, TypeOK
<1>3. job' = job \/ job' = [job EXCEPT !.stopped = FALSE]
  BY DEF DropRuntime, Recover, Upload, BeginDelete, VerifyDelete, vars, storeVars
<1>4. JobStays
  BY <1>3, JobAside DEF DeliveryInv
<1> QED BY <1>1, <1>2, <1>4 DEF AsideStep, JobStays, ReadsStay

-----------------------------------------------------------------------------
(* Steps of one recorder                                                   *)

(* One recorder changes; it was used before, and is live only if it was.   *)
RecorderStep(r, c) ==
  /\ c \in RecRecords /\ rec' = [rec EXCEPT ![r] = c]
  /\ Used(r) /\ c.state # "unused" /\ c.page = rec[r].page
  /\ c.state \in {"recording", "tail", "closed"} => Live(r)
  /\ c.state = "recording" => ~c.broken
  /\ c.first = rec[r].first

LEMMA RecorderStepFacts ==
  ASSUME TypeOK, NEW r \in Recordings, NEW c, RecorderStep(r, c)
  PROVE  /\ rec'[r] = c /\ \A q \in Recordings : q # r => rec'[q] = rec[q]
         /\ \A q \in Recordings :
              /\ Used(q)' <=> Used(q)
              /\ Latest(q)' <=> Latest(q)
              /\ Live(q)' => Live(q)
<1>1. rec'[r] = c /\ \A q \in Recordings : q # r => rec'[q] = rec[q]
  BY RecPut DEF RecorderStep
<1>2. \A q \in Recordings : (Used(q)' <=> Used(q)) /\ (Live(q)' => Live(q))
  BY <1>1 DEF RecorderStep, Used, Live
<1>3. \A q \in Recordings : Latest(q)' <=> Latest(q)
  BY <1>2 DEF Latest
<1> QED BY <1>1, <1>2, <1>3

(* While no capture fails, a live recorder means that nothing is frozen.   *)
LEMMA LiveFreeze ==
  ASSUME FreezeInv, NEW r \in Recordings, Live(r), job' = job, ReadsStay
  PROVE  FreezeInv'
<1>1. ~NobodyLive
  BY DEF NobodyLive
<1>2. ~(job.expected >= 0) /\ \A p \in Pages : end[p].stage \notin {"read", "freeze"}
  BY <1>1 DEF FreezeInv
<1>3. \A p \in Pages : end'[p].stage \notin {"read", "freeze"}
  BY <1>2 DEF ReadsStay
<1> QED BY <1>2, <1>3 DEF FreezeInv, HasJob

(* Its numbers stay in the archive or under way. *)
LEMMA TakenStep ==
  ASSUME Inv, TabInv, NEW r \in Recordings, NEW c, RecorderStep(r, c),
         \A p \in Pages : runtime'[p] \in {0, runtime[p]},
         \A n \in SeqNos : archive[n] # 0 => archive'[n] = archive[n],
         Latest(r) /\ ~c.broken /\ c.state \in {"recording", "tail", "closed"} =>
           \A n \in c.first .. (c.next - 1) : archive'[n] = r \/ InChain(c, n)
  PROVE  OrderInv' /\ TakenInv'
<1> USE DEF Inv
<1>1. /\ rec'[r] = c /\ \A q \in Recordings : q # r => rec'[q] = rec[q]
      /\ \A q \in Recordings :
           (Used(q)' <=> Used(q)) /\ (Latest(q)' <=> Latest(q)) /\ (Live(q)' => Live(q))
  BY RecorderStepFacts
<1>2. OrderInv'
  <2>1. \A p \in Pages : (runtime[p] # 0 => Latest(runtime[p]))'
    <3> SUFFICES ASSUME NEW p \in Pages, runtime'[p] # 0 PROVE Latest(runtime[p])'
      OBVIOUS
    <3>1. runtime'[p] = runtime[p]
      OBVIOUS
    <3>2. PICK q \in Recordings : q = runtime[p] /\ Latest(q)
      BY <3>1, Bounds DEF TabInv, RecordedInv, OrderInv, TypeOK, Recordings
    <3> QED BY <1>1, <3>1, <3>2
  <2> QED BY <1>1, <2>1 DEF TabInv, RecordedInv, OrderInv
<1>3. ASSUME NEW q \in Recordings
      PROVE  /\ rec'[q].state = "recording" => ~rec'[q].broken
             /\ Latest(q)' /\ Live(q)' /\ ~rec'[q].broken =>
                  \A n \in rec'[q].first .. (rec'[q].next - 1) :
                    archive'[n] = q \/ InChain(rec'[q], n)
  <2>1. CASE q = r
    BY <1>1, <2>1 DEF RecorderStep, Live
  <2>2. CASE q # r
    <3>1. rec'[q] = rec[q]
      BY <1>1, <2>2
    <3>2. rec[q] \in RecRecords
      BY DEF TypeOK
    <3>3. \A n \in rec[q].first .. (rec[q].next - 1) : n \in SeqNos
      BY <3>2, Bounds DEF RecRecords, SeqNos
    <3>4. q # 0
      BY DEF Recordings
    <3> QED BY <1>1, <3>1, <3>3, <3>4 DEF TabInv, RecordedInv, TakenInv
  <2> QED BY <2>1, <2>2
<1>4. TakenInv'
  BY <1>3 DEF TakenInv, InChain
<1> QED BY <1>2, <1>4

(* Under a clean checkpoint the last recorder takes no more. *)
LEMMA CleanStep ==
  ASSUME Inv, TabInv, NEW r \in Recordings, NEW c, RecorderStep(r, c),
         \A n \in SeqNos : archive[n] # 0 => archive'[n] = archive[n],
         Live(r) \/ c.next = rec[r].next, checkpoint' = checkpoint
  PROVE  CleanInv'
<1> USE DEF Inv
<1>1. /\ rec'[r] = c /\ \A q \in Recordings : q # r => rec'[q] = rec[q]
      /\ \A q \in Recordings : (Latest(q)' <=> Latest(q)) /\ (Live(q)' => Live(q))
  BY RecorderStepFacts
<1> SUFFICES ASSUME checkpoint = "clean", NEW q \in Recordings, Latest(q)'
             PROVE  /\ ~Live(q)'
                    /\ \A n \in rec'[q].first .. (rec'[q].next - 1) : archive'[n] = q
  BY DEF CleanInv
<1>2. /\ ~Live(q) /\ \A n \in rec[q].first .. (rec[q].next - 1) : archive[n] = q
  BY <1>1 DEF TabInv, RecordedInv, CleanInv
<1>3. rec[q] \in RecRecords /\ q # 0
  BY DEF TypeOK, Recordings
<1>4. \A n \in rec[q].first .. (rec[q].next - 1) : n \in SeqNos
  BY <1>3, Bounds DEF RecRecords, SeqNos
<1>5. rec'[q].first = rec[q].first /\ rec'[q].next = rec[q].next
  BY <1>1, <1>2 DEF RecorderStep
<1> QED BY <1>1, <1>2, <1>3, <1>4, <1>5

(* The endings are left alone, and so is what stops. *)
LEMMA StoppingStep ==
  ASSUME Inv, TabInv, NEW r \in Recordings, NEW c, RecorderStep(r, c),
         c.stopping = rec[r].stopping,
         \A p \in Pages : runtime'[p] \in {0, runtime[p]},
         \A p \in Pages : end[p].stage = "stopping" => end'[p].stage = "stopping"
  PROVE  StoppingInv'
<1> USE DEF Inv
<1>1. /\ rec'[r] = c /\ \A q \in Recordings : q # r => rec'[q] = rec[q]
      /\ \A q \in Recordings : (Latest(q)' <=> Latest(q)) /\ (Live(q)' => Live(q))
  BY RecorderStepFacts
<1> SUFFICES ASSUME NEW q \in Recordings, Live(q)', rec'[q].stopping
             PROVE  /\ Latest(q)'
                    /\ runtime'[rec'[q].page] = 0 /\ end'[rec'[q].page].stage = "stopping"
  BY DEF StoppingInv
<1>2. Live(q) /\ rec[q].stopping /\ rec'[q].page = rec[q].page
  BY <1>1 DEF RecorderStep
<1>3. rec[q].page \in Pages
  BY <1>2, UsedFacts DEF Live
<1>4. Latest(q) /\ runtime[rec[q].page] = 0 /\ end[rec[q].page].stage = "stopping"
  BY <1>2 DEF TabInv, RecordedInv, StoppingInv
<1> QED BY <1>1, <1>2, <1>3, <1>4

LEMMA RecorderTab ==
  ASSUME Inv, TabInv, NEW r \in Recordings, NEW c, RecorderStep(r, c),
         c.stopping = rec[r].stopping, UNCHANGED <<job, checkpoint>>,
         \A p \in Pages : runtime'[p] \in {0, runtime[p]},
         \A p \in Pages : end[p].stage = "stopping" => end'[p].stage = "stopping",
         ReadsStay,
         \A n \in SeqNos : archive[n] # 0 => archive'[n] = archive[n],
         Latest(r) /\ ~c.broken /\ c.state \in {"recording", "tail", "closed"} =>
           \A n \in c.first .. (c.next - 1) : archive'[n] = r \/ InChain(c, n),
         Live(r) \/ c.next = rec[r].next,
         failures' = 0 => failures = 0 /\ Live(r)
  PROVE  TabInv'
<1>1. OrderInv' /\ TakenInv'
  BY TakenStep
<1>2. CleanInv'
  BY CleanStep
<1>3. StoppingInv'
  BY StoppingStep
<1>4. failures' = 0 => FreezeInv'
  BY LiveFreeze DEF TabInv
<1> QED BY <1>1, <1>2, <1>3, <1>4 DEF TabInv, RecordedInv

LEMMA AcceptTab ==
  ASSUME Inv, TabInv, NEW r \in Recordings, Accept(r)
  PROVE  TabInv'
<1> DEFINE c == WithBlob(rec[r])
<1>1. /\ rec[r].state = "recording" /\ rec[r].next < MaxChunks /\ rec' = [rec EXCEPT ![r] = c]
      /\ UNCHANGED <<archive, job, checkpoint, runtime, end, failures>>
  BY DEF Accept, storeVars, boundVars
<1>2. rec[r] \in RecRecords /\ Live(r) /\ Used(r)
  BY <1>1 DEF Inv, TypeOK, Live, Used
<1>3. /\ c \in RecRecords /\ c.next = rec[r].next + 1
      /\ c.state = rec[r].state /\ c.page = rec[r].page
      /\ c.first = rec[r].first /\ c.broken = rec[r].broken /\ c.stopping = rec[r].stopping
      /\ \A n : InChain(rec[r], n) => InChain(c, n)
      /\ InChain(c, rec[r].next)
  BY <1>1, <1>2, WithBlobFacts, BlobTaken
<1> HIDE DEF c
<1>4. ~rec[r].broken
  BY <1>1 DEF TabInv, RecordedInv, TakenInv
<1>5. RecorderStep(r, c)
  BY <1>1, <1>2, <1>3, <1>4 DEF RecorderStep
<1>6. Latest(r) => \A n \in c.first .. (c.next - 1) : archive'[n] = r \/ InChain(c, n)
  <2> SUFFICES ASSUME Latest(r), NEW n \in c.first .. (c.next - 1)
               PROVE  archive[n] = r \/ InChain(c, n)
    BY <1>1
  <2>1. rec[r].first \in Int /\ rec[r].next \in Int
    BY <1>2 DEF RecRecords
  <2>2. n = rec[r].next \/ n \in rec[r].first .. (rec[r].next - 1)
    BY <1>3, <2>1
  <2>3. \A m \in rec[r].first .. (rec[r].next - 1) : archive[m] = r \/ InChain(rec[r], m)
    BY <1>2, <1>4 DEF TabInv, RecordedInv, TakenInv
  <2> QED BY <1>3, <2>2, <2>3
<1> QED BY <1>1, <1>2, <1>3, <1>5, <1>6, RecorderTab DEF ReadsStay

LEMMA LastBlobTab ==
  ASSUME Inv, TabInv, NEW r \in Recordings, LastBlob(r)
  PROVE  TabInv'
<1> DEFINE more == WithBlob(rec[r])
<1>1. /\ rec[r].state = "tail"
      /\ UNCHANGED <<archive, job, checkpoint, runtime, end, failures>>
  BY DEF LastBlob, storeVars, boundVars
<1>2. rec[r] \in RecRecords /\ Live(r) /\ Used(r)
  BY <1>1 DEF Inv, TypeOK, Live, Used
<1>3. PICK d : /\ d = rec[r] \/ (rec[r].next < MaxChunks /\ d = more)
               /\ rec' = [rec EXCEPT ![r] = [d EXCEPT !.state = "closed"]]
  BY DEF LastBlob
<1>4. rec[r].next < MaxChunks =>
        /\ more \in RecRecords /\ more.next = rec[r].next + 1
        /\ more.page = rec[r].page
        /\ more.first = rec[r].first /\ more.broken = rec[r].broken
        /\ more.stopping = rec[r].stopping
        /\ \A n : InChain(rec[r], n) => InChain(more, n)
        /\ InChain(more, rec[r].next)
  BY <1>2, WithBlobFacts, BlobTaken
<1> HIDE DEF more
<1>5. /\ d \in RecRecords /\ d.page = rec[r].page
      /\ d.first = rec[r].first /\ d.broken = rec[r].broken /\ d.stopping = rec[r].stopping
      /\ \A n : InChain(rec[r], n) => InChain(d, n)
      /\ d.next = rec[r].next \/ (d.next = rec[r].next + 1 /\ InChain(d, rec[r].next))
  BY <1>2, <1>3, <1>4
<1> DEFINE c == [d EXCEPT !.state = "closed"]
<1>6. /\ c \in RecRecords /\ c.state = "closed" /\ c.page = d.page /\ c.next = d.next
      /\ c.first = d.first /\ c.broken = d.broken /\ c.stopping = d.stopping
      /\ c.chain = d.chain
  BY <1>5 DEF RecRecords
<1>7. rec' = [rec EXCEPT ![r] = c]
  BY <1>3
<1> HIDE DEF c
<1>8. RecorderStep(r, c)
  BY <1>2, <1>5, <1>6, <1>7 DEF RecorderStep
<1>9. ASSUME Latest(r), ~c.broken
      PROVE  \A n \in c.first .. (c.next - 1) : archive'[n] = r \/ InChain(c, n)
  <2> SUFFICES ASSUME NEW n \in c.first .. (c.next - 1)
               PROVE  archive[n] = r \/ InChain(d, n)
    BY <1>1, <1>6 DEF InChain
  <2>1. rec[r].first \in Int /\ rec[r].next \in Int
    BY <1>2 DEF RecRecords
  <2>2. (n = rec[r].next /\ InChain(d, n)) \/ n \in rec[r].first .. (rec[r].next - 1)
    BY <1>5, <1>6, <2>1
  <2>3. \A m \in rec[r].first .. (rec[r].next - 1) : archive[m] = r \/ InChain(rec[r], m)
    BY <1>2, <1>5, <1>6, <1>9 DEF TabInv, RecordedInv, TakenInv
  <2> QED BY <1>5, <2>2, <2>3
<1> QED BY <1>1, <1>2, <1>5, <1>6, <1>8, <1>9, RecorderTab DEF ReadsStay

LEMMA PersistTab ==
  ASSUME Inv, TabInv, NEW r \in Recordings, Persist(r)
  PROVE  TabInv'
<1> USE DEF Inv
<1> DEFINE n == Head(rec[r].chain)
           c == Written(rec[r])
           b == [c EXCEPT !.broken = TRUE]
<1>1. /\ rec[r].chain # <<>>
      /\ UNCHANGED <<job, checkpoint, runtime, end, failures>>
  BY DEF Persist, boundVars
<1>2. /\ rec[r] \in RecRecords /\ Used(r) /\ rec[r].chain \in Seq(SeqNos)
  BY <1>1, UsedFacts DEF RecRecords, Used
<1>3. n \in SeqNos
  BY <1>1, <1>2
<1>4. /\ c \in RecRecords /\ c.next = rec[r].next
      /\ c.state = rec[r].state /\ c.page = rec[r].page
      /\ c.first = rec[r].first /\ c.broken = rec[r].broken /\ c.stopping = rec[r].stopping
      /\ \A k : InChain(rec[r], k) => k = n \/ InChain(c, k)
  BY <1>1, <1>2, WrittenFacts, WrittenTaken
<1>5. \/ /\ archive[n] = 0 /\ archive' = [archive EXCEPT ![n] = r]
         /\ rec' = [rec EXCEPT ![r] = c]
      \/ /\ archive' = archive /\ rec' = [rec EXCEPT ![r] = Failing(b)]
  BY DEF Persist
<1> HIDE DEF n, c
<1>6. failures' = 0 => failures = 0 /\ Live(r)
  BY <1>1 DEF CustodyInv, Custody, NumbersOK
<1>7. CASE /\ archive[n] = 0 /\ archive' = [archive EXCEPT ![n] = r]
           /\ rec' = [rec EXCEPT ![r] = c]
  <2>1. /\ archive'[n] = r
        /\ \A k \in SeqNos : k # n => archive'[k] = archive[k]
    BY <1>3, <1>7 DEF TypeOK, ChunkMap
  <2>2. rec[r].state = "recording" => ~rec[r].broken
    BY DEF TabInv, RecordedInv, TakenInv
  <2>3. RecorderStep(r, c)
    BY <1>2, <1>4, <1>7, <2>2 DEF RecorderStep, Live, Used
  <2>4. ASSUME Latest(r), ~c.broken, c.state \in {"recording", "tail", "closed"}
        PROVE  \A k \in c.first .. (c.next - 1) : archive'[k] = r \/ InChain(c, k)
    <3> SUFFICES ASSUME NEW k \in rec[r].first .. (rec[r].next - 1)
                 PROVE  archive'[k] = r \/ InChain(c, k)
      BY <1>4
    <3>1. archive[k] = r \/ InChain(rec[r], k)
      BY <1>4, <2>4 DEF TabInv, RecordedInv, TakenInv, Live
    <3>2. k \in SeqNos
      BY <1>2, Bounds DEF RecRecords, SeqNos
    <3> QED BY <1>4, <2>1, <3>1, <3>2
  <2> QED BY <1>1, <1>4, <1>6, <1>7, <2>1, <2>3, <2>4, RecorderTab DEF ReadsStay
<1>8. CASE archive' = archive /\ rec' = [rec EXCEPT ![r] = Failing(b)]
  <2>1. /\ b \in RecRecords /\ b.next = rec[r].next /\ b.state = rec[r].state
        /\ b.page = rec[r].page /\ b.first = rec[r].first /\ b.broken
        /\ b.stopping = rec[r].stopping
    BY <1>4 DEF RecRecords
  <2> HIDE DEF b
  <2> DEFINE f == Failing(b)
  <2>2. /\ f \in RecRecords /\ f.next = rec[r].next /\ f.state # "recording"
        /\ f.state = IF b.state = "recording" THEN "tail" ELSE b.state
        /\ f.page = rec[r].page /\ f.first = rec[r].first /\ f.broken
        /\ f.stopping = rec[r].stopping
    BY <2>1, FailingFacts, FailingTaken
  <2>3. rec' = [rec EXCEPT ![r] = f]
    BY <1>8
  <2> HIDE DEF f
  <2>4. RecorderStep(r, f)
    BY <1>2, <2>1, <2>2, <2>3 DEF RecorderStep, Live, Used
  <2> QED BY <1>1, <1>6, <1>8, <2>2, <2>4, RecorderTab DEF ReadsStay
<1> QED BY <1>5, <1>7, <1>8

LEMMA PersistFailsTab ==
  ASSUME Inv, TabInv, NEW r \in Recordings, PersistFails(r)
  PROVE  TabInv'
<1> USE DEF Inv
<1> DEFINE d == Written(rec[r])
           b == [d EXCEPT !.broken = TRUE]
           f == Failing(b)
<1>1. /\ rec[r].chain # <<>> /\ rec' = [rec EXCEPT ![r] = f] /\ failures' = failures + 1
      /\ UNCHANGED <<archive, job, checkpoint, runtime, end>>
  BY DEF PersistFails, storeVars
<1>2. rec[r] \in RecRecords /\ Used(r)
  BY <1>1, UsedFacts DEF Used
<1>3. /\ d \in RecRecords /\ d.next = rec[r].next
      /\ d.state = rec[r].state /\ d.page = rec[r].page
      /\ d.first = rec[r].first /\ d.stopping = rec[r].stopping
  BY <1>1, <1>2, WrittenFacts, WrittenTaken
<1> HIDE DEF d
<1>4. /\ b \in RecRecords /\ b.next = rec[r].next /\ b.state = rec[r].state
      /\ b.page = rec[r].page /\ b.first = rec[r].first /\ b.broken
      /\ b.stopping = rec[r].stopping
  BY <1>3 DEF RecRecords
<1> HIDE DEF b
<1>5. /\ f \in RecRecords /\ f.next = rec[r].next /\ f.state # "recording"
      /\ f.state = IF b.state = "recording" THEN "tail" ELSE b.state
      /\ f.page = rec[r].page /\ f.first = rec[r].first /\ f.broken
      /\ f.stopping = rec[r].stopping
  BY <1>4, FailingFacts, FailingTaken
<1> HIDE DEF f
<1>6. RecorderStep(r, f)
  BY <1>1, <1>2, <1>4, <1>5 DEF RecorderStep, Live, Used
<1>7. failures' # 0
  BY <1>1, Bounds DEF TypeOK
<1> QED BY <1>1, <1>5, <1>6, <1>7, RecorderTab DEF ReadsStay

LEMMA DeviceFailsTab ==
  ASSUME Inv, TabInv, NEW r \in Recordings, DeviceFails(r)
  PROVE  TabInv'
<1> USE DEF Inv
<1>1. /\ rec[r].state = "recording" /\ failures' = failures + 1
      /\ UNCHANGED <<archive, job, checkpoint, runtime, end>>
  BY DEF DeviceFails, storeVars
<1>2. PICK x \in BOOLEAN : rec' = [rec EXCEPT ![r] = Failing([rec[r] EXCEPT !.broken = x])]
  BY DEF DeviceFails
<1> DEFINE b == [rec[r] EXCEPT !.broken = x]
           f == Failing(b)
<1>3. rec[r] \in RecRecords /\ Live(r) /\ Used(r)
  BY <1>1 DEF TypeOK, Live, Used
<1>4. /\ b \in RecRecords /\ b.next = rec[r].next /\ b.state = rec[r].state
      /\ b.page = rec[r].page /\ b.first = rec[r].first /\ b.chain = rec[r].chain
      /\ b.stopping = rec[r].stopping
  BY <1>3 DEF RecRecords
<1>5. rec' = [rec EXCEPT ![r] = f]
  BY <1>2
<1> HIDE DEF b
<1>6. /\ f \in RecRecords /\ f.next = rec[r].next /\ f.state = "tail"
      /\ f.page = rec[r].page /\ f.first = rec[r].first
      /\ f.stopping = rec[r].stopping
      /\ \A n : InChain(b, n) => InChain(f, n)
  BY <1>1, <1>4, FailingFacts, FailingTaken
<1> HIDE DEF f
<1>7. RecorderStep(r, f)
  BY <1>3, <1>5, <1>6 DEF RecorderStep
<1>8. ASSUME Latest(r)
      PROVE  \A n \in f.first .. (f.next - 1) : archive'[n] = r \/ InChain(f, n)
  <2>1. ~rec[r].broken
    BY <1>1 DEF TabInv, RecordedInv, TakenInv
  <2>2. \A n \in rec[r].first .. (rec[r].next - 1) : archive[n] = r \/ InChain(rec[r], n)
    BY <1>3, <1>8, <2>1 DEF TabInv, RecordedInv, TakenInv
  <2>3. \A n : InChain(rec[r], n) => InChain(f, n)
    BY <1>4, <1>6 DEF InChain
  <2> QED BY <1>1, <1>6, <2>2, <2>3
<1>9. failures' # 0
  BY <1>1, Bounds DEF TypeOK
<1> QED BY <1>1, <1>3, <1>6, <1>7, <1>8, <1>9, RecorderTab DEF ReadsStay

LEMMA CloseTab ==
  ASSUME Inv, TabInv, NEW r \in Recordings, Close(r)
  PROVE  TabInv'
<1> USE DEF Inv
<1> DEFINE p == rec[r].page
           c == [rec[r] EXCEPT !.state = "done"]
<1>1. /\ rec[r].state = "closed" /\ rec[r].chain = <<>>
      /\ rec' = [rec EXCEPT ![r] = c]
      /\ UNCHANGED <<archive, job, runtime, failures>>
  BY DEF Close, boundVars
<1>2. checkpoint' = "clean" => rec[r].stopping /\ ~rec[r].broken
  BY DEF Close, ClosedCleanly
<1>3. \/ end' = end
      \/ end[p].stage = "stopping" /\ rec[r].stopping
         /\ (end' = EndStops(p) \/ end' = EndAt(p, "read"))
      \/ end[p].stage = "interrupting" /\ end' = EndAt(p, "drain")
  BY DEF Close, EndAt, EndStops
<1>4. rec[r] \in RecRecords /\ p \in Pages /\ Live(r) /\ Used(r)
  BY <1>1, UsedFacts DEF Live, Used
<1>5. /\ c \in RecRecords /\ c.state = "done" /\ c.page = p
      /\ c.next = rec[r].next /\ c.first = rec[r].first
  BY <1>4 DEF RecRecords
<1> HIDE DEF c
<1>6. RecorderStep(r, c)
  BY <1>1, <1>4, <1>5 DEF RecorderStep
<1>7. /\ rec'[r] = c /\ \A q \in Recordings : q # r => rec'[q] = rec[q]
      /\ \A q \in Recordings : (Latest(q)' <=> Latest(q)) /\ (Live(q)' => Live(q))
  BY <1>6, RecorderStepFacts
<1>8. ~Live(r)'
  BY <1>5, <1>7 DEF Live
<1>9. OrderInv' /\ TakenInv'
  <2>1. \A o \in Pages : runtime'[o] \in {0, runtime[o]}
    BY <1>1
  <2>2. \A n \in SeqNos : archive[n] # 0 => archive'[n] = archive[n]
    BY <1>1
  <2> QED BY <1>5, <1>6, <2>1, <2>2, TakenStep
<1>10. CleanInv'
  <2> SUFFICES ASSUME checkpoint' = "clean", NEW q \in Recordings, Latest(q)'
               PROVE  /\ ~Live(q)'
                      /\ \A n \in rec'[q].first .. (rec'[q].next - 1) : archive'[n] = q
    BY DEF CleanInv
  <2>1. Latest(r) /\ ~rec[r].broken
    BY <1>2, <1>4 DEF TabInv, RecordedInv, StoppingInv
  <2>2. q = r
    BY <1>7, <2>1, LatestIsOne
  <2>3. \A n \in rec[r].first .. (rec[r].next - 1) : archive[n] = r \/ InChain(rec[r], n)
    BY <1>4, <2>1 DEF TabInv, RecordedInv, TakenInv
  <2>4. \A n : ~InChain(rec[r], n)
    <3>1. Len(rec[r].chain) = 0
      BY <1>1
    <3> QED BY <3>1 DEF InChain
  <2> QED BY <1>1, <1>5, <1>7, <1>8, <2>2, <2>3, <2>4
<1>11. \A o \in Pages : o # p => end'[o] = end[o]
  BY <1>3 DEF EndStops, EndAt, TypeOK
<1>12. StoppingInv'
  <2> SUFFICES ASSUME NEW q \in Recordings, Live(q)', rec'[q].stopping
               PROVE  /\ Latest(q)'
                      /\ runtime'[rec'[q].page] = 0 /\ end'[rec'[q].page].stage = "stopping"
    BY DEF StoppingInv
  <2>1. q # r
    BY <1>8
  <2>2. Live(q) /\ rec'[q] = rec[q] /\ rec[q].stopping
    BY <1>7, <2>1
  <2>3. Latest(q) /\ runtime[rec[q].page] = 0 /\ end[rec[q].page].stage = "stopping"
    BY <2>2 DEF TabInv, RecordedInv, StoppingInv
  <2>4. rec[q].page \in Pages
    BY <2>2, UsedFacts DEF Live
  <2>5. rec[q].page = p => end' = end
    <3>1. rec[r].stopping => Latest(r)
      BY <1>4 DEF TabInv, RecordedInv, StoppingInv
    <3>2. ~rec[r].stopping
      BY <2>1, <2>3, <3>1, LatestIsOne
    <3> QED BY <1>3, <2>3, <3>2
  <2>6. end'[rec[q].page] = end[rec[q].page]
    BY <1>11, <2>4, <2>5
  <2> QED BY <1>1, <1>7, <2>2, <2>3, <2>6
<1>13. ASSUME failures' = 0 PROVE FreezeInv'
  <2>1. Custody /\ FreezeInv
    BY <1>1, <1>13 DEF CustodyInv, TabInv
  <2>2. \A q \in Recordings : q # r => ~Live(q)
    BY <1>4, <2>1 DEF Custody
  <2>3. NobodyLive'
    BY <1>7, <1>8, <2>2 DEF NobodyLive
  <2>4. ~NobodyLive
    BY <1>4 DEF NobodyLive
  <2>5. ~(job.expected >= 0) /\ \A o \in Pages : end[o].stage \notin {"read", "freeze"}
    BY <2>1, <2>4 DEF FreezeInv
  <2>6. end'[p].stage # "freeze"
    <3>1. CASE end' = end
      BY <1>4, <2>5, <3>1
    <3>2. CASE end' # end
      <4>1. end' = EndStops(p) \/ end' = EndAt(p, "read") \/ end' = EndAt(p, "drain")
        BY <1>3, <3>2
      <4> QED BY <1>4, <4>1, EndTypes DEF EndStops, EndAt, TypeOK, EndRecords
    <3> QED BY <3>1, <3>2
  <2>7. \A o \in Pages : end'[o].stage # "freeze"
    BY <1>11, <2>5, <2>6
  <2> QED BY <1>1, <2>1, <2>3, <2>5, <2>7 DEF FreezeInv, HasJob
<1> QED BY <1>9, <1>10, <1>12, <1>13 DEF TabInv, RecordedInv

-----------------------------------------------------------------------------
(* Steps of the page that records                                          *)

(* The stage of an ending that changes from or to a stage with no freeze   *)
LEMMA StageAside ==
  ASSUME TypeOK, NEW p \in Pages, NEW s \in EndStages, s \notin {"read", "freeze"},
         end[p].stage # "stopping", end' = EndAt(p, s)
  PROVE  /\ ReadsStay /\ end'[p].stage = s
         /\ \A q \in Pages : q # p => end'[q] = end[q]
         /\ \A q \in Pages : end[q].stage = "stopping" => end'[q].stage = "stopping"
<1> DEFINE e == [end[p] EXCEPT !.stage = s]
<1>1. e \in EndRecords /\ e.stage = s /\ end' = [end EXCEPT ![p] = e]
  BY EndTypes
<1> HIDE DEF e
<1>2. end'[p] = e /\ \A q \in Pages : q # p => end'[q] = end[q]
  BY <1>1, EndPut
<1> QED BY <1>1, <1>2 DEF ReadsStay

LEMMA VerifyTab ==
  ASSUME Inv, TabInv, NEW p \in Pages, Verify(p)
  PROVE  TabInv'
<1> USE DEF Inv
<1> DEFINE r == runtime[p]
           ending == rec[r].failing \/ rec[r].state = "done"
           d == [rec[r] EXCEPT !.interrupted = TRUE]
           f == Failing(d)
           s == IF ending THEN "drain" ELSE "interrupting"
<1>1. /\ r # 0 /\ end[p].stage = "idle"
      /\ runtime' = [runtime EXCEPT ![p] = 0]
      /\ end' = EndAt(p, s)
      /\ rec' = IF ending THEN rec ELSE [rec EXCEPT ![r] = f]
      /\ UNCHANGED <<archive, job, checkpoint, failures>>
  BY DEF Verify, EndAt, boundVars
<1>2. s \in EndStages \ {"read", "freeze"}
  BY DEF EndStages
<1>3. \A o \in Pages : runtime'[o] \in {0, runtime[o]}
  BY <1>1 DEF TypeOK
<1>4. ReadsStay /\ \A q \in Pages : end[q].stage = "stopping" => end'[q].stage = "stopping"
  BY <1>1, <1>2, StageAside
<1>5. CASE ending
  <2>1. rec' = rec
    BY <1>1, <1>5
  <2>2. AsideStep
    BY <1>1, <1>3, <1>4, <2>1 DEF AsideStep, HasJob
  <2> QED BY <2>2, AsideKeeps
<1>6. CASE ~ending
  <2>1. r \in Recordings /\ rec[r] \in RecRecords /\ Used(r)
    BY <1>1, Bounds DEF TypeOK, UnusedInv, Recordings, Unused, Used
  <2>2. Live(r)
    BY <1>6, <2>1 DEF Live, Used, RecRecords
  <2>3. rec[r].state = "recording" => ~rec[r].broken
    BY <2>1 DEF TabInv, RecordedInv, TakenInv
  <2>4. /\ d \in RecRecords /\ d.next = rec[r].next /\ d.state = rec[r].state
        /\ d.page = rec[r].page /\ d.first = rec[r].first /\ d.chain = rec[r].chain
        /\ d.stopping = rec[r].stopping /\ d.broken = rec[r].broken
    BY <2>1 DEF RecRecords
  <2> HIDE DEF d
  <2>5. /\ f \in RecRecords /\ f.next = rec[r].next /\ f.state # "recording"
        /\ f.state = IF d.state = "recording" THEN "tail" ELSE d.state
        /\ f.page = rec[r].page /\ f.first = rec[r].first
        /\ f.stopping = rec[r].stopping /\ f.broken = rec[r].broken
        /\ \A n : InChain(d, n) => InChain(f, n)
    BY <2>4, FailingFacts, FailingTaken
  <2>6. rec' = [rec EXCEPT ![r] = f]
    BY <1>1, <1>6
  <2> HIDE DEF f, r
  <2>7. RecorderStep(r, f)
    BY <2>1, <2>2, <2>4, <2>5, <2>6 DEF RecorderStep, Used
  <2>8. ASSUME Latest(r), ~f.broken
        PROVE  \A n \in f.first .. (f.next - 1) : archive'[n] = r \/ InChain(f, n)
    <3>1. \A n \in rec[r].first .. (rec[r].next - 1) : archive[n] = r \/ InChain(rec[r], n)
      BY <2>1, <2>2, <2>5, <2>8 DEF TabInv, RecordedInv, TakenInv
    <3>2. \A n : InChain(rec[r], n) => InChain(f, n)
      BY <2>4, <2>5 DEF InChain
    <3> QED BY <1>1, <2>5, <3>1, <3>2
  <2> QED BY <1>1, <1>3, <1>4, <2>1, <2>2, <2>5, <2>7, <2>8, RecorderTab
<1> QED BY <1>5, <1>6

LEMMA BeginEndTab ==
  ASSUME OneTab, Inv, TabInv, NEW p \in Pages, BeginEnd(p)
  PROVE  TabInv'
<1> USE DEF Inv
<1> DEFINE r == runtime[p]
           running == r # 0 /\ rec[r].state # "done"
           c == [rec[r] EXCEPT !.stopping = TRUE,
                               !.state = IF rec[r].state = "recording" THEN "tail" ELSE rec[r].state]
           s == IF running THEN "stopping" ELSE "read"
<1>1. /\ HasJob /\ end[p].stage = "idle"
      /\ runtime' = [runtime EXCEPT ![p] = 0]
      /\ end' = EndAt(p, s)
      /\ UNCHANGED <<archive, job, checkpoint, failures>>
  BY DEF BeginEnd, EndAt, boundVars
<1>2. rec' = IF running THEN [rec EXCEPT ![r] = c] ELSE rec
  BY DEF BeginEnd
<1>3. (\A o \in Pages : runtime'[o] \in {0, runtime[o]}) /\ runtime'[p] = 0
  BY <1>1 DEF TypeOK
<1>4. CASE running
  <2>1. r \in Recordings /\ rec[r] \in RecRecords /\ Used(r) /\ rec[r].page = p /\ Latest(r)
    BY <1>4, Bounds DEF TypeOK, UnusedInv, Recordings, Unused, Used, TabInv, RecordedInv, OrderInv
  <2>2. Live(r)
    BY <1>4, <2>1 DEF Live, Used, RecRecords
  <2>3. /\ c \in RecRecords /\ c.next = rec[r].next /\ c.page = rec[r].page
        /\ c.state \in {"tail", "closed", "done"}
        /\ c.first = rec[r].first /\ c.broken = rec[r].broken /\ c.chain = rec[r].chain
    BY <2>1, <2>2 DEF RecRecords, Live
  <2>4. rec' = [rec EXCEPT ![r] = c]
    BY <1>2, <1>4
  <2>5. "stopping" \in EndStages /\ end' = EndAt(p, "stopping") /\ end[p].stage # "stopping"
    BY <1>1, <1>4 DEF EndStages
  <2>6. ReadsStay /\ end'[p].stage = "stopping"
    BY <2>5, StageAside
  <2> HIDE DEF c, r
  <2>7. RecorderStep(r, c)
    BY <2>1, <2>2, <2>3, <2>4 DEF RecorderStep
  <2>8. /\ rec'[r] = c /\ \A q \in Recordings : q # r => rec'[q] = rec[q]
        /\ \A q \in Recordings : (Latest(q)' <=> Latest(q)) /\ (Live(q)' => Live(q))
    BY <2>1, <2>7, RecorderStepFacts
  <2>9. ASSUME ~c.broken
        PROVE  \A n \in c.first .. (c.next - 1) : archive'[n] = r \/ InChain(c, n)
    <3>1. \A n \in rec[r].first .. (rec[r].next - 1) : archive[n] = r \/ InChain(rec[r], n)
      BY <2>1, <2>2, <2>3, <2>9 DEF TabInv, RecordedInv, TakenInv
    <3> QED BY <1>1, <2>3, <3>1 DEF InChain
  <2>10. OrderInv' /\ TakenInv'
    BY <1>1, <1>3, <2>1, <2>7, <2>9, TakenStep
  <2>11. CleanInv'
    BY <1>1, <2>1, <2>2, <2>7, CleanStep
  <2>12. StoppingInv'
    <3> SUFFICES ASSUME NEW q \in Recordings, Live(q)', rec'[q].stopping
                 PROVE  /\ Latest(q)'
                        /\ runtime'[rec'[q].page] = 0 /\ end'[rec'[q].page].stage = "stopping"
      BY DEF StoppingInv
    <3>1. CASE q = r
      BY <1>3, <2>1, <2>3, <2>6, <2>8, <3>1
    <3>2. CASE q # r
      <4>1. Live(q) /\ rec[q].stopping
        BY <2>8, <3>2
      <4>2. Latest(q)
        BY <4>1 DEF TabInv, RecordedInv, StoppingInv
      <4> QED BY <2>1, <3>2, <4>2, LatestIsOne
    <3> QED BY <3>1, <3>2
  <2>13. failures' = 0 => FreezeInv'
    BY <1>1, <2>1, <2>2, <2>6, LiveFreeze DEF TabInv
  <2> QED BY <2>10, <2>11, <2>12, <2>13 DEF TabInv, RecordedInv
<1>5. CASE ~running
  <2>1. rec' = rec /\ end' = EndAt(p, "read")
    BY <1>1, <1>2, <1>5
  <2>2. \A q \in Pages : q = p
    BY DEF OneTab
  <2>3. end'[p].stage = "read"
    BY <2>1, EndTypes DEF EndAt, TypeOK, EndRecords
  <2>4. RecordedInv'
    BY <1>1, <1>3, <2>1, <2>2, RecordedStays DEF TabInv
  <2>5. ASSUME failures' = 0 PROVE FreezeInv'
    <3>1. Custody /\ FreezeInv
      BY <1>1, <2>5 DEF CustodyInv, TabInv
    <3>2. r = 0
      BY <1>5, <3>1, RuntimeIsLive
    <3>3. NobodyLive
      <4> SUFFICES ASSUME NEW q \in Recordings, Live(q) PROVE FALSE
        BY DEF NobodyLive
      <4>1. rec[q].page = p
        BY <2>2, UsedFacts DEF Live
      <4>2. q # 0 /\ LiveOK(q)
        BY <3>1 DEF Custody, Recordings
      <4> QED BY <1>1, <3>2, <4>1, <4>2 DEF LiveOK
    <3>4. NobodyLive'
      BY <2>1, <3>3 DEF NobodyLive, Live
    <3> QED BY <1>1, <2>2, <2>3, <3>1, <3>4 DEF FreezeInv, HasJob
  <2> QED BY <2>4, <2>5 DEF TabInv
<1> QED BY <1>4, <1>5

LEMMA ReadArchiveTab ==
  ASSUME Inv, TabInv, NEW p \in Pages, ReadArchive(p)
  PROVE  TabInv'
<1> USE DEF Inv
<1>1. /\ end[p].stage = "read"
      /\ UNCHANGED <<archive, job, checkpoint, failures, rec, runtime>>
  BY DEF ReadArchive, storeVars, boundVars
<1> DEFINE e == [stage |-> "freeze", seen |-> archive, id |-> IF job.id = NoPage THEN p ELSE job.id]
<1>2. /\ e \in EndRecords /\ e.seen = archive
  BY Bounds DEF TypeOK, EndRecords, JobRecords
<1> HIDE DEF e
<1>3. \/ HasJob /\ Contiguous(archive) /\ end' = [end EXCEPT ![p] = e]
      \/ end' = EndStops(p)
  BY DEF ReadArchive, e
<1>4. \A q \in Pages : q # p => end'[q] = end[q]
  BY <1>3 DEF EndStops, TypeOK
<1>5. \/ end'[p].stage = "idle"
      \/ HasJob /\ Contiguous(archive) /\ end'[p].seen = archive
  BY <1>2, <1>3, EndPut, EndTypes
<1>6. RecordedInv'
  BY <1>1, <1>4, RecordedStays DEF TabInv
<1>7. ASSUME failures' = 0 PROVE FreezeInv'
  <2>1. FreezeInv /\ NobodyLive
    BY <1>1, <1>7 DEF TabInv, FreezeInv
  <2>2. NobodyLive' /\ HasJob' = HasJob
    BY <1>1, <2>1 DEF NobodyLive, Live, HasJob
  <2> QED BY <1>1, <1>4, <1>5, <2>1, <2>2 DEF FreezeInv
<1> QED BY <1>6, <1>7 DEF TabInv

LEMMA FreezeJobTab ==
  ASSUME Inv, TabInv, NEW p \in Pages, FreezeJob(p)
  PROVE  TabInv'
<1> USE DEF Inv
<1>1. /\ end[p].stage = "freeze"
      /\ UNCHANGED <<archive, checkpoint, failures, rec, runtime>>
  BY DEF FreezeJob, boundVars
<1>2. \/ end' = EndStops(p)
      \/ \E s \in EndStages \ {"read", "freeze"} : end' = EndAt(p, s)
  BY DEF FreezeJob, EndStages
<1>3. ReadsStay /\ EndStays
  BY <1>1, <1>2, EndMovesAside
<1>4. RecordedInv'
  BY <1>1, <1>3, RecordedStays DEF TabInv, EndStays
<1>5. CASE ~HasJob
  <2>1. job' = job
    BY <1>5 DEF FreezeJob
  <2>2. AsideStep
    BY <1>1, <1>3, <2>1 DEF AsideStep, HasJob, EndStays
  <2> QED BY <2>2, AsideKeeps
<1>6. CASE HasJob
  <2>1. job' = [status |-> "uploading", expected |-> Count(end[p].seen), stopped |-> TRUE,
                id |-> end[p].id]
    BY <1>6 DEF FreezeJob
  <2>2. job'.expected = Count(end[p].seen) /\ HasJob'
    BY <2>1 DEF HasJob
  <2>3. ASSUME failures' = 0 PROVE FreezeInv'
    <3>1. FreezeInv /\ NobodyLive /\ end[p].seen = archive /\ Contiguous(archive)
      BY <1>1, <1>6, <2>3 DEF TabInv, FreezeInv
    <3>2. NobodyLive'
      BY <1>1, <3>1 DEF NobodyLive, Live
    <3>3. Present(archive') = 0 .. (job'.expected - 1)
      BY <1>1, <2>2, <3>1 DEF Contiguous
    <3>4. \A q \in Pages : end'[q].stage \in {"read", "freeze"} => end'[q] = end[q]
      BY <1>3 DEF ReadsStay
    <3>5. \A q \in Pages :
            end'[q].stage = "freeze" => end'[q].seen = archive' /\ Contiguous(archive')
      BY <1>1, <1>6, <3>1, <3>4 DEF FreezeInv
    <3> QED BY <2>2, <3>2, <3>3, <3>5 DEF FreezeInv
  <2> QED BY <1>4, <2>3 DEF TabInv
<1> QED BY <1>5, <1>6

LEMMA CommitDeleteTab ==
  ASSUME Inv, TabInv, CommitDelete
  PROVE  TabInv'
<1> USE DEF Inv
<1>1. UNCHANGED <<rec, runtime, end, failures>>
  BY DEF CommitDelete, boundVars
<1>2. CASE ~StillDeletable
  <2>1. UNCHANGED <<archive, job, checkpoint>>
    BY <1>2 DEF CommitDelete
  <2>2. AsideStep
    BY <1>1, <2>1 DEF AsideStep, HasJob, ReadsStay
  <2> QED BY <2>2, AsideKeeps
<1>3. CASE StillDeletable
  <2>1. /\ checkpoint = "clean" /\ checkpoint' = "none" /\ job' = NoJob
    BY <1>3 DEF CommitDelete, StillDeletable, Deletable
  <2>2. \A r \in Recordings : Latest(r) => ~Live(r)
    BY <2>1 DEF TabInv, RecordedInv, CleanInv
  <2>3. \A r \in Recordings : (Used(r)' <=> Used(r)) /\ (Latest(r)' <=> Latest(r))
                              /\ (Live(r)' <=> Live(r))
    BY <1>1 DEF Latest, Used, Live
  <2>4. OrderInv' /\ StoppingInv'
    BY <1>1 DEF TabInv, RecordedInv, OrderInv, StoppingInv, Latest, Used, Live
  <2>5. TakenInv'
    BY <1>1, <2>2, <2>3 DEF TabInv, RecordedInv, TakenInv
  <2>6. CleanInv'
    BY <2>1 DEF CleanInv
  <2>7. ASSUME failures' = 0 PROVE FreezeInv'
    <3>1. FreezeInv
      BY <1>1, <2>7 DEF TabInv
    <3>2. NobodyLive' <=> NobodyLive
      BY <1>1 DEF NobodyLive, Live
    <3>3. ~HasJob' /\ job'.expected = -1
      BY <2>1 DEF NoJob, HasJob
    <3> QED BY <1>1, <3>1, <3>2, <3>3 DEF FreezeInv
  <2> QED BY <2>4, <2>5, <2>6, <2>7 DEF TabInv, RecordedInv
<1> QED BY <1>2, <1>3

LEMMA CrashTab ==
  ASSUME Inv, TabInv, NEW p \in Pages, Crash(p)
  PROVE  TabInv'
<1> USE DEF Inv
<1> DEFINE c == [Unused EXCEPT !.state = "done", !.page = p]
<1>1. /\ rec' = [r \in Recordings |-> IF rec[r].page = p THEN c ELSE rec[r]]
      /\ runtime' = [runtime EXCEPT ![p] = 0]
      /\ end' = [end EXCEPT ![p] = IdleEnd]
      /\ UNCHANGED <<archive, job, checkpoint, failures>>
  BY DEF Crash, EndStops
<1>2. c \in RecRecords /\ c.state = "done" /\ c.first = 0 /\ c.next = 0
  <2>1. Unused.first = 0 /\ Unused.next = 0
    BY DEF Unused
  <2> QED BY <2>1, UnusedType, Bounds DEF RecRecords
<1> HIDE DEF c
<1>3. \A r \in Recordings : rec'[r] = IF rec[r].page = p THEN c ELSE rec[r]
  BY <1>1
<1>4. (\A o \in Pages : runtime'[o] \in {0, runtime[o]}) /\ runtime'[p] = 0
  BY <1>1 DEF TypeOK
<1>5. /\ end'[p].stage = "idle" /\ \A o \in Pages : o # p => end'[o] = end[o]
  BY <1>1, EndTypes, EndPut
<1>6. \A r \in Recordings : Used(r)' <=> Used(r)
  <2> SUFFICES ASSUME NEW r \in Recordings PROVE Used(r)' <=> Used(r)
    OBVIOUS
  <2>1. CASE rec[r].page = p
    <3>1. rec[r].page # NoPage
      BY <2>1, PageAssumption
    <3>2. Used(r)
      BY <3>1 DEF UnusedInv, Used, Unused
    <3> QED BY <1>2, <1>3, <2>1, <3>2 DEF Used
  <2>2. CASE rec[r].page # p
    BY <1>3, <2>2 DEF Used
  <2> QED BY <2>1, <2>2
<1>7. \A r \in Recordings : Latest(r)' <=> Latest(r)
  BY <1>6 DEF Latest
<1>8. \A r \in Recordings : Live(r)' => Live(r) /\ rec[r].page # p /\ rec'[r] = rec[r]
  BY <1>2, <1>3 DEF Live
<1>9. OrderInv'
  <2>1. \A o \in Pages : (runtime[o] # 0 => Latest(runtime[o]))'
    <3> SUFFICES ASSUME NEW o \in Pages, runtime'[o] # 0 PROVE Latest(runtime[o])'
      OBVIOUS
    <3>1. runtime'[o] = runtime[o]
      BY <1>4
    <3>2. PICK r \in Recordings : r = runtime[o] /\ Latest(r)
      BY <3>1, Bounds DEF TabInv, RecordedInv, OrderInv, TypeOK, Recordings
    <3> QED BY <1>7, <3>1, <3>2
  <2> QED BY <1>6, <2>1 DEF TabInv, RecordedInv, OrderInv
<1>10. StoppingInv'
  <2> SUFFICES ASSUME NEW q \in Recordings, Live(q)', rec'[q].stopping
               PROVE  /\ Latest(q)'
                      /\ runtime'[rec'[q].page] = 0 /\ end'[rec'[q].page].stage = "stopping"
    BY DEF StoppingInv
  <2>1. Live(q) /\ rec[q].page # p /\ rec'[q] = rec[q]
    BY <1>8
  <2>2. Latest(q) /\ runtime[rec[q].page] = 0 /\ end[rec[q].page].stage = "stopping"
    BY <2>1 DEF TabInv, RecordedInv, StoppingInv
  <2>3. rec[q].page \in Pages
    BY <2>1, UsedFacts DEF Live
  <2> QED BY <1>4, <1>5, <1>7, <2>1, <2>2, <2>3
<1>11. TakenInv'
  BY <1>1, <1>2, <1>3, <1>7, <1>8 DEF TabInv, RecordedInv, TakenInv, InChain
<1>12. CleanInv'
  <2> SUFFICES ASSUME checkpoint = "clean", NEW q \in Recordings, Latest(q)'
               PROVE  /\ ~Live(q)'
                      /\ \A n \in rec'[q].first .. (rec'[q].next - 1) : archive[n] = q
    BY <1>1 DEF CleanInv
  <2>1. ~Live(q) /\ \A n \in rec[q].first .. (rec[q].next - 1) : archive[n] = q
    BY <1>7 DEF TabInv, RecordedInv, CleanInv
  <2>2. CASE rec[q].page = p
    BY <1>2, <1>3, <1>8, <2>1, <2>2
  <2>3. CASE rec[q].page # p
    BY <1>3, <1>8, <2>1, <2>3
  <2> QED BY <2>2, <2>3
<1>13. ASSUME failures' = 0 PROVE FreezeInv'
  <2>1. FreezeInv
    BY <1>1, <1>13 DEF TabInv
  <2>2. NobodyLive => NobodyLive'
    BY <1>8 DEF NobodyLive
  <2>3. \A o \in Pages : end'[o].stage \in {"read", "freeze"} => end'[o] = end[o]
    BY <1>5
  <2> QED BY <1>1, <2>1, <2>2, <2>3 DEF FreezeInv, HasJob
<1> QED BY <1>9, <1>10, <1>11, <1>12, <1>13 DEF TabInv, RecordedInv

LEMMA StartRecordingTab ==
  ASSUME OneTab, Inv, TabInv, NEW p \in Pages, NEW r \in Recordings, StartRecording(p, r)
  PROVE  TabInv'
<1> USE DEF Inv
<1> DEFINE c == [Unused EXCEPT !.state = "recording", !.page = p, !.first = nextNo,
                               !.next = nextNo]
<1>1. /\ rec[r] = Unused /\ (r > 1 => rec[r - 1] # Unused)
      /\ runtime[p] = 0 /\ end[p].stage = "idle"
      /\ ~HasJob \/ job.expected = -1
      /\ checkpoint' = "dirty"
      /\ rec' = [rec EXCEPT ![r] = c]
      /\ runtime' = [runtime EXCEPT ![p] = r]
      /\ UNCHANGED <<archive, end, failures>>
  BY DEF StartRecording, boundVars
<1>2. /\ c \in RecRecords /\ c.state = "recording" /\ ~c.broken /\ ~c.stopping
      /\ c.first = nextNo /\ c.next = nextNo
  <2>1. nextNo \in 0 .. MaxChunks /\ p \in Ids
    BY Bounds DEF TypeOK
  <2>2. Unused.broken = FALSE /\ Unused.stopping = FALSE
    BY DEF Unused
  <2> QED BY <2>1, <2>2, UnusedType DEF RecRecords
<1> HIDE DEF c
<1>3. rec'[r] = c /\ \A q \in Recordings : q # r => rec'[q] = rec[q]
  BY <1>1, <1>2, RecPut
<1>4. \A q \in Pages : q = p
  BY DEF OneTab
<1>5. runtime'[p] = r
  BY <1>1 DEF TypeOK
<1>6. ~Used(r) /\ (r > 1 => r - 1 \in Recordings /\ Used(r - 1))
  BY <1>1, Bounds, UsedIsNotUnused DEF Recordings
<1>7. Used(r)' /\ \A q \in Recordings : q # r => (Used(q)' <=> Used(q))
  BY <1>2, <1>3 DEF Used
<1>8. \A q \in Recordings : Used(q) => q < r
  <2> SUFFICES ASSUME NEW q \in Recordings, Used(q), ~(q < r) PROVE FALSE
    OBVIOUS
  <2>1. q # r /\ r < q
    BY <1>6 DEF Recordings
  <2> QED BY <1>6, <2>1 DEF TabInv, RecordedInv, OrderInv
<1>9. \A q \in Recordings : Latest(q)' <=> q = r
  <2>1. Latest(r)'
    BY <1>7, <1>8 DEF Latest, Recordings
  <2>2. ASSUME NEW q \in Recordings, q # r PROVE ~Latest(q)'
    BY <1>7, <1>8, <2>2 DEF Latest, Recordings
  <2> QED BY <2>1, <2>2
<1>10. OrderInv'
  <2>1. \A a, b \in Recordings : b < a /\ Used(a)' => Used(b)'
    <3> SUFFICES ASSUME NEW a \in Recordings, NEW b \in Recordings, b < a, Used(a)', b # r
                 PROVE  Used(b)'
      BY <1>7
    <3>1. CASE a # r
      BY <1>7, <3>1 DEF TabInv, RecordedInv, OrderInv
    <3>2. CASE a = r
      <4>1. r > 1 /\ (b = r - 1 \/ b < r - 1)
        BY <3>2 DEF Recordings
      <4> QED BY <1>6, <1>7, <4>1 DEF TabInv, RecordedInv, OrderInv
    <3> QED BY <3>1, <3>2
  <2>2. \A o \in Pages : (runtime[o] # 0 => Latest(runtime[o]))'
    BY <1>4, <1>5, <1>9
  <2> QED BY <2>1, <2>2 DEF OrderInv
<1>11. StoppingInv'
  <2> SUFFICES ASSUME NEW q \in Recordings, Live(q)', rec'[q].stopping PROVE FALSE
    BY DEF StoppingInv
  <2>1. q # r /\ rec'[q] = rec[q]
    BY <1>2, <1>3
  <2>2. Live(q) /\ rec[q].stopping
    BY <2>1 DEF Live
  <2>3. rec[q].page = p
    BY <1>4, <2>2, UsedFacts DEF Live
  <2> QED BY <1>1, <2>2, <2>3 DEF TabInv, RecordedInv, StoppingInv
<1>12. TakenInv'
  <2> SUFFICES ASSUME NEW q \in Recordings
               PROVE  /\ rec'[q].state = "recording" => ~rec'[q].broken
                      /\ Latest(q)' /\ Live(q)' /\ ~rec'[q].broken =>
                           \A n \in rec'[q].first .. (rec'[q].next - 1) :
                             archive'[n] = q \/ InChain(rec'[q], n)
    BY DEF TakenInv, InChain
  <2>1. CASE q = r
    <3>1. rec'[q].first .. (rec'[q].next - 1) = {}
      BY <1>2, <1>3, <2>1, Bounds DEF TypeOK
    <3> QED BY <1>2, <1>3, <2>1, <3>1
  <2>2. CASE q # r
    BY <1>3, <1>9, <2>2 DEF TabInv, RecordedInv, TakenInv
  <2> QED BY <2>1, <2>2
<1>13. CleanInv'
  BY <1>1 DEF CleanInv
<1>14. ASSUME failures' = 0 PROVE FreezeInv'
  <2>1. job'.expected = -1 /\ HasJob'
    <3>1. CASE HasJob
      <4>1. job' = [job EXCEPT !.stopped = FALSE] /\ job.expected = -1
        BY <1>1, <3>1 DEF StartRecording
      <4> QED BY <3>1, <4>1 DEF TypeOK, JobRecords, HasJob
    <3>2. CASE ~HasJob
      BY <3>2 DEF StartRecording, NoJob, HasJob
    <3> QED BY <3>1, <3>2
  <2>2. \A q \in Pages : end'[q].stage = "idle"
    BY <1>1, <1>4
  <2> QED BY <2>1, <2>2 DEF FreezeInv
<1> QED BY <1>10, <1>11, <1>12, <1>13, <1>14 DEF TabInv, RecordedInv

-----------------------------------------------------------------------------
LEMMA TabInit ==
  ASSUME Init
  PROVE  TabInv
<1>1. \A r \in Recordings : rec[r] = Unused /\ ~Used(r) /\ ~Live(r) /\ rec[r].state = "unused"
  BY DEF Init, Unused, Used, Live
<1>2. FreezeInv
  BY DEF Init, FreezeInv, NoJob, HasJob, IdleEnd
<1>3. OrderInv /\ StoppingInv /\ TakenInv /\ CleanInv
  BY <1>1 DEF Init, OrderInv, StoppingInv, TakenInv, CleanInv
<1> QED BY <1>2, <1>3 DEF TabInv, RecordedInv

LEMMA TabStep ==
  ASSUME OneTab, Inv, TabInv, [Next]_vars
  PROVE  TabInv'
<1>1. ASSUME NEW p \in Pages, NEW r \in Recordings, StartRecording(p, r)
      PROVE  TabInv'
  BY <1>1, StartRecordingTab
<1>2. ASSUME NEW r \in Recordings,
             \/ Accept(r) \/ Persist(r) \/ PersistFails(r)
             \/ DeviceFails(r) \/ LastBlob(r) \/ Close(r)
      PROVE  TabInv'
  BY <1>2, AcceptTab, PersistTab, PersistFailsTab, DeviceFailsTab, LastBlobTab, CloseTab
<1>3. ASSUME \/ \E p \in Pages : DropRuntime(p) \/ Recover(p)
             \/ \E u \in wire : Upload(u)
             \/ BeginDelete \/ VerifyDelete \/ UNCHANGED vars
      PROVE  TabInv'
  BY <1>3, OtherAside, AsideKeeps
<1>4. ASSUME NEW p \in Pages,
             \/ SubmitEnd(p) \/ RequestLost(p) \/ CheckJob(p) \/ CompleteEnd(p)
             \/ ConfirmEnd(p) \/ FlushWithoutJob(p)
      PROVE  TabInv'
  BY <1>4, EndingAside, AsideKeeps
<1>5. ASSUME NEW p \in Pages,
             \/ StartRun(p) \/ AssignId(p) \/ Send(p) \/ Acknowledge(p)
             \/ RecordFailure(p) \/ GiveUp(p)
      PROVE  TabInv'
  BY <1>5, RunAside, StartRunAside, AsideKeeps
<1>6. ASSUME NEW p \in Pages,
             BeginEnd(p) \/ ReadArchive(p) \/ FreezeJob(p) \/ Verify(p) \/ Crash(p)
      PROVE  TabInv'
  BY <1>6, BeginEndTab, ReadArchiveTab, FreezeJobTab, VerifyTab, CrashTab
<1>7. CASE CommitDelete
  BY <1>7, CommitDeleteTab
<1> QED
  BY <1>1, <1>2, <1>3, <1>4, <1>5, <1>6, <1>7
  DEF Next, StartStep, RecorderSteps, ServerStep, DeleteSteps, EndSteps, RunSteps

LEMMA TabInvariance ==
  ASSUME OneTab
  PROVE  Spec => [](Inv /\ TabInv)
<1>1. Init => Inv /\ TabInv
  BY InvInit, TabInit
<1>2. Inv /\ TabInv /\ [Next]_vars => (Inv /\ TabInv)'
  BY InvStep, TabStep
<1> QED BY <1>1, <1>2, PTL DEF Spec

(* In a browser with one tab, and while no capture fails, the job that the  *)
(* ending freezes counts the whole archive: from the stop of the recorder   *)
(* to the update of the job nobody appends to it.  stopAndFreeze,          *)
(* restoreArchive and freezeJob.                                           *)
THEOREM FrozenJobIsWhole ==
  ASSUME OneTab
  PROVE  Spec => []FrozenIsWhole
<1>1. Inv /\ TabInv => FrozenIsWhole
  BY DEF TabInv, FreezeInv, NobodyLive, Live, FrozenIsWhole, Inv, TypeOK, RecRecords
<1> QED BY <1>1, TabInvariance, PTL

(* In a browser with one tab a clean checkpoint means that the last        *)
(* recorder has written every chunk it took a number for, whatever writes  *)
(* failed, pages crashed or answers were lost before.  The deletion of the *)
(* archive relies on it.                                                   *)
THEOREM CleanCheckpointIsWritten ==
  ASSUME OneTab
  PROVE  Spec => []CleanMeansWritten
<1>1. ASSUME Inv, TabInv PROVE CleanMeansWritten
  <2> DEFINE started == {r \in Recordings : rec[r] # Unused}
             r == Max(started)
  <2> SUFFICES ASSUME checkpoint = "clean", started # {}
               PROVE  \A n \in rec[r].first .. (rec[r].next - 1) : archive[n] = r
    BY DEF CleanMeansWritten
  <2>1. started \in SUBSET Recordings
    OBVIOUS
  <2>2. r \in started /\ \A q \in started : q <= r
    BY <2>1, LargestOf
  <2>3. r \in Recordings /\ rec[r] # Unused
    BY <2>2
  <2>4. \A q \in Recordings : rec[q] # Unused => q <= r
    BY <2>2
  <2> HIDE DEF r, started
  <2>5. Latest(r)
    BY <1>1, <2>3, <2>4, UsedIsNotUnused DEF Latest, Inv, Recordings
  <2> QED BY <1>1, <2>3, <2>5 DEF TabInv, RecordedInv, CleanInv
<1> QED BY <1>1, TabInvariance, PTL
==============================================================================
