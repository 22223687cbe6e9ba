---------------------------- MODULE AudioDelivery ----------------------------
(***************************************************************************)
(* The browser side of one interview recording: recorders that append      *)
(* chunks to the archive of the browser, pumps that deliver them, the      *)
(* freeze that ends the recording, its completion, and the deletion of the *)
(* local archive.  Several pages (tabs) of one browser share IndexedDB and *)
(* the Web Lock of the session; each has its own controller, pump and      *)
(* recorders, and loses them when it is closed or reloaded.                *)
(*                                                                         *)
(* One IndexedDB transaction is one action.  A request is a message: it    *)
(* may be answered, its answer may be lost after the server has acted, and *)
(* an upload the page gave up may still arrive later.  The server is only  *)
(* as detailed as its answers to this client; InterviewSession models it.  *)
(* The capture generations, and with them the commands that start, report  *)
(* and resume a capture, are reduced to the status of the session.         *)
(***************************************************************************)
EXTENDS Integers, FiniteSets, FiniteSetsExt, Sequences

CONSTANTS
  Pages,          \* tabs of one browser with the workbench of the session
  NoPage,         \* nobody
  Deleter,        \* the page that deletes the local archive
  MaxChunks,      \* bound: sequence numbers are 0 .. MaxChunks - 1
  MaxRecordings,  \* bound: recorders that are ever started
  MaxTrouble,     \* bound: failed recorders and archive writes, lost requests and answers
  MaxCrashes      \* bound: pages that are closed or reloaded

ASSUME PageAssumption == NoPage \notin Pages /\ Deleter \notin Pages /\ NoPage # Deleter
ASSUME BoundAssumption ==
  /\ MaxChunks \in Nat \ {0}
  /\ MaxRecordings \in Nat
  /\ MaxTrouble \in Nat
  /\ MaxCrashes \in Nat

VARIABLES
  \* IndexedDB and the Web Lock, shared by the pages
  archive,     \* archive chunks: the recorder each sequence number was recorded by
  pending,     \* sequence numbers with a delivery row
  nextNo,      \* nextSequenceNo of the session state
  requestId,   \* chunkRequestIds: the page that generated the id of a chunk
  job,         \* the rest of the upload job
  checkpoint,  \* the capture checkpoint: none, dirty or clean
  receipt,     \* there is a deletion receipt
  lock,        \* who holds the Web Lock of the session
  \* in memory of the pages
  rec,         \* recorders, with the capture core each belongs to
  runtime,     \* the recorder of the controller's runtime, 0 for none
  pump,        \* the delivery run of a page
  end,         \* the ending a page is busy with
  deleter,     \* the deletion and the archive it has inspected
  \* the server and the network
  session,     \* interview_session.status
  rows,        \* audio_chunk rows
  committed,   \* session_finalization_chunk rows
  completedBy, \* the request id the object was completed with
  answered,    \* chunk and request id of the uploads with a stored answer
  wire,        \* uploads under way
  failures, lost, crashes  \* counters of the bounds

storeVars  == <<archive, pending, nextNo, requestId, job, checkpoint, receipt, lock>>
pageVars   == <<rec, runtime, pump, end, deleter>>
serverVars == <<session, rows, committed, completedBy, answered>>
boundVars  == <<failures, lost, crashes>>
vars == <<storeVars, pageVars, serverVars, wire, boundVars>>

-----------------------------------------------------------------------------
(* Types *)

SeqNos     == 0 .. (MaxChunks - 1)
Recordings == 1 .. MaxRecordings
ChunkMap   == [SeqNos -> 0 .. MaxRecordings]   \* 0: no chunk
NoChunks   == [n \in SeqNos |-> 0]
Ids        == Pages \cup {NoPage}
NoIds      == [n \in SeqNos |-> NoPage]

Present(m)    == {n \in SeqNos : m[n] # 0}
Count(m)      == Cardinality(Present(m))
Contiguous(m) == Present(m) = 0 .. (Count(m) - 1)

NoJob      == [status |-> "none", expected |-> -1, stopped |-> FALSE, id |-> NoPage]
IdlePump   == [stage |-> "idle", todo |-> NoChunks, ids |-> NoIds]
IdleEnd    == [stage |-> "idle", seen |-> NoChunks, id |-> NoPage]
IdleDelete == [stage |-> "idle", seen |-> NoChunks]
Unused     == [state |-> "unused", page |-> NoPage, first |-> 0, next |-> 0, chain |-> <<>>,
               broken |-> FALSE, failing |-> FALSE, stopping |-> FALSE,
               interrupted |-> FALSE]

HasJob == job.status # "none"
Finalized == committed # NoChunks
Complete == completedBy # NoPage
MayFail == failures + lost < MaxTrouble

Init ==
  /\ archive = NoChunks /\ pending = {} /\ nextNo = 0 /\ requestId = NoIds
  /\ job = NoJob /\ checkpoint = "none" /\ receipt = FALSE /\ lock = NoPage
  /\ rec = [r \in Recordings |-> Unused]
  /\ runtime = [p \in Pages |-> 0]
  /\ pump = [p \in Pages |-> IdlePump]
  /\ end = [p \in Pages |-> IdleEnd]
  /\ deleter = IdleDelete
  /\ session = "ready" /\ rows = NoChunks /\ committed = NoChunks
  /\ completedBy = NoPage /\ answered = {} /\ wire = {}
  /\ failures = 0 /\ lost = 0 /\ crashes = 0

-----------------------------------------------------------------------------
(* Recording                                                               *)

(* SessionBrowserLock.acquire: the lock object of a page is shared by its  *)
(* controller and all its cores.                                           *)
CanLock_Always(p) == TRUE

CanLock(p) == lock \in {NoPage, p}

Freed(p) == IF lock = p THEN NoPage ELSE lock

(* start and resume up to a running recorder: a first start makes the job; *)
(* a resume needs an interrupted capture and a job that is not frozen.     *)
StartRecording(p, r) ==
  /\ rec[r] = Unused /\ (r > 1 => rec[r - 1] # Unused)
  /\ runtime[p] = 0 /\ end[p].stage = "idle"
  /\ \/ session = "ready" /\ ~HasJob
     \/ session = "interrupted" /\ HasJob /\ job.expected = -1
  /\ CanLock(p)
  /\ lock' = p
  /\ session' = "recording"
  /\ job' = IF HasJob THEN [job EXCEPT !.stopped = FALSE] ELSE [NoJob EXCEPT !.status = "recording"]
  /\ checkpoint' = "dirty"
  /\ rec' = [rec EXCEPT ![r] = [Unused EXCEPT !.state = "recording", !.page = p,
                                             !.first = nextNo, !.next = nextNo]]
  /\ runtime' = [runtime EXCEPT ![p] = r]
  /\ UNCHANGED <<archive, pending, nextNo, requestId, receipt, pump, end, deleter, rows,
                 committed, completedBy, answered, wire, boundVars>>

(* acceptBlob: the number is taken before the write is attempted. *)
WithBlob(c) == [c EXCEPT !.next = @ + 1, !.chain = Append(@, c.next)]

Accept(r) ==
  /\ rec[r].state = "recording" /\ rec[r].next < MaxChunks
  /\ rec' = [rec EXCEPT ![r] = WithBlob(@)]
  /\ UNCHANGED <<storeVars, runtime, pump, end, deleter, serverVars, wire, boundVars>>

(* fail, and failCapture through observeRecorder: the recorder is stopped, *)
(* which emits what it has left.                                           *)
Failing(c) ==
  [c EXCEPT !.failing = TRUE, !.state = IF @ = "recording" THEN "tail" ELSE @]

(* The first write of the chain is over. *)
Written(c) == [c EXCEPT !.chain = Tail(c.chain)]

(* persistImmutable, in the order of the write chain.  Failed writes do not *)
(* stop the ones behind them.                                               *)
Persist(r) ==
  /\ rec[r].chain # <<>>
  /\ LET n == Head(rec[r].chain)
         c == Written(rec[r])
     IN IF archive[n] = 0
        THEN /\ archive' = [archive EXCEPT ![n] = r]
             /\ pending' = pending \cup {n}
             /\ nextNo' = IF n + 1 > nextNo THEN n + 1 ELSE nextNo
             /\ rec' = [rec EXCEPT ![r] = c]
        ELSE /\ rec' = [rec EXCEPT ![r] = Failing([c EXCEPT !.broken = TRUE])]
             /\ UNCHANGED <<archive, pending, nextNo>>
  /\ UNCHANGED <<requestId, job, checkpoint, receipt, lock, runtime, pump, end, deleter,
                 serverVars, wire, boundVars>>

(* The write fails: quota, the limit of the archive, IndexedDB itself. *)
PersistFails(r) ==
  /\ rec[r].chain # <<>> /\ MayFail
  /\ failures' = failures + 1
  /\ rec' = [rec EXCEPT ![r] = Failing([Written(rec[r]) EXCEPT !.broken = TRUE])]
  /\ UNCHANGED <<storeVars, runtime, pump, end, deleter, serverVars, wire, lost, crashes>>

(* The microphone ends, or the recorder reports an error, which counts as a *)
(* failed write.                                                            *)
DeviceFails(r) ==
  /\ rec[r].state = "recording" /\ MayFail
  /\ failures' = failures + 1
  /\ \E recorderError \in BOOLEAN :
       rec' = [rec EXCEPT ![r] = Failing([@ EXCEPT !.broken = recorderError])]
  /\ UNCHANGED <<storeVars, runtime, pump, end, deleter, serverVars, wire, lost, crashes>>

(* The last dataavailable of a stopped recorder, which may carry nothing. *)
LastBlob(r) ==
  /\ rec[r].state = "tail"
  /\ \E c \in {rec[r]} \cup (IF rec[r].next < MaxChunks THEN {WithBlob(rec[r])} ELSE {}) :
       rec' = [rec EXCEPT ![r] = [c EXCEPT !.state = "closed"]]
  /\ UNCHANGED <<storeVars, runtime, pump, end, deleter, serverVars, wire, boundVars>>

(* The core closes when its recorder has written everything: failCapture   *)
(* leaves a dirty checkpoint, stop a clean one unless a write has failed,  *)
(* and either may come last.  The ending that waited for it goes on.       *)
ClosedCleanly_AnyWrites(c) == c.stopping

ClosedCleanly(c) == c.stopping /\ ~c.broken

Close(r) ==
  LET p == rec[r].page
      stopped == ClosedCleanly(rec[r])
  IN /\ rec[r].state = "closed" /\ rec[r].chain = <<>>
     /\ rec' = [rec EXCEPT ![r].state = "done"]
     /\ checkpoint' \in (IF stopped THEN {"clean"} ELSE {})
                        \cup (IF ~stopped \/ rec[r].failing THEN {"dirty"} ELSE {})
     /\ lock' = Freed(p)
     /\ end' = CASE end[p].stage = "stopping" /\ rec[r].stopping ->
                       IF stopped THEN [end EXCEPT ![p].stage = "read"]
                                  ELSE [end EXCEPT ![p] = IdleEnd]
                 [] end[p].stage = "interrupting" /\ rec[r].interrupted ->
                       [end EXCEPT ![p].stage = "drain"]
                 [] OTHER -> end
     /\ UNCHANGED <<archive, pending, nextNo, requestId, job, receipt, runtime, pump, deleter,
                    serverVars, wire, boundVars>>

(* onCaptureFailure, in the controller's serial queue: the runtime is       *)
(* dropped at once, whatever its recorder still has to write, and the       *)
(* interruption is reported; the report may not arrive.                     *)
DropRuntime(p) ==
  /\ runtime[p] # 0 /\ end[p].stage = "idle"
  /\ rec[runtime[p]].failing
  /\ runtime' = [runtime EXCEPT ![p] = 0]
  /\ job' = [job EXCEPT !.stopped = FALSE]
  /\ session' \in {session} \cup (IF session = "recording" THEN {"interrupted"} ELSE {})
  /\ UNCHANGED <<archive, pending, nextNo, requestId, checkpoint, receipt, lock, rec, pump, end,
                 deleter, rows, committed, completedBy, answered, wire, boundVars>>

(* verifyServerSession: the server ended the capture, so its runtime is     *)
(* interrupted and waited for, unless its core is failing or closed already,*)
(* and what it has archived is delivered.  The lock is released after it.   *)
Verify(p) ==
  LET r == runtime[p]
      ending == rec[r].failing \/ rec[r].state = "done"
  IN /\ r # 0 /\ end[p].stage = "idle"
     /\ session # "recording"
     /\ runtime' = [runtime EXCEPT ![p] = 0]
     /\ end' = [end EXCEPT ![p].stage = IF ending THEN "drain" ELSE "interrupting"]
     /\ rec' = IF ending THEN rec
               ELSE [rec EXCEPT ![r] = Failing([@ EXCEPT !.interrupted = TRUE])]
     /\ lock' = IF ending THEN Freed(p) ELSE lock
     /\ UNCHANGED <<archive, pending, nextNo, requestId, job, checkpoint, receipt, pump, deleter,
                    serverVars, wire, boundVars>>

(* recover on a page without a runtime: a capture that is live at the       *)
(* server while the lock is free has lost its page.                         *)
Recover(p) ==
  /\ session = "recording" /\ HasJob
  /\ runtime[p] = 0 /\ end[p].stage = "idle"
  /\ CanLock(p)
  /\ lock' = NoPage
  /\ job' = [job EXCEPT !.stopped = FALSE]
  /\ session' \in {session, "interrupted"}
  /\ UNCHANGED <<archive, pending, nextNo, requestId, checkpoint, receipt, pageVars, rows,
                 committed, completedBy, answered, wire, boundVars>>

-----------------------------------------------------------------------------
(* Ending a recording                                                      *)

(* stopAndFreeze begins: a runtime is stopped and waited for, unless its    *)
(* core has closed by itself; without one the page's lock is released.  It  *)
(* does not ask for the lock.                                               *)
BeginEnd_WithoutWaiting(p) ==
  LET r == runtime[p]
      running == r # 0 /\ rec[r].state # "done"
  IN /\ HasJob /\ end[p].stage = "idle"
     /\ runtime' = [runtime EXCEPT ![p] = 0]
     /\ end' = [end EXCEPT ![p].stage = "read"]
     /\ rec' = IF running
               THEN [rec EXCEPT ![r].state = IF @ = "recording" THEN "tail" ELSE @,
                                ![r].failing = TRUE]
               ELSE rec
     /\ lock' = IF r = 0 THEN Freed(p) ELSE lock
     /\ UNCHANGED <<archive, pending, nextNo, requestId, job, checkpoint, receipt, pump, deleter,
                    serverVars, wire, boundVars>>

BeginEnd(p) ==
  LET r == runtime[p]
      running == r # 0 /\ rec[r].state # "done"
  IN /\ HasJob /\ end[p].stage = "idle"
     /\ runtime' = [runtime EXCEPT ![p] = 0]
     /\ end' = [end EXCEPT ![p].stage = IF running THEN "stopping" ELSE "read"]
     /\ rec' = IF running
               THEN [rec EXCEPT ![r].stopping = TRUE,
                                ![r].state = IF @ = "recording" THEN "tail" ELSE @]
               ELSE rec
     /\ lock' = IF r = 0 THEN Freed(p) ELSE lock
     /\ UNCHANGED <<archive, pending, nextNo, requestId, job, checkpoint, receipt, pump, deleter,
                    serverVars, wire, boundVars>>

EndAt(p, stage) == [end EXCEPT ![p].stage = stage]
EndStops(p) == [end EXCEPT ![p] = IdleEnd]

(* restoreArchive, assertContiguousArchive and the job it starts from. *)
ReadArchive(p) ==
  /\ end[p].stage = "read"
  /\ end' = IF HasJob /\ Contiguous(archive)
            THEN [end EXCEPT ![p] = [stage |-> "freeze", seen |-> archive,
                                     id |-> IF job.id = NoPage THEN p ELSE job.id]]
            ELSE EndStops(p)
  /\ UNCHANGED <<storeVars, rec, runtime, pump, deleter, serverVars, wire, boundVars>>

(* The update that freezes the job, with however many chunks were read.  A  *)
(* page that knows the session to be frozen goes on with the delivery, the  *)
(* others submit the freeze, which needs a chunk.                           *)
FreezeJob(p) ==
  /\ end[p].stage = "freeze"
  /\ IF HasJob
     THEN /\ job' = [status |-> "uploading", expected |-> Count(end[p].seen), stopped |-> TRUE,
                     id |-> end[p].id]
          /\ end' \in {EndAt(p, stage) :
                         stage \in {"submit"} \cup IF Finalized THEN {"flush"} ELSE {}}
     ELSE job' = job /\ end' = EndStops(p)
  /\ UNCHANGED <<archive, pending, nextNo, requestId, checkpoint, receipt, lock, rec, runtime,
                 pump, deleter, serverVars, wire, boundVars>>

(* stop or finalize_interrupted at the server: the same commitment again is *)
(* answered as before, a first one must agree with the uploaded chunks.     *)
FreezeAccepted(m) ==
  IF Finalized
  THEN committed = m
  ELSE /\ m # NoChunks
       /\ session \in {"recording", "interrupted"}
       /\ \A n \in Present(rows) : rows[n] = m[n]

(* The answer of the server reaches the page (s), or something is lost. *)
Answer(p, ok, stage) ==
  \/ /\ end' = IF ok THEN EndAt(p, stage) ELSE EndStops(p)
     /\ lost' = lost
  \/ /\ end' = EndStops(p)
     /\ MayFail /\ lost' = lost + 1

SubmitEnd(p) ==
  /\ end[p].stage = "submit"
  /\ LET ok == FreezeAccepted(end[p].seen)
     IN /\ committed' = IF ok THEN end[p].seen ELSE committed
        /\ session' = IF ok /\ ~Finalized THEN "stopping" ELSE session
        /\ Answer(p, ok, "flush")
  /\ UNCHANGED <<storeVars, rec, runtime, pump, deleter, rows, completedBy, answered, wire,
                 failures, crashes>>

RequestLost(p) ==
  /\ end[p].stage \in {"submit", "complete"} /\ MayFail
  /\ end' = EndStops(p)
  /\ lost' = lost + 1
  /\ UNCHANGED <<storeVars, rec, runtime, pump, deleter, serverVars, wire, failures, crashes>>

(* completeFrozenAudio after its flush: the job must still be the frozen one. *)
FrozenMatches(p) ==
  /\ job.expected = Count(end[p].seen)
  /\ job.id = end[p].id
  /\ job.stopped

CheckJob(p) ==
  /\ end[p].stage = "check"
  /\ IF FrozenMatches(p) /\ job.status # "complete"
     THEN job' = [job EXCEPT !.status = "completing"] /\ end' = EndAt(p, "complete")
     ELSE job' = job /\ end' = EndStops(p)
  /\ UNCHANGED <<archive, pending, nextNo, requestId, checkpoint, receipt, lock, rec, runtime,
                 pump, deleter, serverVars, wire, boundVars>>

(* completeObject: answered from the stored answer, or every committed      *)
(* chunk must be there.                                                     *)
CompleteAccepted_NoReplay(p) ==
  /\ ~Complete /\ Finalized /\ session = "stopping"
  /\ Count(end[p].seen) = Count(committed)
  /\ rows = committed

CompleteAccepted(p) ==
  \/ completedBy = end[p].id
  \/ /\ ~Complete /\ Finalized /\ session = "stopping"
     /\ Count(end[p].seen) = Count(committed)
     /\ rows = committed

(* The completion, and assertExactCompleteManifest on its answer. *)
CompleteEnd(p) ==
  /\ end[p].stage = "complete"
  /\ LET ok == CompleteAccepted(p)
     IN /\ completedBy' = IF ok /\ ~Complete THEN end[p].id ELSE completedBy
        /\ session' = IF ok /\ ~Complete THEN "processing" ELSE session
        /\ Answer(p, ok /\ rows = end[p].seen, "confirm")
  /\ UNCHANGED <<storeVars, rec, runtime, pump, deleter, rows, committed, answered, wire,
                 failures, crashes>>

ConfirmEnd(p) ==
  /\ end[p].stage = "confirm"
  /\ job' = IF HasJob /\ FrozenMatches(p) THEN [job EXCEPT !.status = "complete"] ELSE job
  /\ end' = EndStops(p)
  /\ UNCHANGED <<archive, pending, nextNo, requestId, checkpoint, receipt, lock, rec, runtime,
                 pump, deleter, serverVars, wire, boundVars>>

-----------------------------------------------------------------------------
(* Delivery                                                                *)

(* What a run does to the ending that waits for it. *)
Flushed(p, ok) ==
  CASE end[p].stage = "flushing" -> IF ok THEN EndAt(p, "check") ELSE EndStops(p)
    [] end[p].stage = "draining" -> EndStops(p)
    [] OTHER -> end

RunEnds(p, ok) == pump' = [pump EXCEPT ![p] = IdlePump] /\ end' = Flushed(p, ok)

(* What waits for a run: completeFrozenAudio, an interrupted runtime, nothing. *)
Waits(stage) ==
  CASE stage = "flush" -> "flushing" [] stage = "drain" -> "draining" [] OTHER -> stage

(* restore: the chunks that have a delivery row *)
Undelivered == [n \in SeqNos |-> IF n \in pending THEN archive[n] ELSE 0]

(* deliverPending: the chunks to deliver and the job are read once, and the *)
(* run goes by what it read.  A run that is active is joined.  Archive      *)
(* progress of the runtime starts one too.                                  *)
StartRun(p) ==
  /\ HasJob
  /\ \/ end[p].stage \in {"flush", "drain"}
     \/ runtime[p] # 0 /\ end[p].stage = "idle" /\ pending # {} /\ pump[p] = IdlePump
  /\ IF pump[p] = IdlePump /\ pending # {}
     THEN /\ pump' = [pump EXCEPT ![p] =
                        [stage |-> "next", todo |-> Undelivered, ids |-> requestId]]
          /\ end' = EndAt(p, Waits(end[p].stage))
     ELSE /\ pump' = pump
          /\ end' = IF pump[p] # IdlePump THEN EndAt(p, Waits(end[p].stage))
                    ELSE IF end[p].stage = "flush" THEN EndAt(p, "check") ELSE EndStops(p)
  /\ UNCHANGED <<storeVars, rec, runtime, deleter, serverVars, wire, boundVars>>

(* The flush of a job that is gone. *)
FlushWithoutJob(p) ==
  /\ end[p].stage \in {"flush", "drain"} /\ ~HasJob
  /\ end' = EndStops(p)
  /\ UNCHANGED <<storeVars, rec, runtime, pump, deleter, serverVars, wire, boundVars>>

Current(p) == Min(Present(pump[p].todo))

(* The request id is stored before the chunk is sent, and one that another  *)
(* page has stored meanwhile is kept.                                       *)
KeptId_Overwrites(p, n) == p

KeptId(p, n) == IF requestId[n] = NoPage THEN p ELSE requestId[n]

AssignId(p) ==
  /\ pump[p].stage = "next" /\ pump[p].ids[Current(p)] = NoPage
  /\ LET n == Current(p)
     IN IF HasJob
        THEN /\ requestId' = [requestId EXCEPT ![n] = KeptId(p, n)]
             /\ job' = [job EXCEPT !.status = "uploading"]
             /\ pump' = [pump EXCEPT ![p].ids = requestId']
             /\ end' = end
        ELSE UNCHANGED <<requestId, job>> /\ RunEnds(p, FALSE)
  /\ UNCHANGED <<archive, pending, nextNo, checkpoint, receipt, lock, rec, runtime, deleter,
                 serverVars, wire, boundVars>>

(* markUploading, which throws when the row is gone, and the request. *)
Send(p) ==
  /\ pump[p].stage = "next" /\ pump[p].ids[Current(p)] # NoPage
  /\ LET n == Current(p)
     IN IF n \in pending
        THEN /\ wire' = wire \cup {[page |-> p, no |-> n, chunk |-> pump[p].todo[n],
                                    id |-> pump[p].ids[n]]}
             /\ pump' = [pump EXCEPT ![p].stage = "wait"]
             /\ end' = end
        ELSE wire' = wire /\ RunEnds(p, FALSE)
  /\ UNCHANGED <<storeVars, rec, runtime, deleter, serverVars, boundVars>>

(* uploadChunk at the server: a stored answer is repeated; a first upload   *)
(* must lie in the commitment, once there is one, and the session must      *)
(* accept audio.                                                            *)
UploadAccepted(u) ==
  \/ <<u.no, u.id>> \in answered
  \/ /\ ~Complete /\ session \in {"recording", "stopping"}
     /\ Finalized => committed[u.no] = u.chunk
     /\ rows[u.no] \in {0, u.chunk}

(* What the pump makes of an answer: only an exact acknowledgement counts. *)
Verdict_AnyAnswer(ok) == "ack"

Verdict(ok) == IF ok THEN "ack" ELSE "fail"

(* The answer is given to the page if it still waits for it. *)
Waiting(u) == pump[u.page].stage = "wait" /\ Current(u.page) = u.no

Upload(u) ==
  LET ok == UploadAccepted(u)
      fresh == ok /\ <<u.no, u.id>> \notin answered
  IN /\ wire' = wire \ {u}
     /\ rows' = IF fresh THEN [rows EXCEPT ![u.no] = u.chunk] ELSE rows
     /\ answered' = IF fresh THEN answered \cup {<<u.no, u.id>>} ELSE answered
     /\ \/ /\ lost' = lost
           /\ pump' = IF Waiting(u)
                      THEN [pump EXCEPT ![u.page].stage = Verdict(ok)]
                      ELSE pump
        \/ /\ Waiting(u) /\ MayFail /\ lost' = lost + 1
           /\ pump' = [pump EXCEPT ![u.page].stage = "fail"]
     /\ UNCHANGED <<storeVars, rec, runtime, end, deleter, session, committed, completedBy,
                    failures, crashes>>

GiveUp(p) ==
  /\ pump[p].stage = "wait" /\ MayFail
  /\ lost' = lost + 1
  /\ pump' = [pump EXCEPT ![p].stage = "fail"]
  /\ UNCHANGED <<storeVars, rec, runtime, end, deleter, serverVars, wire, failures, crashes>>

(* acknowledge: the delivery row goes, the archive stays; a row that is     *)
(* gone already, or another chunk in the archive, is a failure.             *)
Acknowledge(p) ==
  /\ pump[p].stage = "ack"
  /\ LET n == Current(p)
         rest == [pump[p].todo EXCEPT ![n] = 0]
     IN IF n \in pending /\ archive[n] = pump[p].todo[n]
        THEN /\ pending' = pending \ {n}
             /\ IF rest = NoChunks THEN RunEnds(p, TRUE)
                ELSE /\ pump' = [pump EXCEPT ![p].stage = "next", ![p].todo = rest]
                     /\ end' = end
        ELSE pending' = pending /\ end' = end /\ pump' = [pump EXCEPT ![p].stage = "fail"]
  /\ UNCHANGED <<archive, nextNo, requestId, job, checkpoint, receipt, lock, rec, runtime,
                 deleter, serverVars, wire, boundVars>>

(* markFailed, which throws when the row is gone, and the failed job. *)
RecordFailure(p) ==
  /\ pump[p].stage = "fail"
  /\ job' = IF Current(p) \in pending /\ HasJob THEN [job EXCEPT !.status = "failed"] ELSE job
  /\ RunEnds(p, FALSE)
  /\ UNCHANGED <<archive, pending, nextNo, requestId, checkpoint, receipt, lock, rec, runtime,
                 deleter, serverVars, wire, boundVars>>

-----------------------------------------------------------------------------
(* Deletion of the local archive                                           *)

(* Neither active nor dirty, nothing pending. *)
DeletableJob == job.status = "complete" /\ job.stopped

Deletable ==
  /\ DeletableJob /\ checkpoint = "clean"
  /\ pending = {}
  /\ archive # NoChunks

(* delete takes the lock and inspects; an inspection that forbids the       *)
(* deletion releases it and changes nothing.                                *)
BeginDelete ==
  /\ deleter = IdleDelete /\ lock = NoPage /\ Deletable
  /\ lock' = Deleter
  /\ deleter' = [stage |-> "inspected", seen |-> archive]
  /\ UNCHANGED <<archive, pending, nextNo, requestId, job, checkpoint, receipt, rec, runtime,
                 pump, end, serverVars, wire, boundVars>>

(* verify: the session is past its stop and the manifest is the archive. *)
ServerHolds == Complete /\ session = "processing" /\ rows = deleter.seen

VerifyDelete ==
  /\ deleter.stage = "inspected"
  /\ IF ServerHolds
     THEN deleter' = [deleter EXCEPT !.stage = "verified"] /\ lock' = lock
     ELSE deleter' = IdleDelete /\ lock' = NoPage
  /\ UNCHANGED <<archive, pending, nextNo, requestId, job, checkpoint, receipt, rec, runtime,
                 pump, end, serverVars, wire, boundVars>>

(* deleteLocalArchive: everything is checked again in the transaction. *)
StillDeletable == Deletable /\ archive = deleter.seen

CommitDelete ==
  /\ deleter.stage = "verified"
  /\ IF StillDeletable
     THEN /\ archive' = NoChunks /\ pending' = {} /\ nextNo' = 0 /\ requestId' = NoIds
          /\ job' = NoJob /\ checkpoint' = "none" /\ receipt' = TRUE
     ELSE UNCHANGED <<archive, pending, nextNo, requestId, job, checkpoint, receipt>>
  /\ deleter' = IdleDelete /\ lock' = NoPage
  /\ UNCHANGED <<rec, runtime, pump, end, serverVars, wire, boundVars>>

-----------------------------------------------------------------------------
(* A page is closed or reloaded: what was in its memory is gone, the lock   *)
(* is free.  What it has sent may still arrive.                             *)
Crash(p) ==
  /\ crashes < MaxCrashes
  /\ crashes' = crashes + 1
  /\ rec' = [r \in Recordings |->
               IF rec[r].page = p THEN [Unused EXCEPT !.state = "done", !.page = p] ELSE rec[r]]
  /\ runtime' = [runtime EXCEPT ![p] = 0]
  /\ pump' = [pump EXCEPT ![p] = IdlePump]
  /\ end' = EndStops(p)
  /\ lock' = Freed(p)
  /\ UNCHANGED <<archive, pending, nextNo, requestId, job, checkpoint, receipt, deleter,
                 serverVars, wire, failures, lost>>

-----------------------------------------------------------------------------
RecorderSteps == \E r \in Recordings :
  \/ Accept(r) \/ Persist(r) \/ PersistFails(r) \/ DeviceFails(r) \/ LastBlob(r) \/ Close(r)

StartStep == \E p \in Pages, r \in Recordings : StartRecording(p, r)

EndSteps(p) ==
  \/ BeginEnd(p) \/ ReadArchive(p) \/ FreezeJob(p) \/ SubmitEnd(p) \/ CheckJob(p)
  \/ CompleteEnd(p) \/ ConfirmEnd(p)

RunSteps(p) ==
  \/ StartRun(p) \/ FlushWithoutJob(p) \/ AssignId(p) \/ Send(p) \/ Acknowledge(p)
  \/ RecordFailure(p)

ServerStep == \E u \in wire : Upload(u)

DeleteSteps == BeginDelete \/ VerifyDelete \/ CommitDelete

Next ==
  \/ StartStep \/ RecorderSteps \/ ServerStep \/ DeleteSteps
  \/ \E p \in Pages :
       \/ DropRuntime(p) \/ Verify(p) \/ Recover(p) \/ EndSteps(p) \/ RunSteps(p)
       \/ RequestLost(p) \/ GiveUp(p) \/ Crash(p)

Spec == Init /\ [][Next]_vars

-----------------------------------------------------------------------------
(* Properties                                                              *)

JobRecords ==
  [status : {"none", "recording", "uploading", "failed", "completing", "complete"},
   expected : -1 .. MaxChunks, stopped : BOOLEAN, id : Ids]
RecRecords ==
  [state : {"unused", "recording", "tail", "closed", "done"}, page : Ids,
   first : 0 .. MaxChunks, next : 0 .. MaxChunks, chain : Seq(SeqNos), broken : BOOLEAN,
   failing : BOOLEAN, stopping : BOOLEAN, interrupted : BOOLEAN]
PumpRecords ==
  [stage : {"idle", "next", "wait", "ack", "fail"}, todo : ChunkMap, ids : [SeqNos -> Ids]]
EndRecords ==
  [stage : {"idle", "stopping", "interrupting", "read", "freeze", "submit", "flush", "flushing",
            "drain", "draining", "check", "complete", "confirm"},
   seen : ChunkMap, id : Ids]
UploadRecords == [page : Pages, no : SeqNos, chunk : Recordings, id : Pages]

TypeOK ==
  /\ archive \in ChunkMap /\ pending \subseteq Present(archive)
  /\ nextNo \in 0 .. MaxChunks /\ requestId \in [SeqNos -> Ids] /\ job \in JobRecords
  /\ checkpoint \in {"none", "dirty", "clean"} /\ receipt \in BOOLEAN
  /\ lock \in Ids \cup {Deleter}
  /\ rec \in [Recordings -> RecRecords] /\ runtime \in [Pages -> 0 .. MaxRecordings]
  /\ pump \in [Pages -> PumpRecords] /\ end \in [Pages -> EndRecords]
  /\ deleter \in [stage : {"idle", "inspected", "verified"}, seen : ChunkMap]
  /\ session \in {"ready", "recording", "interrupted", "stopping", "processing"}
  /\ rows \in ChunkMap /\ committed \in ChunkMap /\ completedBy \in Ids
  /\ answered \subseteq SeqNos \X Pages /\ wire \subseteq UploadRecords
  /\ failures \in 0 .. MaxTrouble /\ lost \in 0 .. MaxTrouble /\ crashes \in 0 .. MaxCrashes

(* A chunk leaves the delivery queue, or the archive of the browser, only   *)
(* when the server holds that very chunk, whatever is lost, repeated or     *)
(* raced by another page.                                                   *)
NothingLost ==
  [][\A n \in Present(archive) :
       (archive'[n] = 0 \/ (n \in pending /\ n \notin pending')) => rows'[n] = archive[n]]_vars

(* All uploads of a chunk carry one request id, so that the server can tell *)
(* a repetition, in spite of several pages that assign ids.                 *)
OneRequestPerChunk ==
  LET sent == answered \cup {<<u.no, u.id>> : u \in wire}
  IN \A u, v \in sent : u[1] = v[1] => u = v

(* While no capture fails, two pages of a browser never append to the same  *)
(* session at once, not even the last chunk of one that is stopped.         *)
OneRecorder ==
  failures = 0 =>
    \A r, q \in Recordings :
      {rec[r].state, rec[q].state} \subseteq {"recording", "tail"} => rec[r].page = rec[q].page

(* While no capture fails, a frozen job counts the whole archive and no     *)
(* recorder still writes.                                                   *)
FrozenIsWhole ==
  failures = 0 /\ job.expected >= 0 =>
    /\ Present(archive) = 0 .. (job.expected - 1)
    /\ \A r \in Recordings : rec[r].state \in {"unused", "done"}

(* A clean checkpoint, on which the deletion of the archive relies, means   *)
(* that every chunk the last recorder took a number for is in the archive,  *)
(* in spite of failed writes and of recorders of the page that were dropped *)
(* before they had written everything.                                      *)
CleanMeansWritten ==
  LET started == {r \in Recordings : rec[r] # Unused}
  IN checkpoint = "clean" /\ started # {} =>
       LET r == Max(started)
       IN \A n \in rec[r].first .. (rec[r].next - 1) : archive[n] = r

(* While no capture fails, a frozen recording is brought to completion,     *)
(* provided that the page keeps ending it.                                  *)
Fairness ==
  /\ \A p \in Pages : WF_vars(EndSteps(p)) /\ WF_vars(RunSteps(p))
  /\ WF_vars(ServerStep)
  /\ \A r \in Recordings : WF_vars(Persist(r)) /\ WF_vars(LastBlob(r)) /\ WF_vars(Close(r))

FairSpec == Spec /\ Fairness

FrozenIsCompleted ==
  Finalized ~> (job.status \in {"complete", "none"} \/ failures > 0)
=============================================================================
