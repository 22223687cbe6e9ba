----------------------------- MODULE AsrAttempts -----------------------------
(***************************************************************************)
(* The streaming ASR adapter of one interview session, with the callbacks  *)
(* the gateway gives it and the ingestion of its results.                  *)
(*                                                                         *)
(* Each call of open makes an adapter session with an attempt; a failed    *)
(* attempt is replaced, a bounded number of times, by one with a provider  *)
(* voice and a speaker stream of its own.  Frames wait in the queue of the *)
(* attempt and leave in pairs; a result of the provider is checked,        *)
(* ingested by a transaction and checked again before it is published.     *)
(* drainAndClose asks for the end and waits until everything is accounted  *)
(* for; what cannot be is a coverage gap.                                  *)
(*                                                                         *)
(* A frame is its number, a result its attempt and its sentence.  Interim  *)
(* results, which are never stored, are left out, and the pacing of the    *)
(* packets; the two senders that a drain begun before the provider is      *)
(* ready may start are one.  The budget ledger is what this session's      *)
(* attempts hold of it; other sessions and the daily limits are a refusal  *)
(* that may happen at any connect.                                         *)
(***************************************************************************)
EXTENDS Integers, Sequences, FiniteSets, SequencesExt

CONSTANTS Opens,       \* 1 .. n: runtimes created for the session, in order
          Attempts,    \* 1 .. n: provider connections, in order
          MaxFrames,   \* frames of the capture
          MaxQueue,    \* MAX_BUFFERED_FRAMES (20)
          MaxRetries,  \* ASR_RECONNECT_MAX_ATTEMPTS (2)
          Sentences,   \* final sentences of one attempt
          MaxFaults    \* failures, restarts, revocations

VARIABLES
  ses,       \* TencentSession of every open, with its retry in progress
  att,       \* TencentAttempt objects
  map,       \* the open whose session is in the adapter's map, 0 for none
  rtm,       \* the runtime of every open: speaker stream and bound attempt
  runtime,   \* the runtime RealtimeRuntimeService holds, 0 for none
  streams,   \* speaker_streams: how many rows there are and which one is active
  next,      \* nextAudioSequence: frames recorded by the runtime
  stored,    \* transcript_segments
  published, \* results published by the gateway
  slots,     \* activeConnections taken by this session
  drain,     \* the finalization's transcript status
  ingestible,\* the session and its consent still allow ingestion
  faults
vars == <<ses, att, map, rtm, runtime, streams, next, stored, published, slots, drain, ingestible, faults>>

None == 0
EvidenceLost == -1       \* a gap without frame numbers
NoSession == [active |-> None, closed |-> TRUE, gaps |-> {}, tries |-> 0, retry |-> "none", to |-> None, lost |-> FALSE]
NoAttempt == [of |-> None, stream |-> None, accepted |-> -1, terminal |-> -1, queue |-> <<>>, sending |-> <<>>,
              ready |-> FALSE, failed |-> FALSE, ending |-> FALSE, endSent |-> FALSE, final |-> FALSE,
              released |-> FALSE, took |-> {},   \* history: the frames it took
              results |-> [s \in Sentences |-> "none"]]

Init ==
  /\ ses = [o \in Opens |-> NoSession]
  /\ att = [a \in Attempts |-> NoAttempt]
  /\ map = None /\ runtime = None
  /\ rtm = [o \in Opens |-> [stream |-> None, bound |-> None]]
  /\ streams = [made |-> 0, active |-> None]
  /\ next = 0 /\ stored = {} /\ published = {} /\ slots = 0
  /\ drain = "no" /\ ingestible = TRUE /\ faults = 0

----------------------------------------------------------------------------
First(S) == CHOOSE x \in S : \A y \in S : x <= y
Made == {a \in Attempts : att[a].of # None}
Unmade == Attempts \ Made
Unopened == {o \in Opens : ses[o] = NoSession}
Session(a) == ses[att[a].of]
\* isCurrent of the adapter.
Current(a) == a \in Made /\ ~Session(a).closed /\ ~att[a].failed /\ Session(a).active = a
BoundNow(a) == LET o == att[a].of IN runtime = o /\ rtm[o].bound = a /\ rtm[o].stream = att[a].stream
Unsent(a) == att[a].terminal + 1 .. att[a].accepted

StreamRotated == [made |-> streams.made + 1, active |-> streams.made + 1]

Freed(a) == IF a # None /\ ~att[a].released THEN 1 ELSE 0
Fenced(a) == IF a = None THEN att ELSE [att EXCEPT ![a].failed = TRUE, ![a].released = TRUE]

\* markCoverageGap and addGap.  A session no longer in the map takes none.
Marked(o, gap) == IF o = None THEN ses ELSE [ses EXCEPT ![o].gaps = @ \cup gap]

----------------------------------------------------------------------------
(* open and startAttempt.                                                   *)

Begun(attempts, a, o, stream) == [attempts EXCEPT ![a] = [NoAttempt EXCEPT !.of = o, !.stream = stream]]

Cancelled(o) ==
  [ses EXCEPT ![o].closed = TRUE, ![o].gaps = @ \cup IF ses[o].active = None THEN {} ELSE Unsent(ses[o].active)]

\* Fault: every open begins with a clean record.
Inherited_None(o) == {}
Inherited(o) == IF o = None THEN {} ELSE Cancelled(o)[o].gaps

\* A join that creates a runtime opens the adapter: the old session is cancelled, the first attempt
\* of the new one takes a slot and is bound.  Without a slot open throws.
Open ==
  /\ drain = "no" /\ Unopened # {} /\ Unmade # {}
  /\ LET o == First(Unopened)
         a == First(Unmade)
         old == IF map = None THEN None ELSE ses[map].active
         opened == [NoSession EXCEPT !.closed = FALSE, !.gaps = Inherited(map)]
         cancelled == IF map = None THEN ses ELSE Cancelled(map)
         stream == StreamRotated.active
     IN  /\ streams' = StreamRotated /\ map' = o /\ runtime' = o
         /\ \/ /\ ses' = [cancelled EXCEPT ![o] = [opened EXCEPT !.active = a, !.lost = runtime = None /\ next > 0]]
               /\ att' = Begun(Fenced(old), a, o, stream)
               /\ rtm' = [rtm EXCEPT ![o] = [stream |-> stream, bound |-> a]]
               /\ slots' = slots - Freed(old) + 1
               /\ UNCHANGED faults
            \/ /\ faults < MaxFaults /\ faults' = faults + 1
               /\ ses' = [cancelled EXCEPT ![o] = opened]
               /\ att' = Fenced(old)
               /\ rtm' = [rtm EXCEPT ![o].stream = stream]
               /\ slots' = slots - Freed(old)
  /\ UNCHANGED <<next, stored, published, drain, ingestible>>

\* The first message with code 0 makes the attempt ready; the open that made it returns and
\* the gateway marks the evidence a restart lost.
Ready(a) ==
  /\ Current(a) /\ ~att[a].ready
  /\ att' = [att EXCEPT ![a].ready = TRUE]
  /\ ses' = IF Session(a).lost /\ Session(a).tries = 0
            THEN [Marked(att[a].of, {EvidenceLost}) EXCEPT ![att[a].of].lost = FALSE]
            ELSE ses
  /\ UNCHANGED <<map, rtm, runtime, streams, next, stored, published, slots, drain, ingestible, faults>>

MayRetry(s) == s.tries < MaxRetries

\* handleConnectionFailure: only of the current attempt.
AfterFailure(a, retryable) ==
  LET s == Session(a)
      again == retryable /\ MayRetry(s)
  IN  [ses EXCEPT ![att[a].of] = [s EXCEPT !.gaps = @ \cup Unsent(a),
                                           !.tries = IF again THEN @ + 1 ELSE @,
                                           !.retry = IF again THEN "rotating" ELSE @]]
Failed(a, attempts, retryable) ==
  IF Current(a)
  THEN /\ att' = [attempts EXCEPT ![a].failed = TRUE, ![a].released = TRUE]
       /\ ses' = AfterFailure(a, retryable)
       /\ slots' = slots - Freed(a)
  ELSE att' = attempts /\ UNCHANGED <<ses, slots>>

\* The classes of errors, and whether a new attempt may help.
Retryable == [auth |-> FALSE, engine |-> FALSE, quota |-> FALSE, rate_limit |-> TRUE, audio |-> FALSE,
              timeout |-> TRUE, provider |-> TRUE, network |-> TRUE, protocol |-> FALSE]

\* A connect or ready timeout, an error of the provider or the network, a message that is not
\* the protocol's.
ConnectionFails(a) ==
  /\ Current(a) /\ faults < MaxFaults /\ faults' = faults + 1
  /\ \E class \in DOMAIN Retryable : Failed(a, att, Retryable[class])
  /\ UNCHANGED <<map, rtm, runtime, streams, next, stored, published, drain, ingestible>>

\* The retry: the runtime's speaker stream is rotated in a transaction, whoever owns the active one.
Rotate(o) ==
  /\ ses[o].retry = "rotating"
  /\ ses' = [ses EXCEPT ![o].retry = "backoff", ![o].to = StreamRotated.active]
  /\ rtm' = [rtm EXCEPT ![o].stream = StreamRotated.active]
  /\ streams' = StreamRotated
  /\ UNCHANGED <<att, map, runtime, next, stored, published, slots, drain, ingestible, faults>>

\* After the backoff a session that was closed meanwhile, or finds no slot, gives the retry up.
StartAgain(o) ==
  /\ ses[o].retry = "backoff" /\ Unmade # {}
  /\ \/ /\ ~ses[o].closed
        /\ LET a == First(Unmade)
           IN  /\ att' = Begun(att, a, o, ses[o].to)
               /\ ses' = [ses EXCEPT ![o].active = a, ![o].retry = "none"]
               /\ rtm' = [rtm EXCEPT ![o].bound = a, ![o].stream = ses[o].to]
               /\ slots' = slots + 1
               /\ UNCHANGED faults
     \/ /\ \/ ses[o].closed /\ UNCHANGED faults
           \/ ~ses[o].closed /\ faults < MaxFaults /\ faults' = faults + 1
        /\ ses' = [ses EXCEPT ![o].retry = "none"]
        /\ UNCHANGED <<att, rtm, slots>>
  /\ UNCHANGED <<map, runtime, streams, next, stored, published, drain, ingestible>>

----------------------------------------------------------------------------
(* Frames.                                                                  *)

\* acceptAndPersist: the runtime records the frame once the adapter has taken it, a failed attempt
\* takes it as a gap.  If the evidence of the first frame cannot be written, it is not recorded.
Accept ==
  LET o == map
      a == ses[o].active
      full == ~att[a].failed /\ Len(att[a].queue) >= MaxQueue
  IN  /\ runtime # None /\ next < MaxFrames /\ drain = "no" /\ map # None
      /\ ~ses[o].closed /\ a # None /\ ~att[a].ending /\ ~full
      /\ att' = [att EXCEPT ![a].accepted = next, ![a].took = @ \cup {next},
                            ![a].queue = IF att[a].failed THEN @ ELSE Append(@, next)]
      /\ \/ /\ next' = next + 1 /\ UNCHANGED faults
            /\ ses' = IF att[a].failed THEN Marked(o, {next}) ELSE ses
         \/ /\ next = 0 /\ faults < MaxFaults /\ faults' = faults + 1
            /\ ses' = Marked(o, {next}) /\ UNCHANGED next
      /\ UNCHANGED <<map, rtm, runtime, streams, stored, published, slots, drain, ingestible>>

\* The adapter throws, or its queue stays full for the 250 ms: the gateway marks the gap.
Refuse ==
  LET o == map
      a == IF o = None THEN None ELSE ses[o].active
  IN  /\ runtime # None /\ next < MaxFrames /\ drain = "no"
      /\ \/ o = None
         \/ ses[o].closed
         \/ a = None
         \/ a # None /\ ~att[a].failed /\ Len(att[a].queue) >= MaxQueue
      /\ o # None => next \notin ses[o].gaps   \* a repetition changes nothing
      /\ ses' = Marked(o, {next})
      /\ UNCHANGED <<att, map, rtm, runtime, streams, next, stored, published, slots, drain, ingestible, faults>>

\* pump sends pairs; flushAll of a drain also the odd frame that is left.
Send(a) ==
  LET n == IF att[a].ending /\ Len(att[a].queue) = 1 THEN 1 ELSE 2
  IN  /\ Current(a) /\ att[a].ready /\ att[a].sending = <<>> /\ Len(att[a].queue) >= n
      /\ att' = [att EXCEPT ![a].sending = SubSeq(att[a].queue, 1, n),
                            ![a].queue = SubSeq(@, n + 1, Len(@))]
      /\ UNCHANGED <<ses, map, rtm, runtime, streams, next, stored, published, slots, drain, ingestible, faults>>

\* The packet is out, whatever became of the attempt meanwhile.  sentBytes grows again, which
\* unmarks an attempt that was released during the call.
SendDone(a) ==
  /\ att[a].sending # <<>>
  /\ att' = [att EXCEPT ![a].terminal = Last(att[a].sending), ![a].sending = <<>>, ![a].released = FALSE]
  /\ UNCHANGED <<ses, map, rtm, runtime, streams, next, stored, published, slots, drain, ingestible, faults>>

SendFails(a) ==
  /\ att[a].sending # <<>> /\ (att[a].failed \/ faults < MaxFaults)
  /\ faults' = IF att[a].failed THEN faults ELSE faults + 1
  /\ Failed(a, [att EXCEPT ![a].sending = <<>>], TRUE)
  /\ UNCHANGED <<map, rtm, runtime, streams, next, stored, published, drain, ingestible>>

----------------------------------------------------------------------------
(* Results.                                                                 *)

\* The gateway's first check decides whether a result goes to the ingestion.
Received(a) == IF BoundNow(a) THEN "ingesting" ELSE "dropped"

\* handleMessage with a final sentence not seen before.
Deliver(a, s) ==
  /\ Current(a) /\ att[a].ready /\ att[a].terminal >= 0 /\ ~att[a].final
  /\ att[a].results[s] = "none"
  /\ att' = [att EXCEPT ![a].results[s] = Received(a)]
  /\ UNCHANGED <<ses, map, rtm, runtime, streams, next, stored, published, slots, drain, ingestible, faults>>

\* A result is known by the voice of its attempt and the number of its sentence.
IngestKey(a, s) == <<a, s>>

\* The transaction: the session takes results and the speaker stream is the active one.
Allowed(a) == ingestible /\ streams.active = att[a].stream
Ingest(a, s) ==
  /\ att[a].results[s] = "ingesting" /\ Allowed(a)
  /\ stored' = stored \cup {IngestKey(a, s)}
  /\ att' = [att EXCEPT ![a].results[s] = "stored"]
  /\ UNCHANGED <<ses, map, rtm, runtime, streams, next, published, slots, drain, ingestible, faults>>

\* A refusal, or a failed transaction, fails the attempt.
IngestFails(a, s) ==
  /\ att[a].results[s] = "ingesting"
  /\ IF Allowed(a) THEN faults < MaxFaults /\ faults' = faults + 1 ELSE UNCHANGED faults
  /\ Failed(a, [att EXCEPT ![a].results[s] = "refused"], TRUE)
  /\ UNCHANGED <<map, rtm, runtime, streams, next, stored, published, drain, ingestible>>

\* The second check, after the transaction: asr.final is published and the orchestration told.
Publish(a, s) ==
  /\ att[a].results[s] = "stored"
  /\ att' = [att EXCEPT ![a].results[s] = "done"]
  /\ published' = IF BoundNow(a) THEN published \cup {IngestKey(a, s)} ELSE published
  /\ UNCHANGED <<ses, map, rtm, runtime, streams, next, stored, slots, drain, ingestible, faults>>

----------------------------------------------------------------------------
(* drainAndClose and cancel.                                                *)

InFlight(a) == {s \in Sentences : att[a].results[s] \in {"ingesting", "stored"}}
Degraded == drain' = "degraded"

\* advanceOnce drains only for a live runtime that recorded a frame, once no retry is in progress.
Drain ==
  /\ drain = "no" /\ runtime # None /\ next > 0
  /\ IF map = None \/ ses[map].closed THEN Degraded /\ UNCHANGED att
     ELSE /\ ses[map].retry = "none"
          /\ IF ses[map].active = None \/ att[ses[map].active].failed THEN Degraded /\ UNCHANGED att
             ELSE drain' = "draining" /\ att' = [att EXCEPT ![ses[map].active].ending = TRUE]
  /\ UNCHANGED <<ses, map, rtm, runtime, streams, next, stored, published, slots, ingestible, faults>>

SendEnd(a) ==
  /\ Current(a) /\ att[a].ending /\ att[a].ready /\ ~att[a].endSent
  /\ att[a].queue = <<>> /\ att[a].sending = <<>>
  /\ att' = [att EXCEPT ![a].endSent = TRUE]
  /\ UNCHANGED <<ses, map, rtm, runtime, streams, next, stored, published, slots, drain, ingestible, faults>>

\* final = 1 of the provider answers the end; the message may hold a last sentence, which is
\* taken after the flag is set.
Final(a) ==
  /\ Current(a) /\ att[a].endSent /\ ~att[a].final
  /\ \E last \in SUBSET {s \in Sentences : att[a].results[s] = "none" /\ att[a].terminal >= 0} :
       /\ Cardinality(last) <= 1
       /\ att' = [att EXCEPT ![a].final = TRUE,
                             ![a].results = [s \in Sentences |-> IF s \in last THEN Received(a) ELSE @[s]]]
  /\ UNCHANGED <<ses, map, rtm, runtime, streams, next, stored, published, slots, drain, ingestible, faults>>

\* waitForDrain.
\* Fault: the drain does not wait for the results that are being ingested.
Settled_Final(a) == att[a].endSent /\ att[a].final /\ att[a].terminal = att[a].accepted
Settled(a) == att[a].endSent /\ att[a].final /\ att[a].terminal = att[a].accepted /\ InFlight(a) = {}

\* The receipt and the aggregate over all attempts decide the transcript status.
Drained(a) ==
  /\ drain = "draining" /\ Current(a) /\ att[a].ending /\ Settled(a)
  /\ ses' = [ses EXCEPT ![att[a].of].closed = TRUE]
  /\ att' = [att EXCEPT ![a].released = TRUE]
  /\ slots' = slots - Freed(a)
  /\ drain' = IF Session(a).gaps = {} /\ att[a].accepted >= next - 1 THEN "drained" ELSE "degraded"
  /\ UNCHANGED <<map, rtm, runtime, streams, next, stored, published, ingestible, faults>>

\* The deadline of the wait, a packet of the flush that fails, a lost connection or a cancel end the
\* drain: what was not sent is a gap.  A retry the failure began may have made another attempt.
DrainFails(a) ==
  LET o == att[a].of
      given == att[a].failed \/ ses[o].closed
  IN  /\ drain = "draining" /\ att[a].ending
      /\ given \/ (faults < MaxFaults /\ IF att[a].endSent THEN ~Settled(a) ELSE att[a].sending # <<>>)
      /\ faults' = IF given THEN faults ELSE faults + 1
      /\ ses' = [ses EXCEPT ![o].closed = TRUE, ![o].gaps = @ \cup IF att[a].failed THEN {} ELSE Unsent(a)]
      /\ att' = [Fenced(a) EXCEPT ![a].sending = <<>>]
      /\ slots' = slots - Freed(a)
      /\ drain' = "degraded"
      /\ UNCHANGED <<map, rtm, runtime, streams, next, stored, published, ingestible>>

\* The access is revoked or the session ends: the gateway cancels, ingestion is refused from now on.
Revoke ==
  /\ ingestible /\ faults < MaxFaults
  /\ ingestible' = FALSE /\ faults' = faults + 1
  /\ UNCHANGED <<ses, att, map, rtm, runtime, streams, next, stored, published, slots, drain>>

Cancel ==
  /\ map # None /\ ~ingestible /\ ~ses[map].closed
  /\ ses' = Cancelled(map)
  /\ att' = Fenced(ses[map].active)
  /\ slots' = slots - Freed(ses[map].active)
  /\ UNCHANGED <<map, rtm, runtime, streams, next, stored, published, drain, ingestible, faults>>

\* A restart loses the adapter, the runtimes and the ledger; transactions under way are undone.
Restart ==
  /\ map # None /\ drain \in {"no", "draining"} /\ faults < MaxFaults /\ faults' = faults + 1
  /\ map' = None /\ runtime' = None /\ slots' = 0
  /\ ses' = [o \in Opens |-> IF o \in Unopened THEN ses[o] ELSE [NoSession EXCEPT !.lost = TRUE]]
  /\ att' = [a \in Attempts |-> IF a \in Made THEN [NoAttempt EXCEPT !.of = att[a].of, !.stream = att[a].stream,
                                                                     !.failed = TRUE, !.released = TRUE]
                                ELSE att[a]]
  /\ drain' = IF drain = "draining" THEN "degraded" ELSE drain
  /\ UNCHANGED <<rtm, streams, next, stored, published, ingestible>>

Next ==
  \/ Open \/ Accept \/ Refuse \/ Drain \/ Revoke \/ Cancel \/ Restart
  \/ \E o \in Opens : Rotate(o) \/ StartAgain(o)
  \/ \E a \in Attempts :
       \/ Ready(a) \/ ConnectionFails(a) \/ Send(a) \/ SendDone(a) \/ SendFails(a)
       \/ SendEnd(a) \/ Final(a) \/ Drained(a) \/ DrainFails(a)
       \/ \E s \in Sentences : Deliver(a, s) \/ Ingest(a, s) \/ IngestFails(a, s) \/ Publish(a, s)

Spec == Init /\ [][Next]_vars

----------------------------------------------------------------------------
TypeOK ==
  /\ \A o \in Opens :
       /\ ses[o].active \in {None} \cup Made
       /\ ses[o].gaps \subseteq -1 .. MaxFrames - 1
       /\ ses[o].tries \in 0 .. MaxRetries
       /\ ses[o].retry \in {"none", "rotating", "backoff"}
  /\ \A a \in Attempts :
       /\ att[a].of \in {None} \cup Opens
       /\ att[a].accepted \in -1 .. MaxFrames - 1
       /\ Len(att[a].queue) <= MaxQueue /\ Len(att[a].sending) <= 2
       /\ \A s \in Sentences : att[a].results[s] \in {"none", "dropped", "ingesting", "stored", "refused", "done"}
  /\ map \in {None} \cup Opens /\ runtime \in {None} \cup Opens
  /\ streams.active <= streams.made
  /\ next \in 0 .. MaxFrames
  /\ published \subseteq stored /\ stored \subseteq Attempts \X Sentences
  /\ drain \in {"no", "draining", "drained", "degraded"}

\* A frame the adapter took is waiting in a live attempt, was sent, or is in the coverage gaps of the
\* session the adapter holds now, whatever ended the attempt and however often the adapter was opened
\* again (completeness never claims a frame that was dropped).
AccountedPcm ==
  \A a \in Made : \A n \in att[a].took \ 0 .. att[a].terminal :
    \/ Current(a) /\ (Contains(att[a].queue, n) \/ Contains(att[a].sending, n))
    \/ map # None /\ n \in ses[map].gaps

\* A transcript is only called drained when every result the drained attempt received was stored and
\* published, also those the provider sent with or just before its final.
DrainedIsIngested ==
  drain = "drained" =>
    \A a \in Made : ses[map].active = a =>
      \A s \in Sentences : att[a].results[s] = "none" \/ <<a, s>> \in stored \cap published

=============================================================================
