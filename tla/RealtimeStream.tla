---------------------------- MODULE RealtimeStream ----------------------------
(***************************************************************************)
(* The realtime path of one capture generation: the page's                 *)
(* RealtimeTranscriptionTransport, its WebSockets, RealtimeGateway and     *)
(* RealtimeRuntimeService.  PCM frames go up and are acknowledged, server  *)
(* events come down numbered and are kept in a window from which a         *)
(* reconnected page is caught up.                                          *)
(*                                                                         *)
(* Every connection has a causal queue of its own until its join is done;  *)
(* from then on its messages go to the queue of the runtime, which is the  *)
(* queue of the connection that created it.  A lane is such a queue: one   *)
(* task at a time, interleaved with the other lanes at each of its awaits. *)
(*                                                                         *)
(* Audio is the number of its frame; an event is its kind and the highest  *)
(* frame it acknowledges.  The ASR adapter is reduced to what a frame gets *)
(* from it: accepted, accepted and then failed by the deadline or by the   *)
(* evidence, or refused.  session.ready stands for itself and the          *)
(* calibration event appended with it; heartbeats and event                *)
(* acknowledgements only for the access check they make.                   *)
(***************************************************************************)
EXTENDS Integers, Sequences, FiniteSets

CONSTANTS Sockets,     \* 1 .. n: the sockets the page may open, in order
          MaxFrames,   \* frames the recorder produces
          MaxPending,  \* MAX_PENDING_FRAMES of the page (20)
          MaxAttempts, \* number of reconnect delays (3)
          Window,      \* MAX_EVENTS the runtime keeps (512)
          MaxNotices,  \* finals, suggestions and statuses published
          MaxFaults    \* lost connections, restarts, failed adapter or evidence calls

NoSocket == 0
ASSUME SocketAssumption == Sockets \subseteq Nat \ {NoSocket}
ASSUME BoundAssumption == {MaxFrames, Window} \subseteq Nat

Runtimes == Sockets      \* a runtime is named after the connection that created it
Idle     == [at |-> "idle"]

VARIABLES
  page,    \* RealtimeTranscriptionTransport
  down,    \* messages on their way to the socket of the page
  conn,    \* ConnectionState of every socket
  lane,    \* queued messages of every causal queue
  task,    \* the message a lane is working on
  rt,      \* SessionRuntime objects
  current, \* RealtimeRuntimeService.sessions: the runtime of the session, or none
  mode,    \* what RealtimeAccessService allows: produce, resume-only or none
  fed,     \* history: the frames the adapter accepted, in order
  notices, faults
vars == <<page, down, conn, lane, task, rt, current, mode, fed, notices, faults>>

NoRuntime == [events |-> <<>>, kept |-> 0, producer |-> NoSocket, lease |-> 0,
              subscriber |-> NoSocket, next |-> 0, top |-> 0]

Init ==
  /\ page = [st |-> "waiting", sock |-> NoSocket, opened |-> 0, stream |-> NoSocket, seen |-> <<>>,
             acked |-> 0, next |-> 0, attempts |-> 0, failure |-> "none"]
  /\ down = <<>>
  /\ conn = [c \in Sockets |-> [open |-> FALSE, rt |-> NoSocket]]
  /\ lane = [l \in Sockets |-> <<>>]
  /\ task = [l \in Sockets |-> Idle]
  /\ rt = [r \in Runtimes |-> NoRuntime]
  /\ current = NoSocket
  /\ mode = "produce"
  /\ fed = <<>> /\ notices = 0 /\ faults = 0

----------------------------------------------------------------------------
(* Events of a runtime and the way to the page.                             *)

Event(kind, ack) == [kind |-> kind, ack |-> ack]
Numbered(r, i, e) == [stream |-> r, seq |-> i, event |-> e]
\* An error sent before the connection has a runtime: a stream of its own, number 0.
Refusal(code) == Numbered(NoSocket, 0, Event(code, -1))

Appended(run, e) ==
  LET log == Append(run.events, e)
  IN  [run EXCEPT !.events = log, !.kept = IF Len(log) - Window > @ THEN Len(log) - Window ELSE @]
Newest(r, run) == <<Numbered(r, Len(run.events) - 1, run.events[Len(run.events)])>>
ReplayAfter(r, seen, upto) == [i \in 1 .. upto - seen |-> Numbered(r, seen + i - 1, rt[r].events[seen + i])]

\* sendStored: only an open socket takes a message, and only the page's own reaches it.
Sent(c, msgs) == IF c # NoSocket /\ page.sock = c /\ conn[c].open THEN down \o msgs ELSE down

Released(run, c) ==
  IF run.producer = c
  THEN [run EXCEPT !.producer = NoSocket, !.lease = @ + 1, !.subscriber = NoSocket]
  ELSE run
Claimed(run, c) == [run EXCEPT !.producer = c, !.lease = @ + 1, !.subscriber = c]

Joined(c) == conn[c].rt # NoSocket
LaneOf(c) == IF Joined(c) THEN conn[c].rt ELSE c
Frame(c, n) == [conn |-> c, kind |-> "frame", n |-> n]
Join(c)     == [conn |-> c, kind |-> "join", n |-> Len(page.seen), stream |-> page.stream]
Enqueued(c, msgs) == IF c # NoSocket /\ conn[c].open THEN [lane EXCEPT ![LaneOf(c)] = @ \o msgs] ELSE lane

----------------------------------------------------------------------------
(* The page.                                                                *)

SocketOpens ==
  LET c == page.opened + 1
  IN  /\ page.st = "waiting" /\ c \in Sockets
      /\ page' = [page EXCEPT !.st = "open", !.sock = c, !.opened = c]
      /\ conn' = [conn EXCEPT ![c].open = TRUE]
      /\ lane' = [lane EXCEPT ![c] = <<Join(c)>>]
      /\ UNCHANGED <<down, task, rt, current, mode, fed, notices, faults>>

\* A frame is kept as pending and sent if the socket is open, whether it has joined or not.
SendFrame ==
  /\ page.st # "terminal"
  /\ page.next - page.acked < MaxPending /\ page.next < MaxFrames
  /\ page' = [page EXCEPT !.next = @ + 1]
  /\ lane' = Enqueued(page.sock, <<Frame(page.sock, page.next)>>)
  /\ UNCHANGED <<down, conn, task, rt, current, mode, fed, notices, faults>>

Terminal(failure) == [page EXCEPT !.st = "terminal", !.sock = NoSocket, !.failure = failure]
ScheduledReconnect ==
  IF page.attempts >= MaxAttempts THEN Terminal("REALTIME_UNAVAILABLE")
  ELSE [page EXCEPT !.st = "waiting", !.sock = NoSocket, !.attempts = @ + 1]

\* The page's socket closes without a verdict; the server may not know yet.
SocketLost ==
  LET gone == ~conn[page.sock].open /\ down = <<>>
  IN  /\ page.st = "open"
      /\ gone \/ faults < MaxFaults
      /\ faults' = IF gone THEN faults ELSE faults + 1
      /\ page' = ScheduledReconnect
      /\ down' = <<>>
      /\ UNCHANGED <<conn, lane, task, rt, current, mode, fed, notices>>

\* Fault: an event after a missing one is applied too.
InOrder_AnyLater(m) == m.seq >= Len(page.seen)
InOrder(m) == m.seq = Len(page.seen)
Old(m) == m.seq < Len(page.seen)
OwnStream(m) == page.stream \in {NoSocket, m.stream}
Acked(n) == [page EXCEPT !.acked = IF n + 1 > @ THEN n + 1 ELSE @, !.next = IF n + 1 > @ THEN n + 1 ELSE @]
Applied(m, p) == [p EXCEPT !.stream = m.stream, !.seen = Append(@, m.event),
                           !.attempts = IF m.event.kind = "ready" THEN 0 ELSE @]
Verdicts == {"RESUME_WINDOW_EXPIRED", "SESSION_STREAM_ALREADY_ACTIVE", "SESSION_NOT_STREAMABLE", "FORBIDDEN",
             "AUDIO_FRAME_GAP", "REALTIME_UNAVAILABLE", "ASR_UNAVAILABLE"}

\* An event of another stream or after a missing one asks for a reset, an old one is ignored;
\* an error and an unavailable ASR are the end of the transport.
Receive ==
  /\ down # <<>>
  /\ LET m == Head(down)
     IN  \/ /\ ~OwnStream(m) \/ (~Old(m) /\ ~InOrder(m))
            /\ page' = Terminal("RESUME_WINDOW_EXPIRED") /\ down' = <<>>
            /\ UNCHANGED lane
         \/ /\ OwnStream(m) /\ Old(m)
            /\ down' = Tail(down)
            /\ UNCHANGED <<page, lane>>
         \/ /\ OwnStream(m) /\ InOrder(m) /\ m.event.kind \in Verdicts
            /\ page' = Terminal(m.event.kind) /\ down' = <<>>
            /\ UNCHANGED lane
         \/ /\ OwnStream(m) /\ InOrder(m) /\ m.event.kind \notin Verdicts
            /\ page' = Applied(m, Acked(m.event.ack))
            /\ down' = Tail(down)
            /\ lane' = IF m.event.kind = "ready"
                       THEN Enqueued(page.sock, [i \in 1 .. page'.next - page'.acked |->
                                                   Frame(page.sock, page'.acked + i - 1)])
                       ELSE lane
  /\ UNCHANGED <<conn, task, rt, current, mode, fed, notices, faults>>

----------------------------------------------------------------------------
(* Connections and joins on the server.                                     *)

\* The close event of a socket: its runtime loses its producer.
CloseSeen(c) ==
  /\ conn[c].open /\ page.sock # c
  /\ conn' = [conn EXCEPT ![c].open = FALSE]
  /\ rt' = IF Joined(c) THEN [rt EXCEPT ![conn[c].rt] = Released(@, c)] ELSE rt
  /\ UNCHANGED <<page, down, lane, task, current, mode, fed, notices, faults>>

\* fail: the error goes into the stream of the runtime, if the connection has one.
Fail(c, code) ==
  IF ~conn[c].open THEN UNCHANGED <<conn, rt, down>>
  ELSE /\ conn' = [conn EXCEPT ![c].open = FALSE]
       /\ IF Joined(c)
          THEN LET r   == conn[c].rt
                   run == Appended(rt[r], Event(code, -1))
               IN  /\ rt' = [rt EXCEPT ![r] = Released(run, c)]
                   /\ down' = Sent(c, Newest(r, run))
          ELSE down' = Sent(c, <<Refusal(code)>>) /\ UNCHANGED rt
Finish(l) == task' = [task EXCEPT ![l] = Idle]

\* The next message of an open connection; those before it, of closed ones, return at once.
Take(l) ==
  /\ task[l] = Idle
  /\ \E i \in DOMAIN lane[l] :
       LET m == lane[l][i]
       IN  /\ conn[m.conn].open /\ \A k \in 1 .. i - 1 : ~conn[lane[l][k].conn].open
           /\ task' = [task EXCEPT ![l] = [at |-> m.kind, conn |-> m.conn, msg |-> m]]
           /\ lane' = [lane EXCEPT ![l] = SubSeq(@, i + 1, Len(@))]
  /\ UNCHANGED <<page, down, conn, rt, current, mode, fed, notices, faults>>

Resumes(m) == m.stream # NoSocket
\* recover and replayAfter: the same runtime, and the cursor inside its window.
Recoverable(m) == current = m.stream /\ m.n >= rt[m.stream].kept /\ m.n <= Len(rt[m.stream].events)
ProducerAlive(r) == rt[r].producer # NoSocket /\ conn[rt[r].producer].open

JoinVerdict(c, m) ==
  CASE mode = "none"                        -> "FORBIDDEN"
    [] mode # "produce" /\ ~Resumes(m)      -> "SESSION_NOT_STREAMABLE"
    [] Resumes(m) /\ ~Recoverable(m)        -> "RESUME_WINDOW_EXPIRED"
    [] Resumes(m) /\ mode = "produce" /\ ProducerAlive(m.stream) -> "SESSION_STREAM_ALREADY_ACTIVE"
    [] ~Resumes(m) /\ current # NoSocket    -> IF rt[current].producer # NoSocket
                                               THEN "SESSION_STREAM_ALREADY_ACTIVE"
                                               ELSE "RESUME_WINDOW_EXPIRED"
    [] OTHER                                -> "accepted"

\* The connection is joined, and what it missed is sent.
Admit(l, c, r, seen, upto) ==
  /\ conn' = [conn EXCEPT ![c].rt = r]
  /\ down' = Sent(c, ReplayAfter(r, seen, upto))
  /\ task' = [task EXCEPT ![l] = [at |-> "ready", conn |-> c, rt |-> r]]

\* The join after its access checks: refused, a transaction opens a new runtime, or the old one
\* is claimed before a second check; who may only listen is admitted at once.  The events to
\* replay are those of now.
JoinDecides(l) ==
  /\ task[l].at = "join"
  /\ LET c == task[l].conn
         m == task[l].msg
         r == m.stream
         v == JoinVerdict(c, m)
     IN  \/ /\ v # "accepted"
            /\ Fail(c, v) /\ Finish(l)
         \/ /\ v = "accepted" /\ ~Resumes(m)
            /\ task' = [task EXCEPT ![l] = [at |-> "create", conn |-> c]]
            /\ UNCHANGED <<conn, rt, down>>
         \/ /\ v = "accepted" /\ Resumes(m) /\ mode = "produce"
            /\ task' = [task EXCEPT ![l] = [at |-> "confirm", conn |-> c, rt |-> r,
                                           seen |-> m.n, upto |-> Len(rt[r].events)]]
            /\ rt' = [rt EXCEPT ![r] = Claimed(Released(@, rt[r].producer), c)]
            /\ UNCHANGED <<conn, down>>
         \/ /\ v = "accepted" /\ Resumes(m) /\ mode # "produce"
            /\ Admit(l, c, r, m.n, Len(rt[r].events))
            /\ UNCHANGED rt
  /\ UNCHANGED <<page, lane, current, mode, fed, notices, faults>>

\* buildRuntime replaces whatever runtime the session has by now.
Create(l) ==
  /\ task[l].at = "create"
  /\ LET c == task[l].conn
     IN  /\ rt' = [rt EXCEPT ![c] = Claimed(NoRuntime, c)]
         /\ current' = c
         /\ task' = [task EXCEPT ![l] = [at |-> "confirm", conn |-> c, rt |-> c, seen |-> 0, upto |-> 0]]
  /\ UNCHANGED <<page, down, conn, lane, mode, fed, notices, faults>>

\* The second access check of a join that claimed its runtime; the replay is sent behind
\* whatever was published to the new subscriber meanwhile.
Confirm(l) ==
  /\ task[l].at = "confirm"
  /\ LET t == task[l]
         denied == mode = "none" \/ rt[t.rt].producer # t.conn
     IN  \/ denied /\ Fail(t.conn, "FORBIDDEN") /\ Finish(l)
         \/ ~denied /\ Admit(l, t.conn, t.rt, t.seen, t.upto) /\ UNCHANGED rt
  /\ UNCHANGED <<page, lane, current, mode, fed, notices, faults>>

\* session.ready after the calibration snapshot has been read.
Ready(l) ==
  /\ task[l].at = "ready"
  /\ LET r   == task[l].rt
         run == Appended(rt[r], Event("ready", rt[r].next - 1))
     IN  /\ rt' = [rt EXCEPT ![r] = run]
         /\ down' = Sent(task[l].conn, Newest(r, run))
  /\ Finish(l)
  /\ UNCHANGED <<page, conn, lane, current, mode, fed, notices, faults>>

----------------------------------------------------------------------------
(* Frames.                                                                  *)

\* Fault: the next expected frame is acknowledged instead of the last recorded one.
Acknowledged_Next(run) == Appended(run, Event("audio.ack", run.next))
Acknowledged(run) == Appended(run, Event("audio.ack", run.next - 1))
Known(run, n) == n < run.top       \* frameMatches: frames 0 .. top - 1 are recorded
Expected(run, n) == n = run.next

\* The frame after its access check.
FrameDecides(l) ==
  /\ task[l].at = "frame"
  /\ LET c   == task[l].conn
         n   == task[l].msg.n
         r   == conn[c].rt
         run == rt[r]
     IN  \/ /\ mode # "produce"
            /\ Fail(c, IF mode = "none" THEN "FORBIDDEN" ELSE "SESSION_NOT_STREAMABLE") /\ Finish(l)
         \/ /\ mode = "produce" /\ run.producer # c
            /\ Fail(c, "SESSION_STREAM_ALREADY_ACTIVE") /\ Finish(l)
         \/ /\ mode = "produce" /\ run.producer = c /\ Known(run, n)
            /\ rt' = [rt EXCEPT ![r] = Acknowledged(run)]
            /\ down' = Sent(c, Newest(r, Acknowledged(run)))
            /\ Finish(l) /\ UNCHANGED conn
         \/ /\ mode = "produce" /\ run.producer = c /\ ~Known(run, n) /\ ~Expected(run, n)
            /\ Fail(c, "AUDIO_FRAME_GAP") /\ Finish(l)
         \/ /\ mode = "produce" /\ run.producer = c /\ ~Known(run, n) /\ Expected(run, n)
            /\ task' = [task EXCEPT ![l] = [at |-> "feed", conn |-> c, rt |-> r, n |-> n, lease |-> run.lease]]
            /\ UNCHANGED <<conn, rt, down>>
  /\ UNCHANGED <<page, lane, current, mode, fed, notices, faults>>

LeaseCurrent(t) == rt[t.rt].producer = t.conn /\ rt[t.rt].lease = t.lease
Recorded(run, n) == [run EXCEPT !.next = n + 1, !.top = IF n + 1 > @ THEN n + 1 ELSE @]

\* The adapter and the evidence took the frame; it counts only under the lease it came with.
FeedTaken(l) ==
  /\ task[l].at = "feed"
  /\ fed' = Append(fed, task[l].n)
  /\ LET t   == task[l]
         run == Acknowledged(Recorded(rt[t.rt], t.n))
     IN  IF LeaseCurrent(t)
         THEN rt' = [rt EXCEPT ![t.rt] = run] /\ down' = Sent(t.conn, Newest(t.rt, run))
         ELSE UNCHANGED <<rt, down>>
  /\ Finish(l)
  /\ UNCHANGED <<page, conn, lane, current, mode, notices, faults>>

\* The adapter refused or the deadline passed (the adapter may still have the frame), or the
\* evidence could not be stored after it: the frame is neither recorded nor acknowledged.
FeedFails(l) ==
  /\ task[l].at = "feed" /\ faults < MaxFaults
  /\ faults' = faults + 1
  /\ LET t   == task[l]
         run == Appended(rt[t.rt], Event("ASR_UNAVAILABLE", -1))
     IN  \/ /\ fed' \in {fed, Append(fed, t.n)}
            /\ rt' = [rt EXCEPT ![t.rt] = run]
            /\ down' = Sent(run.subscriber, Newest(t.rt, run))
            /\ UNCHANGED conn
         \/ /\ fed' = Append(fed, t.n)
            /\ Fail(t.conn, "REALTIME_UNAVAILABLE")
  /\ Finish(l)
  /\ UNCHANGED <<page, lane, current, mode, notices>>

----------------------------------------------------------------------------
(* Everything else that writes the stream or ends it.                       *)

\* Finals, interims, statuses and suggestion changes, for a page that may be away.
Publish ==
  /\ current # NoSocket /\ notices < MaxNotices
  /\ notices' = notices + 1
  /\ LET run == Appended(rt[current], Event("notice", -1))
     IN  /\ rt' = [rt EXCEPT ![current] = run]
         /\ down' = Sent(run.subscriber, Newest(current, run))
  /\ UNCHANGED <<page, conn, lane, task, current, mode, fed, faults>>

\* Stop, revocation or a capture failure: the session's runtime is interrupted.
SessionStops ==
  /\ mode = "produce"
  /\ mode' \in {"resume-only", "none"}
  /\ rt' = IF current = NoSocket THEN rt
           ELSE [rt EXCEPT ![current].producer = NoSocket, ![current].lease = @ + 1]
  /\ UNCHANGED <<page, down, conn, lane, task, current, fed, notices, faults>>

\* A heartbeat or an event acknowledgement checks the access again.
Touch(c) ==
  /\ conn[c].open /\ Joined(c) /\ task[LaneOf(c)] = Idle
  /\ \/ /\ mode = "resume-only" /\ rt[conn[c].rt].producer = c
        /\ rt' = [rt EXCEPT ![conn[c].rt] = Released(@, c)]
        /\ UNCHANGED <<conn, down>>
     \/ mode = "none" /\ Fail(c, "FORBIDDEN")
  /\ UNCHANGED <<page, lane, task, current, mode, fed, notices, faults>>

\* Nobody touched the runtime for MAX_AGE_MS, or the process restarted.
RuntimeGone ==
  /\ current # NoSocket /\ faults < MaxFaults
  /\ faults' = faults + 1
  /\ current' = NoSocket
  /\ \/ /\ rt[current].producer = NoSocket
        /\ UNCHANGED <<down, conn, lane, task>>
     \/ /\ conn' = [c \in Sockets |-> [conn[c] EXCEPT !.open = FALSE]]
        /\ lane' = [l \in Sockets |-> <<>>]
        /\ task' = [l \in Sockets |-> Idle]
        /\ down' = <<>>
  /\ UNCHANGED <<page, rt, mode, fed, notices>>

Next ==
  \/ SocketOpens \/ SendFrame \/ SocketLost \/ Receive
  \/ \E c \in Sockets : CloseSeen(c) \/ Touch(c)
  \/ \E l \in Sockets :
       Take(l) \/ JoinDecides(l) \/ Create(l) \/ Confirm(l) \/ Ready(l)
       \/ FrameDecides(l) \/ FeedTaken(l) \/ FeedFails(l)
  \/ Publish \/ SessionStops \/ RuntimeGone

Spec == Init /\ [][Next]_vars

----------------------------------------------------------------------------

Peers == Sockets \cup {NoSocket}
Kinds == Verdicts \cup {"ready", "audio.ack", "notice"}
Events == [kind : Kinds, ack : -1 .. MaxFrames - 1]
Messages == [stream : Peers, seq : Nat, event : Events]
JoinMessages == [conn : Sockets, kind : {"join"}, n : Nat, stream : Peers]
FrameMessages == [conn : Sockets, kind : {"frame"}, n : 0 .. MaxFrames - 1]
Pages == [st : {"waiting", "open", "terminal"}, sock : Peers, opened : Nat, stream : Peers, seen : Seq(Events),
          acked : 0 .. MaxFrames, next : 0 .. MaxFrames, attempts : Nat, failure : Verdicts \cup {"none"}]
Runs == [events : Seq(Events), kept : Nat, producer : Peers, lease : Nat, subscriber : Peers,
         next : 0 .. MaxFrames, top : 0 .. MaxFrames]
Tasks ==
  {Idle} \cup [at : {"join"}, conn : Sockets, msg : JoinMessages]
  \cup [at : {"frame"}, conn : Sockets, msg : FrameMessages]
  \cup [at : {"create"}, conn : Sockets]
  \cup [at : {"confirm"}, conn : Sockets, rt : Runtimes, seen : Nat, upto : Nat]
  \cup [at : {"ready"}, conn : Sockets, rt : Runtimes]
  \cup [at : {"feed"}, conn : Sockets, rt : Runtimes, n : 0 .. MaxFrames - 1, lease : Nat]

\* Every variable holds values of its kind; the page has not let go of a frame it has not sent.
TypeOK ==
  /\ page \in Pages /\ page.acked <= page.next
  /\ down \in Seq(Messages)
  /\ conn \in [Sockets -> [open : BOOLEAN, rt : Peers]]
  /\ lane \in [Sockets -> Seq(JoinMessages \cup FrameMessages)]
  /\ task \in [Sockets -> Tasks]
  /\ rt \in [Runtimes -> Runs] /\ \A r \in Runtimes : rt[r].next <= rt[r].top
  /\ current \in Peers
  /\ mode \in {"produce", "resume-only", "none"}
  /\ fed \in Seq(0 .. MaxFrames - 1)

\* What the page has applied is, without a hole or a repetition, the beginning of the stream of
\* its runtime, over every reconnect, replay and event published meanwhile.
SeenInOrder ==
  page.stream # NoSocket => page.seen = SubSeq(rt[page.stream].events, 1, Len(page.seen))

\* A frame the page has let go of was accepted by the adapter, whichever connection carried it.
ForgottenIsFed == \A n \in 0 .. page.acked - 1 : \E i \in DOMAIN fed : fed[i] = n

=============================================================================
