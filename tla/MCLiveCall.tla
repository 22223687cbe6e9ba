----------------------------- MODULE MCLiveCall -----------------------------
(* The parts of a call that share no state, checked in one run: how a project *)
(* gets its first session (first) and its next ones (next), how frames and    *)
(* events travel (stream), how the provider's attempts end (asr), and who is  *)
(* said to be speaking (roles).  part names the one a behaviour is of: the     *)
(* stream has variables of its own, the others use the same ones, and a        *)
(* property speaks of its part only.                                           *)
EXTENDS RealtimeStream, TLC

CONSTANTS t1, t2, t3, b1, b2, s1, p1, l1, l2, elder, interviewer

VARIABLES part, v1, v2, v3, v4, v5, v6, v7, v8, v9, v10, v11, v12, v13
shared == <<v1, v2, v3, v4, v5, v6, v7, v8, v9, v10, v11, v12, v13>>
callVars == <<part, vars, shared>>

Browsers == [t \in {t1, t2, t3} |-> IF t = t3 THEN b2 ELSE b1]

Asr == INSTANCE AsrAttempts WITH
  Opens <- 1 .. 2, Attempts <- 1 .. 3, MaxFrames <- 2, MaxQueue <- 2, MaxRetries <- 1, Sentences <- {s1}, MaxFaults <- 2,
  ses <- v1, att <- v2, map <- v3, rtm <- v4, runtime <- v5, streams <- v6, next <- v7,
  stored <- v8, published <- v9, slots <- v10, drain <- v11, ingestible <- v12, faults <- v13
Role == INSTANCE SpeakerRoles WITH
  Labels <- {l1, l2}, Roles <- {elder, interviewer}, Ids <- <<2, 3, 1>>, Previews <- {p1},
  MaxAudio <- 1, MaxStreams <- 2, MaxAttempts <- 1, MaxRevision <- 2,
  audio <- v1, streams <- v2, attempts <- v3, mappings <- v4, segs <- v5, revision <- v6,
  previews <- v7, reader <- v8
First == INSTANCE NewInterview WITH
  MaxFlows <- 2, MaxRequests <- 5, MaxLost <- 1, MaxVisits <- 6, MaxLeft <- 1,
  stored <- v1, recent <- v2, jobs <- v3, page <- v4, calls <- v5, drawn <- v6, made <- v7,
  wire <- v8, budget <- v9
Later == INSTANCE NextSession WITH
  Tabs <- {t1, t2, t3}, Browser <- Browsers, LastSession <- 3, MaxRequests <- 3, MaxLost <- 1, MaxTurns <- 1,
  sessions <- v1, consent <- v2, available <- v3, answers <- v4, attempt <- v5, tab <- v6,
  drawn <- v7, lost <- v8, turns <- v9

-----------------------------------------------------------------------------
Unused == 0
FromTenth == v10 = Unused /\ v11 = Unused /\ v12 = Unused /\ v13 = Unused
FromFirst ==
  /\ v1 = Unused /\ v2 = Unused /\ v3 = Unused /\ v4 = Unused /\ v5 = Unused /\ v6 = Unused /\ v7 = Unused
  /\ v8 = Unused /\ v9 = Unused /\ FromTenth

CallInit ==
  /\ Init
  /\ \/ part = "stream" /\ FromFirst
     \/ part = "asr" /\ Asr!Init
     \/ part = "roles" /\ Role!Init /\ v9 = Unused /\ FromTenth
     \/ part = "first" /\ First!Init /\ FromTenth
     \/ part = "next" /\ Later!Init /\ FromTenth

\* A step A of one part.
S(A) == part = "stream" /\ A /\ UNCHANGED <<part, shared>>
V(A) == part = "asr" /\ A /\ UNCHANGED <<part, vars>>
R(A) == part = "roles" /\ A /\ UNCHANGED <<part, vars, v9, v10, v11, v12, v13>>
F(A) == part = "first" /\ A /\ UNCHANGED <<part, vars, v10, v11, v12, v13>>
L(A) == part = "next" /\ A /\ UNCHANGED <<part, vars, v10, v11, v12, v13>>

CallNext ==
  \/ S(SocketOpens) \/ S(SendFrame) \/ S(SocketLost) \/ S(Receive)
  \/ \E c \in Sockets : S(CloseSeen(c)) \/ S(Touch(c))
  \/ \E l \in Sockets :
       \/ S(Take(l)) \/ S(JoinDecides(l)) \/ S(Create(l)) \/ S(Confirm(l))
       \/ S(Ready(l)) \/ S(FrameDecides(l)) \/ S(FeedTaken(l)) \/ S(FeedFails(l))
  \/ S(Publish) \/ S(SessionStops) \/ S(RuntimeGone)
  \/ V(Asr!Open) \/ V(Asr!Accept) \/ V(Asr!Refuse) \/ V(Asr!Drain) \/ V(Asr!Revoke) \/ V(Asr!Cancel) \/ V(Asr!Restart)
  \/ \E o \in 1 .. 2 : V(Asr!Rotate(o)) \/ V(Asr!StartAgain(o))
  \/ \E n \in 1 .. 3 :
       \/ V(Asr!Ready(n)) \/ V(Asr!ConnectionFails(n)) \/ V(Asr!Send(n)) \/ V(Asr!SendDone(n)) \/ V(Asr!SendFails(n))
       \/ V(Asr!SendEnd(n)) \/ V(Asr!Final(n)) \/ V(Asr!Drained(n)) \/ V(Asr!DrainFails(n))
       \/ V(Asr!Deliver(n, s1)) \/ V(Asr!Ingest(n, s1)) \/ V(Asr!IngestFails(n, s1)) \/ V(Asr!Publish(n, s1))
  \/ R(Role!Frame) \/ R(Role!Rotate) \/ R(Role!BeginCalibration) \/ R(Role!ReadPage)
  \/ R(Role!Ingest(l1)) \/ R(Role!Ingest(l2))
  \/ \E role \in {elder, interviewer} : R(Role!CorrectOne(role))
  \/ R(\E k \in DOMAIN v3 : Role!EndCalibration(k)) \/ R(\E k \in DOMAIN v3 : Role!ConfirmCalibration(k))
  \/ R(Role!Preview(p1)) \/ R(Role!Execute(p1))
  \/ F(First!GoHome) \/ F(First!KeepOld) \/ F(First!Settles) \/ F(First!CheckDevice) \/ F(First!RecordConsent)
  \/ F(First!UploadConsent) \/ F(First!StartCapture) \/ F(First!DiscardHere) \/ F(First!Discard) \/ F(First!PrepareSteps)
  \/ \E intent \in {"new", "resume"} : F(First!GoNew(intent))
  \/ \E q \in 1 .. 5 : F(First!GoPrepare(q))
  \/ F(\E late \in SUBSET v5 : First!Reload(late))
  \/ \E kind \in {"project", "session", "consent"} : F(First!Prepare(kind)) \/ F(First!Again(kind))
  \/ F(\E c \in v5 : First!Arrive(c)) \/ F(\E c \in v5 : First!Succeeds(c)) \/ F(\E c \in v5 : First!Fails(c))
  \/ F(\E c \in v5 : First!Lost(c)) \/ F(\E c \in v8 : First!ArriveLate(c))
  \/ \E t \in {t1, t2, t3} :
       \/ L(Later!Creates(t)) \/ L(Later!CreatesUnheard(t)) \/ L(Later!PointsToOpen(t)) \/ L(Later!Refuses(t))
       \/ L(Later!Loads(t)) \/ L(Later!StartsNext(t)) \/ L(Later!Reloads(t))
  \/ L(Later!Ends("completed")) \/ L(Later!Ends("failed")) \/ L(Later!Turns)

CallSpec == CallInit /\ [][CallNext]_callVars

SameNames == Permutations({l1, l2}) \cup Permutations({elder, interviewer})

-----------------------------------------------------------------------------
\* PCM the adapter took is queued, being sent or in the coverage gaps (TencentAsrProvider).
AccountedPcm == part = "asr" => Asr!AccountedPcm
\* A drained transcript has stored and published every result its attempt received.
DrainedIsIngested == part = "asr" => Asr!DrainedIsIngested
\* A single correction is only undone by another one (exclude_individual_corrections).
SingleStands == [][part = "roles" => Role!SingleStandsStep]_callVars
\* What was discarded never records, whatever tab, page or late answer goes on.
DiscardedNeverRecords == part = "first" => First!DiscardedNeverRecords
\* A project has at most one open session, whatever tabs and browsers ask.
OneOpenSession == part = "next" => Later!OneOpenSession
=============================================================================
