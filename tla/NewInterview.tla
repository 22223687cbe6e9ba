---- MODULE NewInterview ----
(***************************************************************************)
(* How a listener enters an interview: the new-interview workflow a browser *)
(* keeps in IndexedDB, the page that walks it (project, session, consent    *)
(* recording, consent, start), the home page that reconciles it with the    *)
(* server, the preparation page, and the server's idempotent answers.       *)
(* Answers get lost, requests arrive late, the browser reloads, and a page   *)
(* the listener has left goes on with the call it had under way.            *)
(***************************************************************************)
EXTENDS Integers, FiniteSets

CONSTANTS
    MaxFlows,       \* bound: workflows of the actor in this browser
    MaxRequests,    \* bound: request ids the browser draws
    MaxLost,        \* bound: answers lost and requests that arrive late, together
    MaxVisits,      \* bound: pages loaded
    MaxLeft         \* bound: pages left while a call is under way

VARIABLES
    stored,         \* workflow -> its record in IndexedDB, or NoFlow
    recent,         \* workflow -> its place in the order of updatedAt, 0 for the latest
    jobs,           \* workflow -> create request of its consent upload job, 0 before it records
    page,           \* what the tab shows: its place, phase, intent, workflow copy and device check
    calls,          \* calls under way, the tab's own (live) and those of pages that were left
    drawn,          \* request ids drawn
    made,           \* request -> what the server created for it, which is also its stored answer
    wire,           \* requests the browser gave up and the server may still receive
    budget          \* [lost, visits, left], counted against the bounds

client == <<stored, recent, jobs, page, calls, drawn>>
vars == <<client, made, wire, budget>>

Flows == 1..MaxFlows
Requests == 1..MaxRequests
NoFlow == [id |-> 0, status |-> "none"]
NoAttempt == [state |-> "none", req |-> 0, made |-> 0]
Nothing == [kind |-> "none"]
FreshFlow(f) ==
    [id |-> f, status |-> "active", step |-> "project", project |-> NoAttempt,
     session |-> NoAttempt, consent |-> NoAttempt, job |-> FALSE, audio |-> 0]

Prepared(r) == [state |-> "prepared", req |-> r, made |-> 0]
Acknowledged(a, e) == [a EXCEPT !.state = "acknowledged", !.made = e]

-----------------------------------------------------------------------------
(* The server.  What a request created carries the request's number.  Each   *)
(* create looks its request up first and answers a repetition from the       *)
(* record of the first.                                                      *)

Projects == {r \in Requests : made[r].kind = "project"}
SessionsOf(p) == {r \in Requests : made[r].kind = "session" /\ made[r].project = p}
ConsentsOf(p) == {r \in Requests : made[r].kind = "consent" /\ made[r].project = p}
Alive(p) == p \in Projects /\ ~made[p].deleted
Advanced(s) == made[s].status = "recording"

Create(r, thing) == IF made[r] # Nothing THEN made ELSE [made EXCEPT ![r] = thing]

\* createProject: no authority but the request itself.
ServeProject(c) == [ok |-> TRUE, made |-> Create(c.req, [kind |-> "project", flow |-> c.copy.id,
                                                        status |-> "draft", deleted |-> FALSE])]
Refused == [ok |-> FALSE, made |-> made]

\* createSession: a project has one first session, whichever request asked for it.
ServeSession(c) ==
    IF Alive(c.project) /\ (made[c.req] # Nothing \/ SessionsOf(c.project) = {})
    THEN [ok |-> TRUE, made |-> Create(c.req, [kind |-> "session", project |-> c.project,
                                               status |-> "created"])]
    ELSE Refused

\* The whole upload of the consent recording: object, chunks and completion.
ServeAudio(c) ==
    IF Alive(c.project)
    THEN [ok |-> TRUE, made |-> Create(c.req, [kind |-> "audio", project |-> c.project])]
    ELSE Refused

ServeConsent(c) ==
    IF Alive(c.project) /\ made[c.audio] = [kind |-> "audio", project |-> c.project]
    THEN [ok |-> TRUE,
          made |-> [Create(c.req, [kind |-> "consent", project |-> c.project, audio |-> c.audio])
                    EXCEPT ![c.project].status = IF @ = "draft" THEN "ready" ELSE @]]
    ELSE Refused

ServeDevice(c) ==
    IF Alive(c.project) /\ made[c.session].status \in {"created", "device_check"}
    THEN [ok |-> TRUE, made |-> [made EXCEPT ![c.session].status = "device_check"]]
    ELSE Refused

ServeStart_AnyProject(c) ==
    IF made[c.session].status = "device_check" /\ ConsentsOf(c.project) # {}
    THEN [ok |-> TRUE, made |-> [made EXCEPT ![c.session].status = "recording",
                                             ![c.project].status = "active"]]
    ELSE Refused

\* The capture's start, with its own stable request: a repetition is answered again.
ServeStart(c) ==
    IF Alive(c.project) /\ made[c.session].status \in {"device_check", "recording"}
                        /\ ConsentsOf(c.project) # {}
    THEN [ok |-> TRUE, made |-> [made EXCEPT ![c.session].status = "recording",
                                             ![c.project].status = "active"]]
    ELSE Refused

\* discardPrestartInterview: repeated, it answers already_discarded.
ServeDiscard(c) ==
    IF /\ c.session = 0 \/ c.session \in SessionsOf(c.project)
       /\ made[c.project].deleted \/
            (made[c.project].status \in {"draft", "ready"} /\
             \A s \in SessionsOf(c.project) : ~Advanced(s))
    THEN [ok |-> TRUE, made |-> [made EXCEPT ![c.project].deleted = TRUE]]
    ELSE Refused

Serve(c) ==
    CASE c.kind = "project" -> ServeProject(c)
      [] c.kind = "session" -> ServeSession(c)
      [] c.kind = "audio" -> ServeAudio(c)
      [] c.kind = "consent" -> ServeConsent(c)
      [] c.kind = "device" -> ServeDevice(c)
      [] c.kind = "start" -> ServeStart(c)
      [] c.kind = "discard" -> ServeDiscard(c)

\* The request of a call under way reaches the server.
Arrive(c) ==
    /\ c \in calls /\ c.result = "sent"
    /\ LET answer == Serve(c) IN
       /\ made' = answer.made
       /\ calls' = (calls \ {c}) \cup {[c EXCEPT !.result = IF answer.ok THEN "ok" ELSE "refused"]}
    /\ UNCHANGED <<stored, recent, jobs, page, drawn, wire, budget>>

\* So does a request nobody waits for any more.
ArriveLate(c) ==
    /\ c \in wire
    /\ made' = Serve(c).made
    /\ wire' = wire \ {c}
    /\ UNCHANGED <<client, budget>>

-----------------------------------------------------------------------------
(* The workflow store. *)

Touched(order, f) ==
    [g \in Flows |-> IF g = f THEN 0
                     ELSE IF order[g] < order[f] THEN order[g] + 1 ELSE order[g]]

\* put replaces the whole record, whatever is stored by now.
Put(rec) == stored' = [stored EXCEPT ![rec.id] = rec] /\ recent' = Touched(recent, rec.id)

ActiveFlows == {f \in Flows : stored[f].status = "active"}

\* getActive: the most recent active workflow; one past its project but without a session is
\* read as one that creates it.
GetActive ==
    IF ActiveFlows = {} THEN NoFlow
    ELSE LET rec == stored[CHOOSE f \in ActiveFlows : \A g \in ActiveFlows : recent[f] <= recent[g]]
         IN  IF rec.session.made = 0 /\ rec.step # "project" THEN [rec EXCEPT !.step = "session"]
             ELSE rec

HasUnusedFlow == \E f \in Flows : stored[f] = NoFlow
Fresh == FreshFlow(CHOOSE f \in Flows : stored[f] = NoFlow)

\* A workflow retired and a fresh one beside it, in one transaction.
Replace(rec) ==
    /\ stored' = [stored EXCEPT ![rec.id] = [rec EXCEPT !.status = "retired"], ![Fresh.id] = Fresh]
    /\ recent' = Touched(Touched(recent, rec.id), Fresh.id)

-----------------------------------------------------------------------------
(* Pages. *)

Page(at, intent, target) ==
    [at |-> at, phase |-> "reading", intent |-> intent, flow |-> GetActive, device |-> FALSE,
     target |-> target, formal |-> \E s \in Requests : made[s].kind = "session" /\ Advanced(s)]
Live == {c \in calls : c.live}
Busy == Live # {}
Ready == page.at = "new" /\ page.phase = "ready" /\ ~Busy
Steps(step) == Ready /\ page.intent = "resume" /\ page.flow.step = step

\* Loading a page reads the active workflow first; the microphone is unchecked again.
Visit(at, intent, target) ==
    /\ budget.visits < MaxVisits
    /\ page' = Page(at, intent, target)
    /\ UNCHANGED <<stored, recent, jobs, drawn, made>>

Visited == budget' = [budget EXCEPT !.visits = @ + 1]

\* A page left with a call under way: the call goes on, and its outcome is still stored.
GoHome ==
    /\ page.at # "home" /\ page.phase # "reading"
    /\ Visit("home", "resume", 0)
    /\ Busy => budget.left < MaxLeft
    /\ calls' = {[c EXCEPT !.live = FALSE] : c \in calls}
    /\ budget' = [budget EXCEPT !.visits = @ + 1, !.left = IF Busy THEN @ + 1 ELSE @]
    /\ UNCHANGED wire

\* From the home page: a new interview or the unfinished one, unless a session was recording
\* when the page was loaded; or a session's preparation.
GoNew(intent) ==
    /\ page.at = "home" /\ page.phase = "ready" /\ ~page.formal
    /\ intent = "resume" => page.flow # NoFlow
    /\ Visit("new", intent, 0) /\ Visited
    /\ UNCHANGED <<calls, wire>>

GoPrepare(s) ==
    /\ page.at = "home" /\ page.phase # "reading"
    /\ made[s].kind = "session" /\ Alive(made[s].project) /\ ~Advanced(s)
    /\ Visit("prepare", "resume", s) /\ Visited
    /\ UNCHANGED <<calls, wire>>

\* The discard question declined: the same workflow goes on.
KeepOld ==
    /\ Ready /\ page.intent = "new"
    /\ Visit("new", "resume", 0) /\ Visited
    /\ UNCHANGED <<calls, wire>>

\* A reload or a crash ends every call of the browser; requests sent may still arrive.
Reload(late) ==
    /\ calls # {}
    /\ late \subseteq {c \in calls : c.result = "sent"}
    /\ budget.lost + Cardinality(late) <= MaxLost
    /\ Visit("home", "resume", 0)
    /\ calls' = {}
    /\ wire' = wire \cup late
    /\ budget' = [budget EXCEPT !.visits = @ + 1, !.lost = @ + Cardinality(late)]

-----------------------------------------------------------------------------
(* Reconciliation with the server; its reads are one instant here. *)

Verdict(rec) ==
    IF rec = NoFlow THEN "none"
    ELSE IF rec.project.made = 0 THEN "active"
    ELSE IF ~Alive(rec.project.made) THEN "unavailable"
    ELSE IF rec.session.made # 0
         THEN IF Advanced(rec.session.made) THEN "retired" ELSE "active"
    ELSE IF SessionsOf(rec.project.made) = {} THEN "active"
    ELSE IF \E s \in SessionsOf(rec.project.made) :
                SessionsOf(rec.project.made) = {s} /\ ~Advanced(s)
         THEN "prestart" ELSE "retired"

Settle(at, verdict) == page.at = at /\ page.phase = "reading" /\ Verdict(page.flow) \in verdict
Show(phase, rec) == page' = [page EXCEPT !.phase = phase, !.flow = rec]
Quiet == UNCHANGED <<jobs, calls, made, wire, budget>>

\* The home page writes back what it read, and offers it again.
HomeNone == Settle("home", {"none"}) /\ Show("ready", NoFlow) /\ UNCHANGED <<stored, recent, drawn>>
HomeBlocked ==
    Settle("home", {"unavailable"}) /\ Show("blocked", NoFlow) /\ UNCHANGED <<stored, recent, drawn>>
HomeOffers ==
    /\ Settle("home", {"active", "prestart"})
    /\ Put(page.flow) /\ Show("ready", page.flow) /\ UNCHANGED drawn
HomeRetires ==
    /\ Settle("home", {"retired"})
    /\ Put([page.flow EXCEPT !.status = "retired"]) /\ Show("ready", NoFlow) /\ UNCHANGED drawn

\* Nothing active is stored: a fresh workflow, whatever the intent.
NewFresh ==
    /\ Settle("new", {"none"}) /\ HasUnusedFlow
    /\ Put(Fresh)
    /\ page' = [page EXCEPT !.phase = "ready", !.flow = Fresh, !.intent = "resume"]
    /\ UNCHANGED drawn

NewBlocked ==
    /\ Settle("new", {"unavailable"}) \/ (Settle("new", {"retired"}) /\ page.intent = "new")
    /\ Show("error", NoFlow) /\ UNCHANGED <<stored, recent, drawn>>

\* With the new intent the old workflow waits for the discard question.
NewAsks ==
    /\ Settle("new", {"active"}) /\ page.intent = "new"
    /\ Show("ready", page.flow) /\ UNCHANGED <<stored, recent, drawn>>

NewResumes ==
    /\ \/ Settle("new", {"active"}) /\ page.intent = "resume"
       \/ Settle("new", {"prestart"}) /\ page.intent = "new"
    /\ Put(page.flow) /\ Show("ready", page.flow) /\ UNCHANGED drawn

\* The workflow goes on with the session the server already has.
NewRecovers ==
    /\ Settle("new", {"prestart"}) /\ page.intent = "resume" /\ drawn < MaxRequests
    /\ \E s \in SessionsOf(page.flow.project.made) :
         LET rec == [page.flow EXCEPT !.session = Acknowledged(Prepared(drawn + 1), s),
                                      !.step = IF page.flow.audio = 0 THEN "consent_audio" ELSE "consent"]
         IN  Put(rec) /\ Show("ready", rec)
    /\ drawn' = drawn + 1

\* create looks for another active workflow in its transaction and refuses beside one.
NewReplaces ==
    /\ Settle("new", {"retired"}) /\ page.intent = "resume" /\ HasUnusedFlow
    /\ IF ActiveFlows \subseteq {page.flow.id}
       THEN Replace(page.flow) /\ Show("ready", Fresh)
       ELSE Put([page.flow EXCEPT !.status = "retired"]) /\ Show("error", NoFlow)
    /\ UNCHANGED drawn

Settles ==
    /\ \/ HomeNone \/ HomeBlocked \/ HomeOffers \/ HomeRetires
       \/ NewFresh \/ NewBlocked \/ NewAsks \/ NewResumes \/ NewRecovers \/ NewReplaces
    /\ Quiet

-----------------------------------------------------------------------------
(* The steps of the workflow.  A create saves its attempt before it sends   *)
(* the request, and sends the same request again until it is answered.       *)

Call(kind, req, rec) ==
    [kind |-> kind, req |-> req, project |-> rec.project.made, session |-> rec.session.made,
     audio |-> rec.audio, copy |-> rec, again |-> FALSE, live |-> TRUE, result |-> "sent"]

Sends(c) ==
    /\ calls' = calls \cup {c}
    /\ UNCHANGED <<jobs, made, wire, budget>>

\* The attempt a step sends, by the name of its field.
Attempt(rec, kind) ==
    CASE kind = "project" -> rec.project
      [] kind = "session" -> rec.session
      [] kind = "consent" -> rec.consent
WithAttempt(rec, kind, a) ==
    CASE kind = "project" -> [rec EXCEPT !.project = a]
      [] kind = "session" -> [rec EXCEPT !.session = a]
      [] kind = "consent" -> [rec EXCEPT !.consent = a]
Creates == {"project", "session", "consent"}

\* submitProject, createSession and submitConsent, the first time.
Prepare(kind) ==
    /\ Steps(kind) /\ Attempt(page.flow, kind) = NoAttempt /\ drawn < MaxRequests
    /\ LET rec == WithAttempt(page.flow, kind, Prepared(drawn + 1)) IN
       Put(rec) /\ Show("ready", rec) /\ Sends(Call(kind, drawn + 1, rec))
    /\ drawn' = drawn + 1

\* By hand, or replayUnknown by itself, which the discard question does not hold back.
Again(kind) ==
    /\ Ready /\ page.flow.step = kind
    /\ LET a == Attempt(page.flow, kind) IN
       /\ a.state = "unknown" \/ (a.state = "prepared" /\ page.intent = "resume")
       /\ Sends([Call(kind, a.req, page.flow) EXCEPT !.again = (a.state = "unknown")])
    /\ UNCHANGED <<stored, recent, page, drawn>>

CheckDevice ==
    /\ Steps("consent_audio")
    /\ Sends(Call("device", 0, page.flow))
    /\ UNCHANGED <<stored, recent, page, drawn>>

\* startConsentRecording: the upload job is the workflow's, with the create request it drew first.
RecordConsent ==
    /\ Steps("consent_audio") /\ page.device /\ ~page.flow.job
    /\ jobs[page.flow.id] = 0 => drawn < MaxRequests
    /\ Put([page.flow EXCEPT !.job = TRUE]) /\ Show("ready", [page.flow EXCEPT !.job = TRUE])
    /\ jobs' = [jobs EXCEPT ![page.flow.id] = IF @ = 0 THEN drawn + 1 ELSE @]
    /\ drawn' = IF jobs[page.flow.id] = 0 THEN drawn + 1 ELSE drawn
    /\ UNCHANGED <<calls, made, wire, budget>>

\* finishConsentRecording: freeze and upload.
UploadConsent ==
    /\ Steps("consent_audio") /\ page.flow.job
    /\ Sends(Call("audio", jobs[page.flow.id], page.flow))
    /\ UNCHANGED <<stored, recent, page, drawn>>

\* startFormalCapture
StartCapture ==
    /\ Steps("start")
    /\ Sends(Call("start", 0, page.flow))
    /\ UNCHANGED <<stored, recent, page, drawn>>

\* discardAndStartFresh; a workflow without a project on the server is discarded here alone.
DiscardHere ==
    /\ Ready /\ page.intent = "new" /\ page.flow.project.made = 0 /\ HasUnusedFlow
    /\ Replace(page.flow)
    /\ page' = [page EXCEPT !.flow = Fresh, !.intent = "resume", !.device = FALSE]
    /\ UNCHANGED <<jobs, calls, drawn, made, wire, budget>>

Discard ==
    /\ Ready /\ page.intent = "new" /\ page.flow.project.made # 0
    /\ Sends(Call("discard", 0, page.flow))
    /\ UNCHANGED <<stored, recent, page, drawn>>

\* The preparation page checks the device and starts the same session without the workflow.
PrepareSteps ==
    /\ page.at = "prepare" /\ ~Busy
    /\ made[page.target].kind = "session"
    /\ LET p == made[page.target].project
           call == [Call(IF page.device THEN "start" ELSE "device", 0, FreshFlow(0))
                      EXCEPT !.project = p, !.session = page.target]
       IN  ConsentsOf(p) # {} /\ Sends(call)
    /\ UNCHANGED <<stored, recent, page, drawn>>

-----------------------------------------------------------------------------
(* Outcomes. *)

NextStep(rec, kind) ==
    CASE kind = "project" -> "session"
      [] kind = "session" -> IF rec.audio = 0 THEN "consent_audio" ELSE "consent"
      [] kind = "consent" -> "start"

Ends(c) == calls' = calls \ {c}
ShowIf(c, rec) == page' = IF c.live THEN [page EXCEPT !.flow = rec] ELSE page

\* runCreate: a consent replayed by itself goes straight on to the capture.
Acknowledge(c) ==
    /\ c.kind \in Creates
    /\ LET rec == [WithAttempt(c.copy, c.kind, Acknowledged(Attempt(c.copy, c.kind), c.req))
                     EXCEPT !.step = NextStep(c.copy, c.kind)]
       IN  /\ Put(rec)
           /\ page' = IF c.live THEN [page EXCEPT !.flow = rec,
                                                  !.device = @ /\ c.kind # "session"] ELSE page
           /\ calls' = (calls \ {c}) \cup
                         IF c.kind = "consent" /\ c.again
                         THEN {[Call("start", 0, rec) EXCEPT !.live = c.live]} ELSE {}
    /\ UNCHANGED <<jobs, drawn>>

Recorded(c) ==
    /\ c.kind = "audio"
    /\ LET rec == [c.copy EXCEPT !.audio = c.req, !.step = "consent"] IN Put(rec) /\ ShowIf(c, rec)
    /\ Ends(c)
    /\ UNCHANGED <<jobs, drawn>>

DeviceChecked(c) ==
    /\ c.kind = "device"
    /\ page' = IF c.live THEN [page EXCEPT !.device = TRUE] ELSE page
    /\ Ends(c)
    /\ UNCHANGED <<stored, recent, jobs, drawn>>

\* The capture is active: the workflow is complete and the workbench opens.
Started(c) ==
    /\ c.kind = "start"
    /\ IF c.copy.id = 0 THEN UNCHANGED <<stored, recent>>
       ELSE Put([c.copy EXCEPT !.status = "complete", !.step = "complete"])
    /\ page' = IF c.live THEN [page EXCEPT !.at = "workbench"] ELSE page
    /\ Ends(c)
    /\ UNCHANGED <<jobs, drawn>>

Discarded(c) ==
    /\ c.kind = "discard" /\ HasUnusedFlow
    /\ Replace(c.copy)
    /\ page' = IF c.live THEN [page EXCEPT !.flow = Fresh, !.intent = "resume", !.device = FALSE]
               ELSE page
    /\ Ends(c)
    /\ UNCHANGED <<jobs, drawn>>

Succeeds(c) ==
    /\ c \in calls /\ c.result = "ok"
    /\ Acknowledge(c) \/ Recorded(c) \/ DeviceChecked(c) \/ Started(c) \/ Discarded(c)
    /\ UNCHANGED <<made, wire, budget>>

\* An error answered by the server keeps the attempt as it is.
Fails(c) ==
    /\ c \in calls /\ c.result = "refused"
    /\ Ends(c)
    /\ UNCHANGED <<stored, recent, jobs, page, drawn, made, wire, budget>>

\* No answer: a create is marked unknown; the request may still reach the server.
Lost(c) ==
    /\ c \in calls /\ c.result \in {"sent", "ok"} /\ budget.lost < MaxLost
    /\ IF c.kind \in Creates
       THEN LET rec == WithAttempt(c.copy, c.kind, [Attempt(c.copy, c.kind) EXCEPT !.state = "unknown"])
            IN  Put(rec) /\ ShowIf(c, rec)
       ELSE UNCHANGED <<stored, recent, page>>
    /\ Ends(c)
    /\ wire' = IF c.result = "sent" THEN wire \cup {c} ELSE wire
    /\ budget' = [budget EXCEPT !.lost = @ + 1]
    /\ UNCHANGED <<jobs, drawn, made>>

-----------------------------------------------------------------------------
Init ==
    /\ stored = [f \in Flows |-> NoFlow] /\ recent = [f \in Flows |-> f - 1] /\ jobs = [f \in Flows |-> 0]
    /\ page = [at |-> "home", phase |-> "reading", intent |-> "resume", flow |-> NoFlow,
               device |-> FALSE, target |-> 0, formal |-> FALSE]
    /\ calls = {} /\ drawn = 0 /\ made = [r \in Requests |-> Nothing] /\ wire = {}
    /\ budget = [lost |-> 0, visits |-> 1, left |-> 0]

Next ==
    \/ GoHome \/ KeepOld \/ \E intent \in {"new", "resume"} : GoNew(intent)
    \/ \E s \in Requests : GoPrepare(s)
    \/ \E late \in SUBSET calls : Reload(late)
    \/ Settles
    \/ \E kind \in Creates : Prepare(kind) \/ Again(kind)
    \/ CheckDevice \/ RecordConsent \/ UploadConsent \/ StartCapture
    \/ DiscardHere \/ Discard \/ PrepareSteps
    \/ \E c \in calls : Arrive(c) \/ Succeeds(c) \/ Fails(c) \/ Lost(c)
    \/ \E c \in wire : ArriveLate(c)

Spec == Init /\ [][Next]_vars

-----------------------------------------------------------------------------
(* Properties. *)

\* A discarded interview never records: neither a start still on the wire nor the preparation
\* page nor a call of a page that was left brings it back.
DiscardedNeverRecords ==
    \A p \in Projects : made[p].deleted => \A s \in SessionsOf(p) : ~Advanced(s)

====
