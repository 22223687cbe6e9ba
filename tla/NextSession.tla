---- MODULE NextSession ----
(***************************************************************************)
(* The next session of a project: the stable attempt a browser keeps per     *)
(* project, the tabs that send and resume it, and the server's decision      *)
(* whether a further interview may be opened.                                *)
(***************************************************************************)
EXTENDS Integers

CONSTANTS
    Tabs,           \* tabs of the actor; each belongs to one browser
    Browser,        \* tab -> its browser, which keeps the attempt
    LastSession,    \* bound: sessions of the project
    MaxRequests,    \* bound: request ids drawn
    MaxLost,        \* bound: answers lost
    MaxTurns        \* bound: changes of consent and of the project's availability

VARIABLES
    sessions,       \* sessions of the project, each [no, status, by]
    consent,        \* what the continuation policy says of the current consent
    available,      \* the project is active and no deletion covers it
    answers,        \* request -> the session its stored answer names, 0 for none
    attempt,        \* browser -> the attempt stored for the project, or NoAttempt
    tab,            \* tab -> what it shows or waits for
    drawn, lost, turns

server == <<sessions, consent, available, answers>>
vars == <<server, attempt, tab, drawn, lost, turns>>

Requests == 1..MaxRequests
Browsers == {Browser[t] : t \in Tabs}
NoAttempt == [req |-> 0, basis |-> 0]
Home(basis) == [at |-> "home", basis |-> basis, call |-> NoAttempt, session |-> 0]
Calling(a) == [at |-> "calling", basis |-> 0, call |-> a, session |-> 0]
Preparing(s) == [at |-> "prepare", basis |-> 0, call |-> NoAttempt, session |-> s]

-----------------------------------------------------------------------------
(* evaluateRepeatInterviewDecision *)

Open == {s \in sessions : s.status = "open"}
Completed == {s \in sessions : s.status = "completed"}
LastOf(set) == CHOOSE s \in set : \A o \in set : o.no <= s.no

Decision_Parallel ==
    IF ~available \/ \E s \in sessions : s.status = "failed" /\ \A o \in Completed : o.no < s.no
    THEN "project_unavailable"
    ELSE IF Completed = {} THEN "no_completed_session"
    ELSE IF consent # "covered" THEN consent
    ELSE "eligible"

\* A failed session after the last completed one closes the project to further interviews.
Decision ==
    IF ~available \/ (Completed # {} /\ \E s \in sessions :
                        s.status = "failed" /\ \A o \in Completed : o.no < s.no)
    THEN "project_unavailable"
    ELSE IF Open # {} THEN "session_in_progress"
    ELSE IF Completed = {} THEN "no_completed_session"
    ELSE IF consent # "covered" THEN consent
    ELSE "eligible"

Basis == IF Decision = "eligible" THEN LastOf(Completed).no ELSE 0

\* A stored answer is given again while the project is available and its consent covers it.
ReplayAllowed == available /\ consent = "covered"

Replayed(a) == answers[a.req] # 0

-----------------------------------------------------------------------------
(* The server's answer to a call, taken under the project's lock. *)

Answered(t, outcome) == tab' = [tab EXCEPT ![t] = outcome]
Forgets(b) == attempt' = [attempt EXCEPT ![b] = NoAttempt]
Remembers(b, a) == attempt' = [attempt EXCEPT ![b] = a]

\* The first answer and every repetition of it name the same session; the tab forgets the attempt
\* of its browser, whichever it is by now, and opens the preparation page.
Creates(t) ==
    /\ tab[t].at = "calling" /\ tab[t].call # NoAttempt
    /\ LET a == tab[t].call IN
       IF Replayed(a)
       THEN /\ ReplayAllowed
            /\ UNCHANGED server
            /\ Answered(t, Preparing(answers[a.req]))
       ELSE /\ Decision = "eligible" /\ Basis = a.basis /\ a.basis < LastSession
            /\ sessions' = sessions \cup {[no |-> a.basis + 1, status |-> "open", by |-> a.req]}
            /\ answers' = [answers EXCEPT ![a.req] = a.basis + 1]
            /\ Answered(t, Preparing(a.basis + 1))
            /\ UNCHANGED <<consent, available>>
    /\ Forgets(Browser[t])
    /\ UNCHANGED <<drawn, lost, turns>>

\* The same, and the answer does not come back: the attempt is stored again, as unknown.
CreatesUnheard(t) ==
    /\ tab[t].at = "calling" /\ lost < MaxLost
    /\ LET a == tab[t].call IN
       /\ IF ~Replayed(a) /\ Decision = "eligible" /\ Basis = a.basis /\ a.basis < LastSession
          THEN /\ sessions' = sessions \cup {[no |-> a.basis + 1, status |-> "open", by |-> a.req]}
               /\ answers' = [answers EXCEPT ![a.req] = a.basis + 1]
               /\ UNCHANGED <<consent, available>>
          ELSE UNCHANGED server
       /\ Remembers(Browser[t], a)
    /\ Answered(t, Home(0))
    /\ lost' = lost + 1
    /\ UNCHANGED <<drawn, turns>>

\* NEXT_SESSION_ALREADY_EXISTS carries a pointer to the session in progress.
PointsToOpen(t) ==
    /\ tab[t].at = "calling" /\ ~Replayed(tab[t].call) /\ Decision = "session_in_progress"
    /\ Answered(t, Preparing(LastOf(Open).no))
    /\ Forgets(Browser[t])
    /\ UNCHANGED <<server, drawn, lost, turns>>

\* Any other refusal forgets the attempt.
Refuses(t) ==
    /\ tab[t].at = "calling"
    /\ \/ Replayed(tab[t].call) /\ ~ReplayAllowed
       \/ /\ ~Replayed(tab[t].call) /\ Decision # "session_in_progress"
          /\ Decision # "eligible" \/ Basis # tab[t].call.basis
    /\ Answered(t, Home(0))
    /\ Forgets(Browser[t])
    /\ UNCHANGED <<server, drawn, lost, turns>>

-----------------------------------------------------------------------------
(* The home page. *)

\* It reads the projects' next actions, then resumes a pending attempt.
Loads(t) ==
    /\ tab[t].at # "calling"
    /\ LET a == attempt[Browser[t]] IN
       Answered(t, IF a # NoAttempt THEN Calling(a) ELSE Home(Basis))
    /\ tab[t].at = "home" => tab' # tab
    /\ UNCHANGED <<server, attempt, drawn, lost, turns>>

\* Get or create, in one transaction: an attempt already stored is the one that is sent.
StartsNext(t) ==
    /\ tab[t].at = "home" /\ tab[t].basis # 0
    /\ LET b == Browser[t] IN
       IF attempt[b] # NoAttempt
       THEN Answered(t, Calling(attempt[b])) /\ UNCHANGED <<attempt, drawn>>
       ELSE /\ drawn < MaxRequests /\ drawn' = drawn + 1
            /\ Remembers(b, [req |-> drawn + 1, basis |-> tab[t].basis])
            /\ Answered(t, Calling([req |-> drawn + 1, basis |-> tab[t].basis]))
    /\ UNCHANGED <<server, lost, turns>>

\* A tab closed or reloaded; the request it had sent may have been served just before.
Reloads(t) ==
    /\ tab[t].at = "calling"
    /\ Answered(t, Home(0))
    /\ UNCHANGED <<server, attempt, drawn, lost, turns>>

-----------------------------------------------------------------------------
(* The rest of the system. *)

Ends(status) ==
    /\ \E s \in Open : sessions' = (sessions \ {s}) \cup {[s EXCEPT !.status = status]}
    /\ UNCHANGED <<consent, available, answers, attempt, tab, drawn, lost, turns>>

Turns ==
    /\ turns < MaxTurns /\ turns' = turns + 1
    /\ \/ \E c \in {"covered", "consent_reauthorization_required", "consent_unavailable"} \ {consent} :
            consent' = c /\ UNCHANGED available
       \/ available' = ~available /\ UNCHANGED consent
    /\ UNCHANGED <<sessions, answers, attempt, tab, drawn, lost>>

Init ==
    /\ sessions = {[no |-> 1, status |-> "open", by |-> 0]}
    /\ consent = "covered" /\ available = TRUE
    /\ answers = [r \in Requests |-> 0]
    /\ attempt = [b \in Browsers |-> NoAttempt]
    /\ tab = [t \in Tabs |-> Home(0)]
    /\ drawn = 0 /\ lost = 0 /\ turns = 0

Next ==
    \/ \E t \in Tabs : Creates(t) \/ CreatesUnheard(t) \/ PointsToOpen(t) \/ Refuses(t)
                       \/ Loads(t) \/ StartsNext(t) \/ Reloads(t)
    \/ Ends("completed") \/ Ends("failed")
    \/ Turns

Spec == Init /\ [][Next]_vars

-----------------------------------------------------------------------------
(* Properties. *)

\* One session of a project is open at a time, and two of them never share a number, whichever
\* tabs, browsers and stored attempts asked for them.
OneOpenSession ==
    /\ \A s, o \in Open : s = o
    /\ \A s, o \in sessions : s.no = o.no => s = o

====
