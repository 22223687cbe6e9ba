------------------------- MODULE RealtimeStream_proofs -------------------------
(***************************************************************************)
(* Theorems about RealtimeStream for every set of sockets, every window    *)
(* and every bound.  The log of a runtime only grows, and what is on its   *)
(* way to the page is copied from it, so the page can only apply what the  *)
(* log says; an acknowledgement in the log is below the frames the adapter *)
(* took.  Both rest on a runtime being made once: by the one join of the   *)
(* connection it is named after.                                           *)
(***************************************************************************)
EXTENDS RealtimeStream, SequenceTheorems, WellFoundedInduction, TLAPS

AllFed(f, k) == \A n \in 0 .. k - 1 : \E i \in DOMAIN f : f[i] = n

(* A runtime that was not made has an empty log; its acknowledgements are of *)
(* frames it recorded, and those were fed.                                   *)
RunOK(run, f) ==
  /\ run.next <= run.top
  /\ run.lease = 0 => run.events = <<>>
  /\ \A i \in DOMAIN run.events : run.events[i].ack < run.top
  /\ AllFed(f, run.top)

(* What the page gets is in the log of its runtime, or a refusal.          *)
MessageOK(m, runs) ==
  IF m.stream = NoSocket THEN m.event.kind \in Verdicts
  ELSE m.seq < Len(runs[m.stream].events) /\ m.event = runs[m.stream].events[m.seq + 1]

PageOK(p, runs, f) ==
  /\ p.acked <= p.next
  /\ p.stream = NoSocket => p.seen = <<>>
  /\ p.stream # NoSocket =>
       /\ Len(p.seen) <= Len(runs[p.stream].events)
       /\ \A i \in 1 .. Len(p.seen) : p.seen[i] = runs[p.stream].events[i]
  /\ AllFed(f, p.acked)

Made(r) == rt[r].lease > 0

(* A connection waits for its join while it is not joined.                 *)
Joining == {"join", "create", "confirm"}
Waiting(c) == (lane[c] # <<>> /\ lane[c][1].kind = "join") \/ task[c].at \in Joining

ConnOK(c) ==
  /\ Joined(c) => Made(conn[c].rt)
  /\ conn[c].open /\ ~Joined(c) => Waiting(c)
  /\ c > page.opened => ~conn[c].open /\ ~Joined(c) /\ ~Made(c) /\ task[c] = Idle

(* A join comes first in its own lane, before the runtime of its name is made. *)
LaneOK(m, l, i) ==
  /\ m.conn <= page.opened
  /\ m.kind = "join" => i = 1 /\ m.conn = l /\ ~Made(l) /\ ~Joined(l) /\ task[l] = Idle
  /\ m.kind = "frame" => m.conn = l \/ conn[m.conn].rt = l

TaskOK(t, l) ==
  /\ t # Idle => t.conn <= page.opened
  /\ t.at \in Joining => t.conn = l /\ ~Joined(l)
  /\ t.at \in {"join", "create"} => ~Made(l)
  /\ t.at \in {"confirm", "ready", "feed"} => Made(t.rt)
  /\ t.at = "confirm" => t.upto <= Len(rt[t.rt].events)
  /\ t.at = "frame" => Joined(t.conn)
  /\ t.at = "feed" => t.n <= rt[t.rt].top

LogsOK == \A r \in Runtimes : RunOK(rt[r], fed)
DownOK == \A i \in DOMAIN down : MessageOK(down[i], rt)
LanesOK == \A l \in Sockets : \A i \in DOMAIN lane[l] : LaneOK(lane[l][i], l, i)

Inv ==
  /\ TypeOK /\ PageOK(page, rt, fed) /\ LogsOK /\ DownOK
  /\ \A c \in Sockets : ConnOK(c)
  /\ LanesOK
  /\ \A l \in Sockets : TaskOK(task[l], l)
  /\ current # NoSocket => Made(current)

(* A run that goes on: nothing of its log is lost.                          *)
Grows(a, b) ==
  /\ Len(a.events) <= Len(b.events)
  /\ \A i \in 1 .. Len(a.events) : b.events[i] = a.events[i]
  /\ a.top <= b.top
  /\ a.lease = 0 <=> b.lease = 0

LogsGrow == \A r \in Runtimes : Grows(rt[r], rt'[r])
FedGrows == \A i \in DOMAIN fed : \E k \in DOMAIN fed' : fed'[k] = fed[i]

-----------------------------------------------------------------------------
(* Lemmas about the operators                                               *)

LEMMA LeqTrans == ASSUME NEW a \in Nat, NEW b \in Nat, NEW c \in Nat, a <= b, b <= c PROVE a <= c
  OBVIOUS

LEMMA FedFacts ==
  ASSUME FedGrows, NEW k \in Int, AllFed(fed, k) PROVE AllFed(fed', k)
  BY DEF FedGrows, AllFed

LEMMA RunMono == ASSUME FedGrows, NEW run \in Runs, RunOK(run, fed) PROVE RunOK(run, fed')
  BY FedFacts DEF RunOK, Runs

LEMMA MessageMono ==
  ASSUME TypeOK, rt' \in [Runtimes -> Runs], LogsGrow, NEW m \in Messages, MessageOK(m, rt)
  PROVE  MessageOK(m, rt')
<1>1. CASE m.stream = NoSocket
  BY <1>1 DEF MessageOK
<1>2. CASE m.stream # NoSocket
  <2>1. m.stream \in Runtimes /\ m.seq \in Nat
    BY <1>2 DEF Messages, Peers, Runtimes
  <2>2. rt[m.stream] \in Runs /\ rt'[m.stream] \in Runs /\ Grows(rt[m.stream], rt'[m.stream])
    BY <2>1 DEF TypeOK, LogsGrow
  <2>3. Len(rt[m.stream].events) \in Nat /\ Len(rt'[m.stream].events) \in Nat
    BY <2>2 DEF Runs
  <2>4. m.seq < Len(rt[m.stream].events) /\ m.event = rt[m.stream].events[m.seq + 1]
    BY <1>2 DEF MessageOK
  <2>5. /\ Len(rt[m.stream].events) <= Len(rt'[m.stream].events)
        /\ \A i \in 1 .. Len(rt[m.stream].events) : rt'[m.stream].events[i] = rt[m.stream].events[i]
    BY <2>2 DEF Grows
  <2>6. m.seq + 1 \in 1 .. Len(rt[m.stream].events)
    BY <2>1, <2>3, <2>4
  <2> QED BY <1>2, <2>1, <2>3, <2>4, <2>5, <2>6 DEF MessageOK
<1> QED BY <1>1, <1>2

LEMMA PageMono ==
  ASSUME TypeOK, rt' \in [Runtimes -> Runs], LogsGrow, FedGrows, PageOK(page, rt, fed)
  PROVE  PageOK(page, rt', fed')
<1>1. AllFed(fed', page.acked)
  BY FedFacts DEF PageOK, TypeOK, Pages
<1>2. CASE page.stream = NoSocket
  BY <1>1, <1>2 DEF PageOK
<1>3. CASE page.stream # NoSocket
  <2>1. page.stream \in Runtimes
    BY <1>3 DEF TypeOK, Pages, Peers, Runtimes
  <2>2. rt[page.stream] \in Runs /\ rt'[page.stream] \in Runs /\ Grows(rt[page.stream], rt'[page.stream])
    BY <2>1 DEF TypeOK, LogsGrow
  <2>3. /\ Len(rt[page.stream].events) \in Nat /\ Len(rt'[page.stream].events) \in Nat
    BY <2>2 DEF Runs
  <2>4. page.seen \in Seq(Events) /\ Len(page.seen) \in Nat
    BY DEF TypeOK, Pages
  <2>5. /\ Len(rt[page.stream].events) <= Len(rt'[page.stream].events)
        /\ \A i \in 1 .. Len(rt[page.stream].events) : rt'[page.stream].events[i] = rt[page.stream].events[i]
    BY <2>2 DEF Grows
  <2> QED BY <1>1, <1>3, <2>3, <2>4, <2>5 DEF PageOK
<1> QED BY <1>2, <1>3

LEMMA AppendedFacts ==
  ASSUME NEW run \in Runs, NEW f, RunOK(run, f), run.lease > 0, NEW e \in Events, e.ack < run.top
  PROVE  /\ Appended(run, e) \in Runs /\ RunOK(Appended(run, e), f) /\ Grows(run, Appended(run, e))
         /\ Appended(run, e).lease = run.lease /\ Appended(run, e).top = run.top
         /\ Appended(run, e).events # <<>>
         /\ Appended(run, e).subscriber = run.subscriber
<1> DEFINE log == Append(run.events, e)
           kept == IF Len(log) - Window > run.kept THEN Len(log) - Window ELSE run.kept
<1>1. /\ log \in Seq(Events) /\ Len(log) = Len(run.events) + 1 /\ Len(run.events) \in Nat
      /\ \A i \in 1 .. Len(run.events) : log[i] = run.events[i]
      /\ log[Len(log)] = e /\ log # <<>>
  BY DEF Runs
<1>2. kept \in Nat
  BY <1>1, BoundAssumption DEF Runs
<1>3. Appended(run, e) = [run EXCEPT !.events = log, !.kept = kept]
  BY DEF Appended
<1>4. \A i \in DOMAIN log : log[i].ack < run.top
  <2> TAKE i \in DOMAIN log
  <2>1. CASE i \in 1 .. Len(run.events)
    BY <1>1, <2>1 DEF RunOK, Runs
  <2>2. CASE i = Len(log)
    BY <1>1, <2>2
  <2>3. i \in 1 .. Len(run.events) \/ i = Len(log)
    BY <1>1
  <2> QED BY <2>1, <2>2, <2>3
<1> HIDE DEF log, kept
<1> DEFINE after == [run EXCEPT !.events = log, !.kept = kept]
<1>5. /\ after \in Runs /\ after.events = log
      /\ after.lease = run.lease /\ after.top = run.top /\ after.next = run.next
      /\ after.subscriber = run.subscriber
  BY <1>1, <1>2 DEF Runs
<1> HIDE DEF after
<1>6. RunOK(after, f)
  BY <1>4, <1>5 DEF RunOK
<1>7. Grows(run, after)
  <2>1. run.top \in Nat /\ run.lease \in Nat
    BY DEF Runs
  <2> QED BY <1>1, <1>5, <2>1 DEF Grows
<1>8. Appended(run, e) = after
  BY <1>3 DEF after
<1> QED BY <1>1, <1>5, <1>6, <1>7, <1>8

LEMMA NewestFacts ==
  ASSUME NEW run \in Runs, run.events # <<>>, NEW r \in Runtimes
  PROVE  /\ Newest(r, run) \in Seq(Messages)
         /\ \A i \in DOMAIN Newest(r, run) :
              /\ Newest(r, run)[i].stream = r /\ Newest(r, run)[i].seq = Len(run.events) - 1
              /\ Newest(r, run)[i].event = run.events[Len(run.events)]
<1> DEFINE m == Numbered(r, Len(run.events) - 1, run.events[Len(run.events)])
<1>1. Len(run.events) \in Nat \ {0} /\ run.events[Len(run.events)] \in Events
  BY DEF Runs
<1>2. m \in Messages
  BY <1>1 DEF Numbered, Messages, Peers, Runtimes
<1>3. /\ m.stream = r /\ m.seq = Len(run.events) - 1 /\ m.event = run.events[Len(run.events)]
  BY DEF Numbered
<1>4. Newest(r, run) = <<m>>
  BY DEF Newest
<1> HIDE DEF m
<1> QED BY <1>2, <1>3, <1>4

LEMMA NewestOK ==
  ASSUME NEW r \in Runtimes, NEW runs, runs[r] \in Runs, runs[r].events # <<>>
  PROVE  \A i \in DOMAIN Newest(r, runs[r]) : MessageOK(Newest(r, runs[r])[i], runs)
<1>1. Len(runs[r].events) \in Nat \ {0} /\ r # NoSocket
  BY SocketAssumption DEF Runs, Runtimes
<1> QED BY <1>1, NewestFacts DEF MessageOK

LEMMA SentFacts ==
  ASSUME TypeOK, NEW c, NEW msgs \in Seq(Messages)
  PROVE  /\ Sent(c, msgs) \in Seq(Messages)
         /\ \A i \in DOMAIN Sent(c, msgs) : \/ \E k \in DOMAIN down : Sent(c, msgs)[i] = down[k]
                                            \/ \E k \in DOMAIN msgs : Sent(c, msgs)[i] = msgs[k]
<1>1. down \in Seq(Messages)
  BY DEF TypeOK
<1>2. CASE Sent(c, msgs) = down
  BY <1>1, <1>2
<1>3. CASE Sent(c, msgs) = down \o msgs
  <2>1. /\ down \o msgs \in Seq(Messages) /\ Len(down \o msgs) = Len(down) + Len(msgs)
        /\ Len(down) \in Nat /\ Len(msgs) \in Nat
    BY <1>1
  <2>2. \A i \in 1 .. Len(down) + Len(msgs) :
          (down \o msgs)[i] = IF i <= Len(down) THEN down[i] ELSE msgs[i - Len(down)]
    BY <1>1
  <2>3. ASSUME NEW i \in 1 .. Len(down) + Len(msgs)
        PROVE  \/ \E k \in DOMAIN down : (down \o msgs)[i] = down[k]
               \/ \E k \in DOMAIN msgs : (down \o msgs)[i] = msgs[k]
    <3>1. CASE i <= Len(down)
      BY <1>1, <2>1, <2>2, <3>1
    <3>2. CASE i > Len(down)
      <4>1. i - Len(down) \in DOMAIN msgs /\ (down \o msgs)[i] = msgs[i - Len(down)]
        BY <1>1, <2>1, <2>2, <3>2
      <4> QED BY <4>1
    <3> QED BY <2>1, <3>1, <3>2
  <2> QED BY <1>3, <2>1, <2>3
<1> QED BY <1>2, <1>3 DEF Sent

LEMMA DownStep ==
  ASSUME Inv, rt' \in [Runtimes -> Runs], LogsGrow, NEW c, NEW msgs \in Seq(Messages), down' = Sent(c, msgs),
         \A i \in DOMAIN msgs : MessageOK(msgs[i], rt')
  PROVE  down' \in Seq(Messages) /\ DownOK'
<1>1. TypeOK /\ down \in Seq(Messages)
  BY DEF Inv, TypeOK
<1>2. \A k \in DOMAIN down : down[k] \in Messages /\ MessageOK(down[k], rt)
  BY <1>1 DEF Inv, DownOK
<1>3. \A k \in DOMAIN down : MessageOK(down[k], rt')
  BY <1>1, <1>2, MessageMono
<1>4. \A i \in DOMAIN down' : MessageOK(down'[i], rt')
  BY <1>1, <1>3, SentFacts
<1> QED BY <1>1, <1>4, SentFacts DEF DownOK

LEMMA DownStays ==
  ASSUME Inv, rt' \in [Runtimes -> Runs], LogsGrow, UNCHANGED down
  PROVE  down' \in Seq(Messages) /\ DownOK'
<1>1. TypeOK /\ down \in Seq(Messages)
  BY DEF Inv, TypeOK
<1>2. \A k \in DOMAIN down : down[k] \in Messages /\ MessageOK(down[k], rt)
  BY <1>1 DEF Inv, DownOK
<1>3. \A k \in DOMAIN down : MessageOK(down[k], rt')
  BY <1>1, <1>2, MessageMono
<1> QED BY <1>1, <1>3 DEF DownOK

LEMMA MadeFacts ==
  ASSUME Inv, rt' \in [Runtimes -> Runs], LogsGrow, NEW r \in Runtimes
  PROVE  /\ rt'[r].lease > 0 <=> rt[r].lease > 0
         /\ rt[r] \in Runs /\ rt'[r] \in Runs /\ rt[r].top <= rt'[r].top
         /\ rt[r].top \in Nat /\ rt'[r].top \in Nat
         /\ Len(rt[r].events) <= Len(rt'[r].events)
         /\ Len(rt[r].events) \in Nat /\ Len(rt'[r].events) \in Nat
<1>1. rt[r] \in Runs /\ rt'[r] \in Runs /\ Grows(rt[r], rt'[r])
  BY DEF Inv, TypeOK, LogsGrow
<1>2. rt[r].lease \in Nat /\ rt'[r].lease \in Nat
  BY <1>1 DEF Runs
<1>3. rt'[r].lease > 0 <=> rt[r].lease > 0
  BY <1>1, <1>2 DEF Grows
<1> QED BY <1>1, <1>3 DEF Grows, Runs

LEMMA TaskFacts ==
  ASSUME Inv, NEW l \in Sockets, task[l] # Idle
  PROVE  /\ task[l].conn \in Sockets /\ task[l].conn <= page.opened
         /\ task[l].at \in {"confirm", "ready", "feed"} =>
              task[l].rt \in Runtimes /\ Made(task[l].rt) /\ task[l].rt \in Nat
         /\ task[l].at = "confirm" => task[l].upto \in Nat /\ task[l].seen \in Nat
         /\ task[l].at = "feed" => task[l].n \in 0 .. MaxFrames - 1
         /\ task[l].at = "frame" => task[l].msg \in FrameMessages
         /\ task[l].at = "join" => task[l].msg \in JoinMessages
         /\ task[l].at \in {"join", "frame", "create", "confirm", "ready", "feed"}
<1>1. task[l] \in Tasks /\ TaskOK(task[l], l)
  BY DEF Inv, TypeOK
<1>2. \A r \in Runtimes : r \in Nat
  BY SocketAssumption DEF Runtimes
<1> QED BY <1>1, <1>2 DEF Tasks, TaskOK

LEMMA TaskStays ==
  ASSUME Inv, rt' \in [Runtimes -> Runs], LogsGrow, page'.opened = page.opened, NEW l \in Sockets,
         \A c \in Sockets : conn'[c].rt = conn[c].rt, task'[l] = task[l]
  PROVE  TaskOK(task[l], l)'
<1>1. TaskOK(task[l], l)
  BY DEF Inv
<1>2. CASE task[l] = Idle
  BY <1>2 DEF Idle, TaskOK, Joining
<1>3. CASE task[l] # Idle
  <2>1. task[l].at \in {"confirm", "ready", "feed"} => task[l].rt \in Runtimes
    BY <1>3, TaskFacts
  <2>2. task[l].conn \in Sockets
    BY <1>3, TaskFacts
  <2>3. l \in Runtimes
    BY DEF Runtimes
  <2>4. task[l].at = "confirm" => task[l].upto \in Nat
    BY <1>3, TaskFacts
  <2>5. task[l].at = "feed" => task[l].n \in Nat
    BY <1>3, TaskFacts, BoundAssumption
  <2>6. rt'[l].lease > 0 <=> rt[l].lease > 0
    BY <2>3, MadeFacts
  <2>7. ASSUME task[l].at \in {"confirm", "ready", "feed"}
        PROVE  /\ rt'[task[l].rt].lease > 0
               /\ rt[task[l].rt].top <= rt'[task[l].rt].top
               /\ rt[task[l].rt].top \in Nat /\ rt'[task[l].rt].top \in Nat
               /\ Len(rt[task[l].rt].events) <= Len(rt'[task[l].rt].events)
               /\ Len(rt[task[l].rt].events) \in Nat /\ Len(rt'[task[l].rt].events) \in Nat
    <3>1. task[l].rt \in Runtimes /\ rt[task[l].rt].lease > 0
      BY <1>3, <2>7, TaskFacts DEF Made
    <3> QED BY <3>1, MadeFacts
  <2>8. /\ task[l].at \in Joining => task[l].conn = l /\ ~Joined(l)'
        /\ task[l].at \in {"join", "create"} => ~Made(l)'
        /\ task[l].at = "frame" => Joined(task[l].conn)'
    BY <1>1, <2>2, <2>6 DEF TaskOK, Made, Joined
  <2>9. task[l].at \in {"confirm", "ready", "feed"} => Made(task[l].rt)'
    BY <2>7 DEF Made
  <2>10. task[l].at = "confirm" => task[l].upto <= Len(rt'[task[l].rt].events)
    <3>1. SUFFICES ASSUME task[l].at = "confirm" PROVE task[l].upto <= Len(rt'[task[l].rt].events)
      OBVIOUS
    <3>2. task[l].upto <= Len(rt[task[l].rt].events)
      BY <1>1, <3>1 DEF TaskOK
    <3>3. /\ Len(rt[task[l].rt].events) <= Len(rt'[task[l].rt].events)
          /\ Len(rt[task[l].rt].events) \in Nat /\ Len(rt'[task[l].rt].events) \in Nat
      BY <2>7, <3>1
    <3>4. task[l].upto \in Nat
      BY <2>4, <3>1
    <3> QED BY <3>2, <3>3, <3>4, LeqTrans
  <2>11. task[l].at = "feed" => task[l].n <= rt'[task[l].rt].top
    BY <1>1, <2>5, <2>7 DEF TaskOK
  <2>12. task[l].conn <= page'.opened
    BY <1>3, TaskFacts
  <2> QED BY <2>8, <2>9, <2>10, <2>11, <2>12 DEF TaskOK
<1> QED BY <1>2, <1>3

(* A step of the server that makes no runtime and admits nobody.            *)
LEMMA StepKeeps ==
  ASSUME Inv, page' = page, lane' = lane,
         rt' \in [Runtimes -> Runs], LogsGrow, LogsOK',
         fed' \in Seq(0 .. MaxFrames - 1), FedGrows,
         down' \in Seq(Messages), DownOK',
         conn' \in [Sockets -> [open : BOOLEAN, rt : Peers]],
         \A c \in Sockets : conn'[c].rt = conn[c].rt /\ (conn'[c].open => conn[c].open),
         task' \in [Sockets -> Tasks],
         \A c \in Sockets :
           \/ task'[c] = task[c]
           \/ /\ task[c] # Idle /\ TaskOK(task[c], c)'
              /\ conn'[c].open /\ task[c].at \in Joining => task'[c].at \in Joining,
         current' \in {current, NoSocket}, mode' \in {"produce", "resume-only", "none"}
  PROVE  Inv'
<1>1. TypeOK'
  <2>1. page' \in Pages /\ page'.acked <= page'.next /\ lane' \in [Sockets -> Seq(JoinMessages \cup FrameMessages)]
    BY DEF Inv, TypeOK
  <2>2. current' \in Peers
    BY DEF Inv, TypeOK, Peers
  <2>3. \A r \in Runtimes : rt'[r].next <= rt'[r].top
    BY DEF LogsOK, RunOK
  <2> QED BY <2>1, <2>2, <2>3 DEF TypeOK
<1>2. PageOK(page, rt, fed)'
  BY PageMono DEF Inv
<1>3. \A r \in Runtimes : rt'[r].lease > 0 <=> rt[r].lease > 0
  BY MadeFacts
<1>4. ASSUME NEW c \in Sockets PROVE ConnOK(c)'
  <2>1. ConnOK(c) /\ conn[c].rt \in Peers /\ c \in Runtimes
    BY DEF Inv, TypeOK, Runtimes
  <2>2. Joined(c)' => Made(conn[c].rt)'
    BY <1>3, <2>1 DEF ConnOK, Joined, Made, Peers, Runtimes
  <2>3. conn'[c].open /\ ~Joined(c)' => Waiting(c)'
    BY <2>1 DEF ConnOK, Joined, Waiting, Idle, Joining
  <2>4. c > page'.opened => ~conn'[c].open /\ ~Joined(c)' /\ ~Made(c)' /\ task'[c] = Idle
    BY <1>3, <2>1 DEF ConnOK, Joined, Made
  <2> QED BY <2>2, <2>3, <2>4 DEF ConnOK
<1>5. LanesOK'
  <2>1. ASSUME NEW l \in Sockets, NEW i \in DOMAIN lane[l] PROVE LaneOK(lane[l][i], l, i)'
    <3>1. LaneOK(lane[l][i], l, i) /\ l \in Runtimes /\ lane[l][i].conn \in Sockets
      BY DEF Inv, LanesOK, TypeOK, JoinMessages, FrameMessages, Runtimes
    <3> QED BY <1>3, <3>1 DEF LaneOK, Made, Joined
  <2> QED BY <2>1 DEF LanesOK
<1>6. ASSUME NEW l \in Sockets PROVE TaskOK(task[l], l)'
  BY TaskStays
<1>7. current' # NoSocket => Made(current)'
  BY <1>3 DEF Inv, TypeOK, Made, Peers, Runtimes
<1> QED BY <1>1, <1>2, <1>4, <1>5, <1>6, <1>7 DEF Inv

-----------------------------------------------------------------------------
(* Steps of the logs                                                        *)

LEMMA GrowsSelf == ASSUME NEW run \in Runs PROVE Grows(run, run)
  BY DEF Grows, Runs

LEMMA GrowsOn ==
  ASSUME NEW a \in Runs, NEW b \in Runs, NEW c \in Runs, Grows(a, b), Grows(b, c) PROVE Grows(a, c)
<1>1. Len(a.events) \in Nat /\ Len(b.events) \in Nat /\ Len(c.events) \in Nat
  BY DEF Runs
<1>2. a.top \in Nat /\ b.top \in Nat /\ c.top \in Nat
  BY BoundAssumption DEF Runs
<1> QED BY <1>1, <1>2 DEF Grows

LEMMA FedStays == ASSUME TypeOK, fed' = fed PROVE FedGrows /\ fed' \in Seq(0 .. MaxFrames - 1)
  BY DEF FedGrows, TypeOK

LEMMA RtStep ==
  ASSUME Inv, NEW r \in Runtimes, NEW new \in Runs, RunOK(new, fed'), Grows(rt[r], new),
         rt' = [rt EXCEPT ![r] = new], FedGrows
  PROVE  rt' \in [Runtimes -> Runs] /\ LogsGrow /\ LogsOK' /\ rt'[r] = new
<1>1. rt \in [Runtimes -> Runs]
  BY DEF Inv, TypeOK
<1>2. rt' \in [Runtimes -> Runs] /\ rt'[r] = new /\ \A x \in Runtimes \ {r} : rt'[x] = rt[x]
  BY <1>1
<1>3. LogsGrow
  BY <1>1, <1>2, GrowsSelf DEF LogsGrow
<1>4. \A x \in Runtimes : RunOK(rt'[x], fed')
  BY <1>1, <1>2, RunMono DEF Inv, LogsOK
<1> QED BY <1>2, <1>3, <1>4 DEF LogsOK

LEMMA RtStays ==
  ASSUME Inv, rt' = rt, FedGrows
  PROVE  rt' \in [Runtimes -> Runs] /\ LogsGrow /\ LogsOK'
<1>1. rt \in [Runtimes -> Runs]
  BY DEF Inv, TypeOK
<1>2. LogsGrow
  BY <1>1, GrowsSelf DEF LogsGrow
<1>3. \A x \in Runtimes : RunOK(rt'[x], fed')
  BY <1>1, RunMono DEF Inv, LogsOK
<1> QED BY <1>1, <1>2, <1>3 DEF LogsOK

LEMMA ReleasedFacts ==
  ASSUME NEW run \in Runs, run.lease > 0, NEW f, RunOK(run, f), NEW c
  PROVE  /\ Released(run, c) \in Runs /\ RunOK(Released(run, c), f) /\ Grows(run, Released(run, c))
         /\ Released(run, c).lease > 0 /\ Released(run, c).events = run.events
<1> DEFINE up    == run.lease + 1
           after == [run EXCEPT !.producer = NoSocket, !.lease = up, !.subscriber = NoSocket]
<1>1. /\ after \in Runs /\ after.events = run.events /\ after.lease = run.lease + 1
      /\ after.top = run.top /\ after.next = run.next
  <2>1. up \in Nat /\ NoSocket \in Peers
    BY DEF Runs, Peers
  <2> HIDE DEF up
  <2>2. /\ after \in Runs /\ after.events = run.events /\ after.lease = up
        /\ after.top = run.top /\ after.next = run.next
    BY <2>1 DEF Runs
  <2> QED BY <2>2 DEF up
<1>2. run.lease \in Nat /\ run.top \in Int
  BY DEF Runs
<1> HIDE DEF after
<1>3. RunOK(after, f) /\ Grows(run, after) /\ after.lease > 0
  BY <1>1, <1>2, GrowsSelf DEF RunOK, Grows
<1>4. Released(run, c) = IF run.producer = c THEN after ELSE run
  BY DEF Released, after
<1> QED BY <1>1, <1>3, <1>4, GrowsSelf

LEMMA ClaimedFacts ==
  ASSUME NEW run \in Runs, run.lease > 0, NEW f, RunOK(run, f), NEW c \in Sockets
  PROVE  /\ Claimed(run, c) \in Runs /\ RunOK(Claimed(run, c), f) /\ Grows(run, Claimed(run, c))
         /\ Claimed(run, c).events = run.events
<1> DEFINE up    == run.lease + 1
           after == [run EXCEPT !.producer = c, !.lease = up, !.subscriber = c]
<1>1. /\ after \in Runs /\ after.events = run.events /\ after.lease = run.lease + 1
      /\ after.top = run.top /\ after.next = run.next
  <2>1. up \in Nat /\ c \in Peers
    BY DEF Runs, Peers
  <2> HIDE DEF up
  <2>2. /\ after \in Runs /\ after.events = run.events /\ after.lease = up
        /\ after.top = run.top /\ after.next = run.next
    BY <2>1 DEF Runs
  <2> QED BY <2>2 DEF up
<1>2. run.lease \in Nat /\ run.top \in Int
  BY DEF Runs
<1> HIDE DEF after
<1>3. RunOK(after, f) /\ Grows(run, after)
  BY <1>1, <1>2, GrowsSelf DEF RunOK, Grows
<1>4. Claimed(run, c) = after
  BY DEF Claimed, after
<1> QED BY <1>1, <1>3, <1>4

(* A made runtime gets an event, and its newest event is sent to somebody.  *)
LEMMA AppendStep ==
  ASSUME Inv, NEW r \in Runtimes, Made(r), NEW e \in Events, e.ack < rt[r].top, NEW c,
         rt' = [rt EXCEPT ![r] = Appended(rt[r], e)], down' = Sent(c, Newest(r, Appended(rt[r], e))),
         FedGrows
  PROVE  /\ rt' \in [Runtimes -> Runs] /\ LogsGrow /\ LogsOK'
         /\ down' \in Seq(Messages) /\ DownOK'
<1> DEFINE new == Appended(rt[r], e)
<1>1. rt[r] \in Runs /\ RunOK(rt[r], fed') /\ rt[r].lease > 0
  BY RunMono DEF Inv, TypeOK, LogsOK, Made
<1>2. new \in Runs /\ RunOK(new, fed') /\ Grows(rt[r], new) /\ new.events # <<>>
  BY <1>1, AppendedFacts
<1> HIDE DEF new
<1>3. rt' = [rt EXCEPT ![r] = new] /\ down' = Sent(c, Newest(r, new))
  BY DEF new
<1>4. rt' \in [Runtimes -> Runs] /\ LogsGrow /\ LogsOK' /\ rt'[r] = new
  BY <1>2, <1>3, RtStep
<1>5. Newest(r, new) \in Seq(Messages)
  BY <1>2, NewestFacts
<1>6. \A i \in DOMAIN Newest(r, new) : MessageOK(Newest(r, new)[i], rt')
  BY <1>2, <1>4, NewestOK
<1> QED BY <1>3, <1>4, <1>5, <1>6, DownStep

LEMMA CodeFacts ==
  ASSUME NEW code \in Kinds
  PROVE  Event(code, -1) \in Events /\ Event(code, -1).ack = -1 /\ Event(code, -1).kind = code
  BY BoundAssumption DEF Event, Events

LEMMA RefusalFacts ==
  ASSUME NEW code \in Verdicts, NEW runs
  PROVE  /\ <<Refusal(code)>> \in Seq(Messages)
         /\ \A i \in DOMAIN <<Refusal(code)>> : MessageOK(<<Refusal(code)>>[i], runs)
<1> DEFINE m == Refusal(code)
<1>1. Event(code, -1) \in Events /\ Event(code, -1).kind = code
  BY CodeFacts DEF Kinds
<1>2. m \in Messages /\ m.stream = NoSocket /\ m.event = Event(code, -1)
  BY <1>1 DEF Refusal, Numbered, Messages, Peers
<1> HIDE DEF m
<1>3. MessageOK(m, runs)
  BY <1>1, <1>2 DEF MessageOK
<1>4. <<Refusal(code)>> = <<m>>
  BY DEF m
<1> QED BY <1>2, <1>3, <1>4

Closes(c) ==
  /\ conn' \in [Sockets -> [open : BOOLEAN, rt : Peers]]
  /\ \A x \in Sockets : conn'[x].rt = conn[x].rt /\ (conn'[x].open => conn[x].open)
  /\ ~conn'[c].open

LEMMA CloseFacts ==
  ASSUME TypeOK, NEW c \in Sockets, conn' = [conn EXCEPT ![c].open = FALSE] \/ (conn' = conn /\ ~conn[c].open)
  PROVE  Closes(c)
<1>1. conn \in [Sockets -> [open : BOOLEAN, rt : Peers]]
  BY DEF TypeOK
<1>2. CASE conn' = conn /\ ~conn[c].open
  BY <1>1, <1>2 DEF Closes
<1>3. CASE conn' = [conn EXCEPT ![c].open = FALSE]
  <2> DEFINE closed == [conn[c] EXCEPT !.open = FALSE]
  <2>1. conn[c] \in [open : BOOLEAN, rt : Peers]
    BY <1>1
  <2>2. closed \in [open : BOOLEAN, rt : Peers] /\ closed.open = FALSE /\ closed.rt = conn[c].rt
    BY <2>1
  <2>3. conn' = [conn EXCEPT ![c] = closed]
    BY <1>3
  <2> HIDE DEF closed
  <2>4. /\ conn' \in [Sockets -> [open : BOOLEAN, rt : Peers]] /\ conn'[c] = closed
        /\ \A x \in Sockets : x # c => conn'[x] = conn[x]
    BY <1>1, <2>2, <2>3
  <2> QED BY <2>2, <2>4 DEF Closes
<1> QED BY <1>2, <1>3

LEMMA FailFacts ==
  ASSUME Inv, NEW c \in Sockets, NEW code \in Verdicts, Fail(c, code), FedGrows
  PROVE  /\ rt' \in [Runtimes -> Runs] /\ LogsGrow /\ LogsOK'
         /\ down' \in Seq(Messages) /\ DownOK' /\ Closes(c)
<1>1. TypeOK
  BY DEF Inv
<1>2. CASE ~conn[c].open
  <2>1. rt' = rt /\ down' = down /\ conn' = conn
    BY <1>2 DEF Fail
  <2> QED BY <1>1, <1>2, <2>1, RtStays, DownStays, CloseFacts
<1>3. CASE conn[c].open /\ ~Joined(c)
  <2>1. /\ rt' = rt /\ down' = Sent(c, <<Refusal(code)>>)
        /\ conn' = [conn EXCEPT ![c].open = FALSE]
    BY <1>3 DEF Fail
  <2>2. rt' \in [Runtimes -> Runs] /\ LogsGrow /\ LogsOK'
    BY <2>1, RtStays
  <2>3. down' \in Seq(Messages) /\ DownOK'
    BY <2>1, <2>2, RefusalFacts, DownStep
  <2> QED BY <1>1, <2>1, <2>2, <2>3, CloseFacts
<1>4. CASE conn[c].open /\ Joined(c)
  <2> DEFINE r   == conn[c].rt
             e   == Event(code, -1)
             run == Appended(rt[r], e)
             new == Released(run, c)
  <2>1. /\ rt' = [rt EXCEPT ![r] = new] /\ down' = Sent(c, Newest(r, run))
        /\ conn' = [conn EXCEPT ![c].open = FALSE]
    BY <1>4 DEF Fail
  <2>2. ConnOK(c) /\ conn[c] \in [open : BOOLEAN, rt : Peers]
    BY DEF Inv, TypeOK
  <2>3. r \in Runtimes /\ rt[r].lease > 0
    BY <1>4, <2>2 DEF ConnOK, Joined, Made, Peers, Runtimes
  <2>4. e \in Events /\ e.ack = -1
    BY CodeFacts DEF Kinds
  <2>5. rt[r] \in Runs /\ RunOK(rt[r], fed') /\ e.ack < rt[r].top
    BY <2>3, <2>4, RunMono DEF Inv, TypeOK, LogsOK, Runs
  <2> HIDE DEF r, e
  <2>6. run \in Runs /\ RunOK(run, fed') /\ Grows(rt[r], run) /\ run.events # <<>> /\ run.lease > 0
    BY <2>3, <2>4, <2>5, AppendedFacts
  <2> HIDE DEF run
  <2>7. new \in Runs /\ RunOK(new, fed') /\ Grows(run, new) /\ new.events = run.events
    BY <2>6, ReleasedFacts
  <2> HIDE DEF new
  <2>8. rt' \in [Runtimes -> Runs] /\ LogsGrow /\ LogsOK' /\ rt'[r] = new
    BY <2>1, <2>3, <2>5, <2>6, <2>7, GrowsOn, RtStep
  <2>9. Newest(r, run) \in Seq(Messages) /\ r # NoSocket
    BY <2>3, <2>6, NewestFacts, SocketAssumption DEF Runtimes
  <2>10. \A i \in DOMAIN Newest(r, run) : MessageOK(Newest(r, run)[i], rt')
    <3>1. Len(run.events) \in Nat \ {0}
      BY <2>6 DEF Runs
    <3> QED BY <2>3, <2>6, <2>7, <2>8, <2>9, <3>1, NewestFacts DEF MessageOK
  <2> QED BY <1>1, <2>1, <2>8, <2>9, <2>10, DownStep, CloseFacts
<1> QED BY <1>2, <1>3, <1>4

(* The task of a lane ends.                                                 *)
LEMMA FinishFacts ==
  ASSUME Inv, NEW l \in Sockets, Finish(l)
  PROVE  /\ task' \in [Sockets -> Tasks] /\ task'[l] = Idle
         /\ \A c \in Sockets : c # l => task'[c] = task[c]
         /\ TaskOK(task[l], l)'
<1>1. task' \in [Sockets -> Tasks] /\ task'[l] = Idle /\ \A c \in Sockets : c # l => task'[c] = task[c]
  BY DEF Inv, TypeOK, Finish, Tasks
<1> QED BY <1>1 DEF TaskOK, Idle, Joining

(* A step that ends the task of a lane, or none.                            *)
LEMMA FinishingKeeps ==
  ASSUME Inv, NEW l \in Sockets, Finish(l), task[l] # Idle, page' = page, lane' = lane,
         rt' \in [Runtimes -> Runs], LogsGrow, LogsOK',
         fed' \in Seq(0 .. MaxFrames - 1), FedGrows,
         down' \in Seq(Messages), DownOK',
         (conn' = conn /\ task[l].at \notin Joining) \/ Closes(task[l].conn),
         current' \in {current, NoSocket}, mode' \in {"produce", "resume-only", "none"}
  PROVE  Inv'
<1>1. /\ conn' \in [Sockets -> [open : BOOLEAN, rt : Peers]]
      /\ \A c \in Sockets : conn'[c].rt = conn[c].rt /\ (conn'[c].open => conn[c].open)
  BY DEF Closes, Inv, TypeOK
<1>2. task[l].at \in Joining => ~conn'[l].open
  <2>1. task[l].at \in Joining => task[l].conn = l
    BY DEF Inv, TaskOK
  <2> QED BY <2>1 DEF Closes
<1>3. \A c \in Sockets :
         \/ task'[c] = task[c]
         \/ /\ task[c] # Idle /\ TaskOK(task[c], c)'
            /\ conn'[c].open /\ task[c].at \in Joining => task'[c].at \in Joining
  <2>1. \A c \in Sockets : c # l => task'[c] = task[c]
    BY FinishFacts
  <2>2. TaskOK(task[l], l)'
    BY FinishFacts
  <2> QED BY <1>2, <2>1, <2>2
<1>4. task' \in [Sockets -> Tasks]
  BY FinishFacts
<1> QED BY <1>1, <1>3, <1>4, StepKeeps

-----------------------------------------------------------------------------
(* Joins                                                                    *)

LEMMA VerdictFacts ==
  ASSUME Inv, NEW c \in Sockets, NEW m \in JoinMessages
  PROVE  /\ JoinVerdict(c, m) \in Verdicts \cup {"accepted"}
         /\ JoinVerdict(c, m) = "accepted" /\ Resumes(m) =>
              m.stream \in Runtimes /\ Made(m.stream) /\ m.n \in Nat /\ m.n <= Len(rt[m.stream].events)
<1>1. JoinVerdict(c, m) \in Verdicts \cup {"accepted"}
  BY DEF JoinVerdict, Verdicts
<1>2. JoinVerdict(c, m) = "accepted" /\ Resumes(m) => Recoverable(m)
  BY DEF JoinVerdict
<1>3. Resumes(m) => m.stream \in Runtimes /\ m.n \in Nat
  BY DEF Resumes, JoinMessages, Peers, Runtimes
<1>4. Resumes(m) /\ Recoverable(m) => Made(m.stream) /\ m.n <= Len(rt[m.stream].events)
  BY DEF Inv, Recoverable, Resumes
<1> QED BY <1>1, <1>2, <1>3, <1>4

LEMMA ReplayFacts ==
  ASSUME Inv, NEW r \in Runtimes, NEW seen \in Nat, NEW upto \in Nat, upto <= Len(rt[r].events)
  PROVE  /\ ReplayAfter(r, seen, upto) \in Seq(Messages)
         /\ \A i \in DOMAIN ReplayAfter(r, seen, upto) : MessageOK(ReplayAfter(r, seen, upto)[i], rt)
<1>1. rt[r].events \in Seq(Events) /\ Len(rt[r].events) \in Nat /\ r # NoSocket
  BY SocketAssumption DEF Inv, TypeOK, Runs, Runtimes
<1> DEFINE at(i) == Numbered(r, seen + i - 1, rt[r].events[seen + i])
<1>2. ASSUME NEW i \in 1 .. upto - seen PROVE at(i) \in Messages /\ MessageOK(at(i), rt)
  <2>1. seen + i \in 1 .. Len(rt[r].events) /\ seen + i - 1 \in Nat /\ seen + i - 1 < Len(rt[r].events)
    BY <1>1
  <2>2. rt[r].events[seen + i] \in Events
    BY <1>1, <2>1
  <2>3. at(i) \in Messages
    BY <2>1, <2>2 DEF Numbered, Messages, Peers, Runtimes
  <2>4. at(i).stream = r /\ at(i).seq = seen + i - 1 /\ at(i).event = rt[r].events[seen + i]
    BY DEF Numbered
  <2>5. at(i).seq + 1 = seen + i
    BY <2>4
  <2> HIDE DEF at
  <2>6. MessageOK(at(i), rt)
    BY <1>1, <2>1, <2>4, <2>5 DEF MessageOK
  <2> QED BY <2>3, <2>6
<1>3. ReplayAfter(r, seen, upto) = [i \in 1 .. upto - seen |-> at(i)]
  BY DEF ReplayAfter
<1> HIDE DEF at
<1>4. CASE upto - seen \in Nat
  BY <1>2, <1>3, <1>4
<1>5. CASE upto < seen
  <2>1. 1 .. upto - seen = {}
    BY <1>5
  <2>2. [i \in 1 .. upto - seen |-> at(i)] = <<>>
    BY <2>1
  <2> QED BY <1>3, <2>2
<1> QED BY <1>4, <1>5

(* The connection of a join becomes one of a made runtime.                  *)
LEMMA AdmitKeeps ==
  ASSUME Inv, NEW l \in Sockets, task[l].at \in {"join", "confirm"}, NEW r \in Runtimes, Made(r),
         NEW seen \in Nat, NEW upto \in Nat, upto <= Len(rt[r].events),
         Admit(l, task[l].conn, r, seen, upto), UNCHANGED <<rt, page, lane, current, mode, fed>>
  PROVE  Inv'
<1>1. task[l] # Idle /\ task[l].conn = l /\ ~Joined(l) /\ l <= page.opened
  BY TaskFacts DEF Inv, TaskOK, Idle, Joining
<1>2. /\ conn' = [conn EXCEPT ![l].rt = r] /\ down' = Sent(l, ReplayAfter(r, seen, upto))
      /\ task' = [task EXCEPT ![l] = [at |-> "ready", conn |-> l, rt |-> r]]
  BY <1>1 DEF Admit
<1>3. TypeOK /\ conn \in [Sockets -> [open : BOOLEAN, rt : Peers]] /\ task \in [Sockets -> Tasks]
  BY DEF Inv, TypeOK
<1>4. /\ conn' \in [Sockets -> [open : BOOLEAN, rt : Peers]]
      /\ \A c \in Sockets : conn'[c].open = conn[c].open /\ (c # l => conn'[c].rt = conn[c].rt)
      /\ conn'[l].rt = r
  BY <1>2, <1>3 DEF Peers, Runtimes
<1>5. /\ task' \in [Sockets -> Tasks] /\ \A c \in Sockets : c # l => task'[c] = task[c]
      /\ task'[l] = [at |-> "ready", conn |-> l, rt |-> r]
  BY <1>2, <1>3 DEF Tasks
<1>6. FedGrows /\ rt' \in [Runtimes -> Runs] /\ LogsGrow /\ LogsOK'
  BY <1>3, FedStays, RtStays
<1>7. down' \in Seq(Messages) /\ DownOK'
  BY <1>2, <1>6, ReplayFacts, DownStep
<1>8. TypeOK'
  BY <1>3, <1>4, <1>5, <1>7 DEF TypeOK
<1>9. PageOK(page, rt, fed)' /\ (current' # NoSocket => Made(current)')
  BY DEF Inv, PageOK, AllFed, Made
<1>10. r # NoSocket /\ NoSocket \notin Sockets
  BY SocketAssumption DEF Runtimes
<1>11. ASSUME NEW c \in Sockets PROVE ConnOK(c)'
  <2>1. CASE c = l
    <3>1. Joined(c)' /\ Made(conn[c].rt)'
      BY <1>4, <1>10, <2>1 DEF Joined, Made
    <3>2. ~(c > page'.opened)
      BY <1>1, <1>3, <2>1, SocketAssumption DEF TypeOK, Pages
    <3> QED BY <3>1, <3>2 DEF ConnOK
  <2>2. CASE c # l
    BY <1>4, <1>5, <2>2 DEF Inv, ConnOK, Joined, Made, Waiting
  <2> QED BY <2>1, <2>2
<1>12. LanesOK'
  <2>1. ASSUME NEW k \in Sockets, NEW i \in DOMAIN lane[k] PROVE LaneOK(lane[k][i], k, i)'
    <3>1. LaneOK(lane[k][i], k, i) /\ lane[k][i].conn \in Sockets
      BY DEF Inv, LanesOK, TypeOK, JoinMessages, FrameMessages
    <3>2. lane[k][i].kind = "join" => k # l
      BY <1>1, <3>1 DEF LaneOK
    <3>3. lane[k][i].kind = "frame" => lane[k][i].conn = k \/ conn'[lane[k][i].conn].rt = k
      BY <1>1, <1>4, <1>10, <3>1 DEF LaneOK, Joined
    <3> QED BY <1>4, <1>5, <3>1, <3>2, <3>3 DEF LaneOK, Made, Joined
  <2> QED BY <2>1 DEF LanesOK
<1>13. ASSUME NEW k \in Sockets PROVE TaskOK(task[k], k)'
  <2>1. CASE k = l
    BY <1>1, <1>5, <2>1 DEF TaskOK, Joining, Made
  <2>2. CASE k # l
    <3>1. TaskOK(task[k], k) /\ task'[k] = task[k] /\ (task[k] # Idle => task[k].conn \in Sockets)
      BY <1>5, <2>2, TaskFacts DEF Inv
    <3>2. task[k].at = "frame" => task[k] # Idle
      BY DEF Idle
    <3>3. task[k].at = "frame" => Joined(task[k].conn)'
      BY <1>4, <1>10, <3>1, <3>2 DEF TaskOK, Joined
    <3> QED BY <1>4, <2>2, <3>1, <3>3 DEF TaskOK, Joined, Made
  <2> QED BY <2>1, <2>2
<1> QED BY <1>6, <1>7, <1>8, <1>9, <1>11, <1>12, <1>13 DEF Inv

LEMMA JoinDecidesKeeps == ASSUME Inv, NEW l \in Sockets, JoinDecides(l) PROVE Inv'
<1> DEFINE c == task[l].conn
           m == task[l].msg
           r == m.stream
           v == JoinVerdict(c, m)
<1>1. /\ task[l].at = "join" /\ task[l] # Idle /\ c = l /\ c \in Sockets /\ m \in JoinMessages
      /\ ~Made(l) /\ ~Joined(l) /\ c <= page.opened
  BY TaskFacts DEF JoinDecides, Inv, TaskOK, Idle, Joining
<1>2. page' = page /\ lane' = lane /\ current' = current /\ mode' = mode /\ fed' = fed
  BY DEF JoinDecides
<1>3. /\ TypeOK /\ FedGrows /\ fed' \in Seq(0 .. MaxFrames - 1) /\ mode' \in {"produce", "resume-only", "none"}
      /\ conn \in [Sockets -> [open : BOOLEAN, rt : Peers]] /\ task \in [Sockets -> Tasks]
  BY <1>2, FedStays DEF Inv, TypeOK
<1>4. /\ v \in Verdicts \cup {"accepted"}
      /\ v = "accepted" /\ Resumes(m) => r \in Runtimes /\ Made(r) /\ m.n \in Nat /\ m.n <= Len(rt[r].events)
  BY <1>1, VerdictFacts
<1>5. CASE v # "accepted" /\ Fail(c, v) /\ Finish(l)
  <2>1. v \in Verdicts
    BY <1>4, <1>5
  <2> HIDE DEF v
  <2>2. /\ rt' \in [Runtimes -> Runs] /\ LogsGrow /\ LogsOK'
        /\ down' \in Seq(Messages) /\ DownOK' /\ Closes(c)
    BY <1>1, <1>3, <1>5, <2>1, FailFacts
  <2> QED BY <1>1, <1>2, <1>3, <1>5, <2>2, FinishingKeeps
<1>6. CASE v = "accepted" /\ ~Resumes(m) /\ UNCHANGED <<conn, rt, down>>
           /\ task' = [task EXCEPT ![l] = [at |-> "create", conn |-> c]]
  <2>1. /\ task' \in [Sockets -> Tasks] /\ task'[l] = [at |-> "create", conn |-> c]
        /\ \A k \in Sockets : k # l => task'[k] = task[k]
    BY <1>1, <1>3, <1>6 DEF Tasks
  <2>2. TaskOK(task[l], l)' /\ task'[l].at \in Joining
    BY <1>1, <1>2, <1>6, <2>1 DEF TaskOK, Joining, Joined, Made
  <2>3. rt' \in [Runtimes -> Runs] /\ LogsGrow /\ LogsOK' /\ down' \in Seq(Messages) /\ DownOK'
    BY <1>3, <1>6, RtStays, DownStays
  <2>4. conn' = conn
    BY <1>6
  <2> HIDE DEF c, m, v, r
  <2> QED BY <1>1, <1>2, <1>3, <2>1, <2>2, <2>3, <2>4, StepKeeps
<1>7. CASE v = "accepted" /\ Resumes(m) /\ UNCHANGED <<conn, down>>
           /\ task' = [task EXCEPT ![l] = [at |-> "confirm", conn |-> c, rt |-> r,
                                           seen |-> m.n, upto |-> Len(rt[r].events)]]
           /\ rt' = [rt EXCEPT ![r] = Claimed(Released(@, rt[r].producer), c)]
  <2> DEFINE rel == Released(rt[r], rt[r].producer)
             new == Claimed(rel, c)
             t   == [at |-> "confirm", conn |-> c, rt |-> r, seen |-> m.n, upto |-> Len(rt[r].events)]
  <2>1. r \in Runtimes /\ Made(r) /\ m.n \in Nat
    BY <1>4, <1>7
  <2>2. rt[r] \in Runs /\ rt[r].lease > 0 /\ RunOK(rt[r], fed') /\ Len(rt[r].events) \in Nat
    BY <1>3, <2>1, RunMono DEF Inv, TypeOK, LogsOK, Made, Runs
  <2>3. rel \in Runs /\ RunOK(rel, fed') /\ Grows(rt[r], rel) /\ rel.lease > 0 /\ rel.events = rt[r].events
    BY <2>2, ReleasedFacts
  <2>4. rt' = [rt EXCEPT ![r] = new] /\ task' = [task EXCEPT ![l] = t]
    BY <1>7
  <2>5. t \in Tasks /\ t.at = "confirm" /\ t.conn = c /\ t.rt = r /\ t.upto = Len(rt[r].events)
    BY <1>1, <2>1, <2>2 DEF Tasks
  <2> HIDE DEF rel, t
  <2>6. new \in Runs /\ RunOK(new, fed') /\ Grows(rel, new) /\ new.events = rel.events
    BY <1>1, <2>3, ClaimedFacts
  <2> HIDE DEF new, r
  <2>7. rt' \in [Runtimes -> Runs] /\ LogsGrow /\ LogsOK' /\ rt'[r] = new
    BY <1>3, <2>1, <2>2, <2>3, <2>4, <2>6, GrowsOn, RtStep
  <2>8. down' \in Seq(Messages) /\ DownOK' /\ conn' = conn
    BY <1>7, <2>7, DownStays
  <2>9. task' \in [Sockets -> Tasks] /\ task'[l] = t /\ \A k \in Sockets : k # l => task'[k] = task[k]
    BY <1>3, <2>4, <2>5
  <2>10. rt'[r].lease > 0 /\ rt'[r].events = rt[r].events
    BY <2>1, <2>3, <2>6, <2>7, MadeFacts DEF Made
  <2>11. TaskOK(task[l], l)' /\ task'[l].at \in Joining
    BY <1>1, <1>2, <2>2, <2>5, <2>8, <2>9, <2>10 DEF TaskOK, Joining, Joined, Made
  <2> HIDE DEF c, m, v
  <2> QED BY <1>1, <1>2, <1>3, <2>7, <2>8, <2>9, <2>11, StepKeeps
<1>8. CASE v = "accepted" /\ Resumes(m) /\ UNCHANGED rt /\ Admit(l, c, r, m.n, Len(rt[r].events))
  <2>1. r \in Runtimes /\ Made(r) /\ m.n \in Nat
    BY <1>4, <1>8
  <2>2. Len(rt[r].events) \in Nat
    BY <1>3, <2>1 DEF TypeOK, Runs
  <2> HIDE DEF r, v
  <2> QED BY <1>1, <1>2, <1>8, <2>1, <2>2, AdmitKeeps
<1> QED BY <1>5, <1>6, <1>7, <1>8 DEF JoinDecides

LEMMA ConfirmKeeps == ASSUME Inv, NEW l \in Sockets, Confirm(l) PROVE Inv'
<1> DEFINE t == task[l]
<1>1. /\ t.at = "confirm" /\ t # Idle /\ t.conn \in Sockets /\ t.rt \in Runtimes /\ Made(t.rt)
      /\ t.upto \in Nat /\ t.seen \in Nat /\ t.upto <= Len(rt[t.rt].events)
  BY TaskFacts DEF Confirm, Inv, TaskOK, Idle
<1>2. page' = page /\ lane' = lane /\ current' = current /\ mode' = mode /\ fed' = fed
  BY DEF Confirm
<1>3. TypeOK /\ FedGrows /\ fed' \in Seq(0 .. MaxFrames - 1) /\ mode' \in {"produce", "resume-only", "none"}
  BY <1>2, FedStays DEF Inv, TypeOK
<1>4. CASE Fail(t.conn, "FORBIDDEN") /\ Finish(l)
  <2>1. /\ rt' \in [Runtimes -> Runs] /\ LogsGrow /\ LogsOK'
        /\ down' \in Seq(Messages) /\ DownOK' /\ Closes(t.conn)
    BY <1>1, <1>3, <1>4, FailFacts DEF Verdicts
  <2> QED BY <1>1, <1>2, <1>3, <1>4, <2>1, FinishingKeeps
<1>5. CASE Admit(l, t.conn, t.rt, t.seen, t.upto) /\ UNCHANGED rt
  BY <1>1, <1>2, <1>5, AdmitKeeps
<1> QED BY <1>4, <1>5 DEF Confirm

(* A runtime is made where none of its name was: nothing was ever said of it. *)
LEMMA CreateKeeps == ASSUME Inv, NEW l \in Sockets, Create(l) PROVE Inv'
<1> DEFINE new == Claimed(NoRuntime, l)
           t   == [at |-> "confirm", conn |-> l, rt |-> l, seen |-> 0, upto |-> 0]
<1>1. task[l].at = "create" /\ task[l] # Idle /\ task[l].conn = l /\ ~Made(l) /\ ~Joined(l) /\ l <= page.opened
  BY TaskFacts DEF Create, Inv, TaskOK, Idle, Joining
<1>2. /\ rt' = [rt EXCEPT ![l] = new] /\ current' = l /\ task' = [task EXCEPT ![l] = t]
      /\ page' = page /\ down' = down /\ conn' = conn /\ lane' = lane /\ mode' = mode /\ fed' = fed
  BY <1>1 DEF Create
<1>3. /\ TypeOK /\ rt \in [Runtimes -> Runs] /\ task \in [Sockets -> Tasks]
      /\ page.opened \in Nat /\ l \in Nat /\ l # NoSocket /\ l \in Peers
  BY SocketAssumption DEF Inv, TypeOK, Pages, Peers
<1>4. new = [events |-> <<>>, kept |-> 0, producer |-> l, lease |-> 1, subscriber |-> l, next |-> 0, top |-> 0]
  <2>1. new = [NoRuntime EXCEPT !.producer = l, !.lease = NoRuntime.lease + 1, !.subscriber = l]
    BY DEF Claimed
  <2>2. NoRuntime.lease + 1 = 1
    BY DEF NoRuntime
  <2> HIDE DEF new
  <2>3. new = [NoRuntime EXCEPT !.producer = l, !.lease = 1, !.subscriber = l]
    BY <2>1, <2>2
  <2> QED BY <2>3 DEF NoRuntime
<1>5. t \in Tasks /\ t.at = "confirm" /\ t.conn = l /\ t.rt = l /\ t.upto = 0
  BY DEF Tasks, Runtimes
<1>6. new \in Runs /\ new.lease = 1 /\ new.events = <<>>
  BY <1>3, <1>4, BoundAssumption DEF Runs
<1>7. RunOK(new, fed)
  BY <1>4 DEF RunOK, AllFed
<1> HIDE DEF new, t
<1>8. rt[l].lease = 0 /\ rt[l].events = <<>> /\ l \in Runtimes
  BY <1>1, <1>3 DEF Inv, LogsOK, RunOK, Made, Runs, Runtimes
<1>9. /\ rt' \in [Runtimes -> Runs] /\ rt'[l] = new
      /\ \A r \in Runtimes : r # l => rt'[r] = rt[r]
      /\ \A r \in Runtimes : rt'[r].events = rt[r].events
  BY <1>2, <1>3, <1>6, <1>8 DEF Runtimes
<1>10. task' \in [Sockets -> Tasks] /\ task'[l] = t /\ \A k \in Sockets : k # l => task'[k] = task[k]
  BY <1>2, <1>3, <1>5
<1>11. \A r \in Runtimes : RunOK(rt'[r], fed')
  BY <1>2, <1>7, <1>9 DEF Inv, LogsOK
<1>12. TypeOK'
  <2>1. current' \in Peers
    BY <1>2, <1>3
  <2>2. \A r \in Runtimes : rt'[r].next <= rt'[r].top
    BY <1>11 DEF RunOK
  <2> QED BY <1>2, <1>3, <1>9, <1>10, <2>1, <2>2 DEF TypeOK
<1>13. PageOK(page, rt, fed)'
  <2>1. page.stream # NoSocket => page.stream \in Runtimes
    BY <1>3 DEF TypeOK, Pages, Peers, Runtimes
  <2> QED BY <1>2, <1>9, <2>1 DEF Inv, PageOK
<1>14. DownOK'
  <2>1. ASSUME NEW i \in DOMAIN down PROVE MessageOK(down[i], rt')
    <3>1. down[i] \in Messages /\ MessageOK(down[i], rt)
      BY <1>3 DEF Inv, DownOK, TypeOK
    <3>2. down[i].stream # NoSocket => down[i].stream \in Runtimes
      BY <3>1 DEF Messages, Peers, Runtimes
    <3> QED BY <1>9, <3>1, <3>2 DEF MessageOK
  <2> QED BY <1>2, <2>1 DEF DownOK
<1>15. LogsOK'
  BY <1>11 DEF LogsOK
<1>16. /\ \A r \in Runtimes : Made(r) => Made(r)' /\ r # l
       /\ \A r \in Runtimes : r # l => (Made(r)' <=> Made(r))
       /\ Made(l)'
  BY <1>1, <1>6, <1>9 DEF Made
<1>17. ASSUME NEW c \in Sockets PROVE ConnOK(c)'
  <2>1. ConnOK(c) /\ c \in Runtimes /\ (Joined(c) => conn[c].rt \in Runtimes) /\ conn' = conn /\ lane' = lane
    BY <1>2, <1>3 DEF Inv, TypeOK, Joined, Peers, Runtimes
  <2>2. Joined(c)' => Made(conn[c].rt)'
    BY <1>16, <2>1 DEF ConnOK, Joined, Made
  <2>3. conn'[c].open /\ ~Joined(c)' => Waiting(c)'
    BY <1>5, <1>10, <2>1 DEF ConnOK, Joined, Waiting, Joining
  <2>4. c > page'.opened => ~conn'[c].open /\ ~Joined(c)' /\ ~Made(c)' /\ task'[c] = Idle
    <3>1. SUFFICES ASSUME c > page.opened PROVE ~conn'[c].open /\ ~Joined(c)' /\ ~Made(c)' /\ task'[c] = Idle
      BY <1>2
    <3>2. c # l
      BY <1>1, <1>3, <3>1
    <3> QED BY <1>10, <1>16, <2>1, <3>1, <3>2 DEF ConnOK, Joined
  <2> QED BY <2>2, <2>3, <2>4 DEF ConnOK
<1>18. LanesOK'
  <2>1. ASSUME NEW k \in Sockets, NEW i \in DOMAIN lane[k] PROVE LaneOK(lane[k][i], k, i)'
    <3>1. LaneOK(lane[k][i], k, i) /\ k \in Runtimes
      BY DEF Inv, LanesOK, Runtimes
    <3>2. lane[k][i].kind = "join" => k # l
      BY <1>1, <3>1 DEF LaneOK
    <3> QED BY <1>2, <1>10, <1>16, <3>1, <3>2 DEF LaneOK, Joined
  <2> QED BY <1>2, <2>1 DEF LanesOK
<1>19. ASSUME NEW k \in Sockets PROVE TaskOK(task[k], k)'
  <2>1. CASE k = l
    <3>1. t.upto <= Len(rt'[l].events)
      BY <1>5, <1>6, <1>9
    <3> QED BY <1>1, <1>2, <1>5, <1>10, <1>16, <2>1, <3>1 DEF TaskOK, Joining, Joined, Made
  <2>2. CASE k # l
    <3>1. TaskOK(task[k], k) /\ task'[k] = task[k] /\ k \in Runtimes
      BY <1>10, <2>2 DEF Inv, Runtimes
    <3>2. task[k].at \in {"confirm", "ready", "feed"} =>
            Made(task[k].rt)' /\ rt'[task[k].rt] = rt[task[k].rt]
      <4>1. SUFFICES ASSUME task[k].at \in {"confirm", "ready", "feed"}
                     PROVE  Made(task[k].rt)' /\ rt'[task[k].rt] = rt[task[k].rt]
        OBVIOUS
      <4>2. task[k] # Idle
        BY <4>1 DEF Idle
      <4>3. task[k].rt \in Runtimes /\ Made(task[k].rt)
        BY <4>1, <4>2, TaskFacts
      <4> QED BY <1>9, <1>16, <3>1, <4>3 DEF Made
    <3>3. task[k].at \in {"join", "create"} => ~Made(k)'
      BY <1>16, <2>2, <3>1 DEF TaskOK
    <3> QED BY <1>2, <3>1, <3>2, <3>3 DEF TaskOK, Joined, Made
  <2> QED BY <2>1, <2>2
<1> QED BY <1>2, <1>12, <1>13, <1>14, <1>15, <1>16, <1>17, <1>18, <1>19 DEF Inv, Made

-----------------------------------------------------------------------------
(* Frames                                                                   *)

LEMMA AppendFed ==
  ASSUME TypeOK, NEW n \in 0 .. MaxFrames - 1, fed' = Append(fed, n)
  PROVE  FedGrows /\ fed' \in Seq(0 .. MaxFrames - 1) /\ \E i \in DOMAIN fed' : fed'[i] = n
<1>1. fed \in Seq(0 .. MaxFrames - 1) /\ Len(fed) \in Nat /\ Len(fed') = Len(fed) + 1
  BY DEF TypeOK
<1>2. fed' \in Seq(0 .. MaxFrames - 1) /\ fed'[Len(fed) + 1] = n /\ \A i \in 1 .. Len(fed) : fed'[i] = fed[i]
  BY <1>1
<1>3. FedGrows
  BY <1>1, <1>2 DEF FedGrows
<1>4. Len(fed) + 1 \in DOMAIN fed'
  BY <1>1, <1>2
<1> QED BY <1>2, <1>3, <1>4

(* An acknowledgement is of a frame that was recorded.                      *)
LEMMA AckFacts ==
  ASSUME NEW run \in Runs, run.next <= run.top, NEW kind \in Kinds
  PROVE  Event(kind, run.next - 1) \in Events /\ Event(kind, run.next - 1).ack < run.top
<1>1. run.next \in 0 .. MaxFrames /\ run.top \in 0 .. MaxFrames /\ MaxFrames \in Nat
  BY BoundAssumption DEF Runs
<1>2. run.next - 1 \in -1 .. MaxFrames - 1 /\ run.next - 1 < run.top
  BY <1>1
<1> QED BY <1>2 DEF Event, Events

LEMMA ReadyKeeps == ASSUME Inv, NEW l \in Sockets, Ready(l) PROVE Inv'
<1> DEFINE r == task[l].rt
           e == Event("ready", rt[r].next - 1)
<1>1. /\ task[l].at = "ready" /\ task[l] # Idle /\ r \in Runtimes /\ Made(r) /\ task[l].conn \in Sockets
      /\ task[l].at \notin Joining
  BY TaskFacts DEF Ready, Idle, Joining
<1>2. /\ page' = page /\ conn' = conn /\ lane' = lane /\ current' = current /\ mode' = mode /\ fed' = fed
      /\ rt' = [rt EXCEPT ![r] = Appended(rt[r], e)]
      /\ down' = Sent(task[l].conn, Newest(r, Appended(rt[r], e))) /\ Finish(l)
  BY DEF Ready
<1>3. TypeOK /\ FedGrows /\ fed' \in Seq(0 .. MaxFrames - 1) /\ mode' \in {"produce", "resume-only", "none"}
  BY <1>2, FedStays DEF Inv, TypeOK
<1>4. e \in Events /\ e.ack < rt[r].top
  BY <1>1, <1>3, AckFacts DEF TypeOK, Kinds
<1> HIDE DEF e
<1>5. /\ rt' \in [Runtimes -> Runs] /\ LogsGrow /\ LogsOK'
      /\ down' \in Seq(Messages) /\ DownOK'
  BY <1>1, <1>2, <1>3, <1>4, AppendStep
<1> QED BY <1>1, <1>2, <1>3, <1>5, FinishingKeeps

LEMMA FrameDecidesKeeps == ASSUME Inv, NEW l \in Sockets, FrameDecides(l) PROVE Inv'
<1> DEFINE c   == task[l].conn
           n   == task[l].msg.n
           r   == conn[c].rt
           run == rt[r]
<1>1. /\ task[l].at = "frame" /\ task[l] # Idle /\ c \in Sockets /\ task[l].msg \in FrameMessages
      /\ task[l].at \notin Joining /\ Joined(c) /\ c <= page.opened
  <2>1. task[l].at = "frame" /\ task[l] # Idle /\ task[l].at \notin Joining
    BY DEF FrameDecides, Idle, Joining
  <2>2. TaskOK(task[l], l)
    BY DEF Inv
  <2> QED BY <2>1, <2>2, TaskFacts DEF TaskOK
<1>2. page' = page /\ lane' = lane /\ current' = current /\ mode' = mode /\ fed' = fed
  BY DEF FrameDecides
<1>3. /\ TypeOK /\ FedGrows /\ fed' \in Seq(0 .. MaxFrames - 1) /\ mode' \in {"produce", "resume-only", "none"}
      /\ task \in [Sockets -> Tasks]
  BY <1>2, FedStays DEF Inv, TypeOK
<1>4. r \in Runtimes /\ Made(r)
  BY <1>1, <1>3 DEF Inv, ConnOK, Joined, TypeOK, Peers, Runtimes
<1>5. ASSUME NEW code \in Verdicts, Fail(c, code), Finish(l) PROVE Inv'
  <2>1. /\ rt' \in [Runtimes -> Runs] /\ LogsGrow /\ LogsOK'
        /\ down' \in Seq(Messages) /\ DownOK' /\ Closes(c)
    BY <1>1, <1>3, <1>5, FailFacts
  <2> QED BY <1>1, <1>2, <1>3, <1>5, <2>1, FinishingKeeps
<1>6. CASE rt' = [rt EXCEPT ![r] = Acknowledged(run)] /\ down' = Sent(c, Newest(r, Acknowledged(run)))
           /\ Finish(l) /\ UNCHANGED conn
  <2> DEFINE e == Event("audio.ack", run.next - 1)
  <2>1. e \in Events /\ e.ack < rt[r].top
    BY <1>3, <1>4, AckFacts DEF TypeOK, Kinds
  <2>2. rt' = [rt EXCEPT ![r] = Appended(rt[r], e)] /\ down' = Sent(c, Newest(r, Appended(rt[r], e)))
    BY <1>6 DEF Acknowledged
  <2> HIDE DEF e
  <2>3. /\ rt' \in [Runtimes -> Runs] /\ LogsGrow /\ LogsOK'
        /\ down' \in Seq(Messages) /\ DownOK'
    BY <1>3, <1>4, <2>1, <2>2, AppendStep
  <2> QED BY <1>1, <1>2, <1>3, <1>6, <2>3, FinishingKeeps
<1>7. CASE ~Known(run, n) /\ Expected(run, n) /\ UNCHANGED <<conn, rt, down>>
           /\ task' = [task EXCEPT ![l] = [at |-> "feed", conn |-> c, rt |-> r, n |-> n, lease |-> run.lease]]
  <2> DEFINE t == [at |-> "feed", conn |-> c, rt |-> r, n |-> n, lease |-> run.lease]
  <2>1. run \in Runs /\ run.lease \in Nat /\ run.next <= run.top /\ n \in 0 .. MaxFrames - 1
    BY <1>1, <1>3, <1>4 DEF TypeOK, Runs, FrameMessages
  <2>2. n <= run.top
    BY <1>7, <2>1 DEF Expected
  <2>3. t \in Tasks /\ t.at = "feed" /\ t.conn = c /\ t.rt = r /\ t.n = n
    BY <1>1, <1>4, <2>1 DEF Tasks
  <2>4. task' = [task EXCEPT ![l] = t] /\ rt' = rt /\ conn' = conn
    BY <1>7
  <2> HIDE DEF t
  <2>5. task' \in [Sockets -> Tasks] /\ task'[l] = t /\ \A k \in Sockets : k # l => task'[k] = task[k]
    BY <1>3, <2>3, <2>4
  <2>6. TaskOK(task[l], l)'
    BY <1>1, <1>2, <1>4, <2>2, <2>3, <2>4, <2>5 DEF TaskOK, Joining, Made
  <2>7. rt' \in [Runtimes -> Runs] /\ LogsGrow /\ LogsOK' /\ down' \in Seq(Messages) /\ DownOK'
    BY <1>3, <1>7, RtStays, DownStays
  <2>8. /\ conn' \in [Sockets -> [open : BOOLEAN, rt : Peers]]
        /\ \A x \in Sockets : conn'[x].rt = conn[x].rt /\ (conn'[x].open => conn[x].open)
    BY <1>3, <2>4 DEF TypeOK
  <2> HIDE DEF c, n, r, run
  <2> QED BY <1>1, <1>2, <1>3, <2>5, <2>6, <2>7, <2>8, StepKeeps
<1>8. {"FORBIDDEN", "SESSION_NOT_STREAMABLE", "SESSION_STREAM_ALREADY_ACTIVE", "AUDIO_FRAME_GAP"} \subseteq Verdicts
  BY DEF Verdicts
<1> QED BY <1>5, <1>6, <1>7, <1>8 DEF FrameDecides

(* The frame after the recorded ones makes them one more.                   *)
LEMMA RecordedFacts ==
  ASSUME NEW run \in Runs, NEW f, RunOK(run, f), run.lease > 0, NEW n \in 0 .. MaxFrames - 1, n <= run.top,
         \E i \in DOMAIN f : f[i] = n
  PROVE  /\ Recorded(run, n) \in Runs /\ RunOK(Recorded(run, n), f) /\ Grows(run, Recorded(run, n))
         /\ Recorded(run, n).lease = run.lease
<1> DEFINE next == n + 1
           top  == IF next > run.top THEN next ELSE run.top
           new  == [run EXCEPT !.next = next, !.top = top]
<1>1. run.top \in 0 .. MaxFrames /\ MaxFrames \in Nat
  BY BoundAssumption DEF Runs
<1>2. next \in 0 .. MaxFrames /\ top \in 0 .. MaxFrames /\ next <= top /\ run.top <= top
  BY <1>1
<1>3. AllFed(f, top)
  <2>1. ASSUME NEW k \in 0 .. top - 1 PROVE k \in 0 .. run.top - 1 \/ k = n
    BY <1>1
  <2> QED BY <2>1 DEF AllFed, RunOK
<1>4. Recorded(run, n) = new
  BY DEF Recorded
<1> HIDE DEF next, top
<1>5. /\ new \in Runs /\ new.events = run.events /\ new.lease = run.lease
      /\ new.next = next /\ new.top = top
  BY <1>2 DEF Runs
<1> HIDE DEF new
<1>6. \A i \in DOMAIN run.events : run.events[i].ack < top
  <2>1. \A i \in DOMAIN run.events : run.events[i].ack \in Int /\ run.events[i].ack < run.top
    <3>1. run.events \in Seq(Events) /\ \A i \in DOMAIN run.events : run.events[i] \in Events
      BY DEF Runs
    <3>2. \A x \in Events : x.ack \in Int
      BY <1>1 DEF Events
    <3> QED BY <3>1, <3>2 DEF RunOK
  <2> QED BY <1>1, <1>2, <2>1
<1>7. RunOK(new, f)
  BY <1>2, <1>3, <1>5, <1>6 DEF RunOK
<1>8. Grows(run, new)
  BY <1>2, <1>5, GrowsSelf DEF Grows
<1> QED BY <1>4, <1>5, <1>7, <1>8

LEMMA FeedTakenKeeps == ASSUME Inv, NEW l \in Sockets, FeedTaken(l) PROVE Inv'
<1> DEFINE t   == task[l]
           r   == t.rt
           rec == Recorded(rt[r], t.n)
           run == Acknowledged(rec)
<1>1. /\ t.at = "feed" /\ t # Idle /\ r \in Runtimes /\ Made(r) /\ t.conn \in Sockets
      /\ t.at \notin Joining /\ t.n \in 0 .. MaxFrames - 1 /\ t.n <= rt[r].top
  BY TaskFacts DEF FeedTaken, Idle, Joining, Inv, TaskOK
<1>2. page' = page /\ conn' = conn /\ lane' = lane /\ current' = current /\ mode' = mode /\ Finish(l)
  BY DEF FeedTaken
<1>3. TypeOK /\ mode' \in {"produce", "resume-only", "none"}
  BY <1>2 DEF Inv, TypeOK
<1>4. FedGrows /\ fed' \in Seq(0 .. MaxFrames - 1) /\ \E i \in DOMAIN fed' : fed'[i] = t.n
  BY <1>1, <1>3, AppendFed DEF FeedTaken
<1>5. CASE UNCHANGED <<rt, down>>
  <2>1. /\ rt' \in [Runtimes -> Runs] /\ LogsGrow /\ LogsOK' /\ down' \in Seq(Messages) /\ DownOK'
    BY <1>4, <1>5, RtStays, DownStays
  <2> QED BY <1>1, <1>2, <1>3, <1>4, <2>1, FinishingKeeps
<1>6. CASE rt' = [rt EXCEPT ![r] = run] /\ down' = Sent(t.conn, Newest(r, run))
  <2> DEFINE e == Event("audio.ack", rec.next - 1)
  <2>1. rt[r] \in Runs /\ RunOK(rt[r], fed') /\ rt[r].lease > 0
    BY <1>1, <1>3, <1>4, RunMono DEF Inv, LogsOK, TypeOK, Made
  <2>2. rec \in Runs /\ RunOK(rec, fed') /\ Grows(rt[r], rec) /\ rec.lease > 0
    BY <1>1, <1>4, <2>1, RecordedFacts
  <2>3. run = Appended(rec, e)
    BY DEF Acknowledged
  <2> HIDE DEF rec, run
  <2>4. e \in Events /\ e.ack < rec.top
    BY <2>2, AckFacts DEF RunOK, Kinds
  <2> HIDE DEF e
  <2>5. run \in Runs /\ RunOK(run, fed') /\ Grows(rec, run) /\ run.events # <<>>
    BY <2>2, <2>3, <2>4, AppendedFacts
  <2>6. rt' \in [Runtimes -> Runs] /\ LogsGrow /\ LogsOK' /\ rt'[r] = run
    BY <1>1, <1>4, <1>6, <2>1, <2>2, <2>5, GrowsOn, RtStep
  <2>7. Newest(r, run) \in Seq(Messages)
    BY <1>1, <2>5, NewestFacts
  <2>8. \A i \in DOMAIN Newest(r, run) : MessageOK(Newest(r, run)[i], rt')
    BY <1>1, <2>5, <2>6, NewestOK
  <2>9. down' \in Seq(Messages) /\ DownOK'
    BY <1>6, <2>6, <2>7, <2>8, DownStep
  <2> QED BY <1>1, <1>2, <1>3, <1>4, <2>6, <2>9, FinishingKeeps
<1> QED BY <1>5, <1>6 DEF FeedTaken

LEMMA FeedFailsKeeps == ASSUME Inv, NEW l \in Sockets, FeedFails(l) PROVE Inv'
<1> DEFINE t == task[l]
           r == t.rt
           e == Event("ASR_UNAVAILABLE", -1)
<1>1. /\ t.at = "feed" /\ t # Idle /\ r \in Runtimes /\ Made(r) /\ t.conn \in Sockets
      /\ t.at \notin Joining /\ t.n \in 0 .. MaxFrames - 1
  BY TaskFacts DEF FeedFails, Idle, Joining
<1>2. page' = page /\ lane' = lane /\ current' = current /\ mode' = mode /\ Finish(l)
  BY DEF FeedFails
<1>3. TypeOK /\ mode' \in {"produce", "resume-only", "none"}
  BY <1>2 DEF Inv, TypeOK
<1>4. fed' = fed \/ fed' = Append(fed, t.n)
  BY DEF FeedFails
<1>5. FedGrows /\ fed' \in Seq(0 .. MaxFrames - 1)
  BY <1>1, <1>3, <1>4, FedStays, AppendFed
<1>6. CASE rt' = [rt EXCEPT ![r] = Appended(rt[r], e)] /\ UNCHANGED conn
           /\ down' = Sent(Appended(rt[r], e).subscriber, Newest(r, Appended(rt[r], e)))
  <2>1. e \in Events /\ e.ack < rt[r].top
    BY <1>1, <1>3, CodeFacts DEF TypeOK, Runs, Kinds, Verdicts
  <2> DEFINE to == Appended(rt[r], e).subscriber
  <2>2. down' = Sent(to, Newest(r, Appended(rt[r], e)))
    BY <1>6
  <2> HIDE DEF e, to
  <2>3. /\ rt' \in [Runtimes -> Runs] /\ LogsGrow /\ LogsOK' /\ down' \in Seq(Messages) /\ DownOK'
    BY <1>1, <1>5, <1>6, <2>1, <2>2, AppendStep
  <2> QED BY <1>1, <1>2, <1>3, <1>5, <1>6, <2>3, FinishingKeeps
<1>7. CASE Fail(t.conn, "REALTIME_UNAVAILABLE")
  <2>1. /\ rt' \in [Runtimes -> Runs] /\ LogsGrow /\ LogsOK'
        /\ down' \in Seq(Messages) /\ DownOK' /\ Closes(t.conn)
    BY <1>1, <1>5, <1>7, FailFacts DEF Verdicts
  <2> QED BY <1>1, <1>2, <1>3, <1>5, <2>1, FinishingKeeps
<1> QED BY <1>6, <1>7 DEF FeedFails

-----------------------------------------------------------------------------
(* Everything else of the server                                            *)

(* StepKeeps for a step that no lane makes.                                 *)
LEMMA OutsideKeeps ==
  ASSUME Inv, page' = page, lane' = lane, task' = task, fed' = fed,
         rt' \in [Runtimes -> Runs], LogsGrow, LogsOK', down' \in Seq(Messages), DownOK',
         conn' = conn \/ (\E c \in Sockets : Closes(c)),
         current' \in {current, NoSocket}, mode' \in {"produce", "resume-only", "none"}
  PROVE  Inv'
<1>1. TypeOK /\ task' \in [Sockets -> Tasks]
  BY DEF Inv, TypeOK
<1>2. FedGrows /\ fed' \in Seq(0 .. MaxFrames - 1)
  BY <1>1, FedStays
<1>3. /\ conn' \in [Sockets -> [open : BOOLEAN, rt : Peers]]
      /\ \A c \in Sockets : conn'[c].rt = conn[c].rt /\ (conn'[c].open => conn[c].open)
  BY <1>1 DEF Closes, TypeOK
<1> QED BY <1>1, <1>2, <1>3, StepKeeps

LEMMA PublishKeeps == ASSUME Inv, Publish PROVE Inv'
<1> DEFINE e  == Event("notice", -1)
           to == Appended(rt[current], e).subscriber
<1>1. /\ page' = page /\ conn' = conn /\ lane' = lane /\ task' = task /\ current' = current /\ mode' = mode
      /\ fed' = fed
      /\ rt' = [rt EXCEPT ![current] = Appended(rt[current], e)]
      /\ down' = Sent(to, Newest(current, Appended(rt[current], e)))
  BY DEF Publish
<1>2. current \in Runtimes /\ Made(current) /\ TypeOK /\ mode' \in {"produce", "resume-only", "none"}
  BY <1>1 DEF Publish, Inv, TypeOK, Peers, Runtimes
<1>3. e \in Events /\ e.ack < rt[current].top
  BY <1>2, CodeFacts DEF TypeOK, Runs, Kinds
<1> HIDE DEF e, to
<1>4. FedGrows
  BY <1>1, <1>2, FedStays
<1>5. /\ rt' \in [Runtimes -> Runs] /\ LogsGrow /\ LogsOK' /\ down' \in Seq(Messages) /\ DownOK'
  BY <1>1, <1>2, <1>3, <1>4, AppendStep
<1> QED BY <1>1, <1>2, <1>5, OutsideKeeps

LEMMA SessionStopsKeeps == ASSUME Inv, SessionStops PROVE Inv'
<1>1. /\ page' = page /\ conn' = conn /\ lane' = lane /\ task' = task /\ current' = current /\ fed' = fed
      /\ down' = down /\ mode' \in {"produce", "resume-only", "none"}
  BY DEF SessionStops
<1>2. TypeOK /\ FedGrows
  BY <1>1, FedStays DEF Inv
<1>3. CASE current = NoSocket
  <2>1. rt' = rt
    BY <1>3 DEF SessionStops
  <2>2. /\ rt' \in [Runtimes -> Runs] /\ LogsGrow /\ LogsOK' /\ down' \in Seq(Messages) /\ DownOK'
    BY <1>1, <1>2, <2>1, RtStays, DownStays
  <2> QED BY <1>1, <2>2, OutsideKeeps
<1>4. CASE current # NoSocket
  <2> DEFINE up  == rt[current].lease + 1
             new == [rt[current] EXCEPT !.producer = NoSocket, !.lease = up]
  <2>1. current \in Runtimes /\ rt[current] \in Runs /\ RunOK(rt[current], fed') /\ rt[current].lease > 0
    BY <1>1, <1>2, <1>4 DEF Inv, TypeOK, LogsOK, Made, Peers, Runtimes
  <2>2. up \in Nat /\ up > 0 /\ NoSocket \in Peers /\ rt[current].top \in Int
    BY <2>1 DEF Runs, Peers
  <2>3. rt' = [rt EXCEPT ![current] = new]
    BY <1>2, <1>4, <2>1 DEF SessionStops, TypeOK
  <2> HIDE DEF up
  <2>4. /\ new \in Runs /\ new.events = rt[current].events /\ new.lease = up
        /\ new.top = rt[current].top /\ new.next = rt[current].next
    BY <2>1, <2>2 DEF Runs
  <2> HIDE DEF new
  <2>5. RunOK(new, fed') /\ Grows(rt[current], new)
    BY <2>1, <2>2, <2>4, GrowsSelf DEF RunOK, Grows
  <2>6. /\ rt' \in [Runtimes -> Runs] /\ LogsGrow /\ LogsOK'
    BY <1>2, <2>1, <2>3, <2>4, <2>5, RtStep
  <2>7. down' \in Seq(Messages) /\ DownOK'
    BY <1>1, <2>6, DownStays
  <2> QED BY <1>1, <2>6, <2>7, OutsideKeeps
<1> QED BY <1>3, <1>4

(* The connection of a page lets go of its runtime.                         *)
LEMMA ReleaseStep ==
  ASSUME Inv, NEW c \in Sockets, Joined(c), rt' = [rt EXCEPT ![conn[c].rt] = Released(@, c)], fed' = fed
  PROVE  rt' \in [Runtimes -> Runs] /\ LogsGrow /\ LogsOK'
<1> DEFINE r   == conn[c].rt
           new == Released(rt[r], c)
<1>1. TypeOK /\ FedGrows
  BY FedStays DEF Inv
<1>2. r \in Runtimes /\ rt[r].lease > 0
  BY <1>1 DEF Inv, ConnOK, Joined, Made, TypeOK, Peers, Runtimes
<1>3. rt[r] \in Runs /\ RunOK(rt[r], fed')
  BY <1>1, <1>2 DEF Inv, LogsOK, TypeOK
<1>4. new \in Runs /\ RunOK(new, fed') /\ Grows(rt[r], new)
  BY <1>2, <1>3, ReleasedFacts
<1>5. rt' = [rt EXCEPT ![r] = new]
  OBVIOUS
<1> HIDE DEF new, r
<1> QED BY <1>1, <1>2, <1>4, <1>5, RtStep

LEMMA TouchKeeps == ASSUME Inv, NEW c \in Sockets, Touch(c) PROVE Inv'
<1>1. /\ page' = page /\ lane' = lane /\ task' = task /\ current' = current /\ mode' = mode /\ fed' = fed
      /\ Joined(c)
  BY DEF Touch
<1>2. TypeOK /\ FedGrows /\ mode' \in {"produce", "resume-only", "none"}
  BY <1>1, FedStays DEF Inv, TypeOK
<1>3. CASE rt' = [rt EXCEPT ![conn[c].rt] = Released(@, c)] /\ UNCHANGED <<conn, down>>
  <2>1. rt' \in [Runtimes -> Runs] /\ LogsGrow /\ LogsOK'
    BY <1>1, <1>3, ReleaseStep
  <2>2. down' \in Seq(Messages) /\ DownOK'
    BY <1>3, <2>1, DownStays
  <2> QED BY <1>1, <1>2, <1>3, <2>1, <2>2, OutsideKeeps
<1>4. CASE Fail(c, "FORBIDDEN")
  <2>1. /\ rt' \in [Runtimes -> Runs] /\ LogsGrow /\ LogsOK'
        /\ down' \in Seq(Messages) /\ DownOK' /\ Closes(c)
    BY <1>2, <1>4, FailFacts DEF Verdicts
  <2> QED BY <1>1, <1>2, <2>1, OutsideKeeps
<1> QED BY <1>3, <1>4 DEF Touch

LEMMA CloseSeenKeeps == ASSUME Inv, NEW c \in Sockets, CloseSeen(c) PROVE Inv'
<1>1. /\ page' = page /\ lane' = lane /\ task' = task /\ current' = current /\ mode' = mode /\ fed' = fed
      /\ down' = down /\ conn' = [conn EXCEPT ![c].open = FALSE]
  BY DEF CloseSeen
<1>2. TypeOK /\ FedGrows /\ mode' \in {"produce", "resume-only", "none"} /\ Closes(c)
  BY <1>1, FedStays, CloseFacts DEF Inv, TypeOK
<1>3. rt' \in [Runtimes -> Runs] /\ LogsGrow /\ LogsOK'
  <2>1. CASE Joined(c)
    BY <1>1, <2>1, ReleaseStep DEF CloseSeen
  <2>2. CASE ~Joined(c)
    BY <1>2, <2>2, RtStays DEF CloseSeen
  <2> QED BY <2>1, <2>2
<1>4. down' \in Seq(Messages) /\ DownOK'
  BY <1>1, <1>3, DownStays
<1> QED BY <1>1, <1>2, <1>3, <1>4, OutsideKeeps

(* The process ends: no queue, no task, no open connection.                 *)
LEMMA RuntimeGoneKeeps == ASSUME Inv, RuntimeGone PROVE Inv'
<1>1. /\ page' = page /\ rt' = rt /\ mode' = mode /\ fed' = fed /\ current' = NoSocket
  BY DEF RuntimeGone
<1>2. TypeOK /\ FedGrows /\ mode' \in {"produce", "resume-only", "none"} /\ Sockets \subseteq Nat /\ 0 \notin Sockets
  BY <1>1, FedStays, SocketAssumption DEF Inv, TypeOK, NoSocket
<1>3. CASE UNCHANGED <<down, conn, lane, task>>
  <2>1. /\ rt' \in [Runtimes -> Runs] /\ LogsGrow /\ LogsOK' /\ down' \in Seq(Messages) /\ DownOK'
    BY <1>1, <1>2, <1>3, RtStays, DownStays
  <2> QED BY <1>1, <1>2, <1>3, <2>1, OutsideKeeps
<1>4. CASE /\ conn' = [c \in Sockets |-> [conn[c] EXCEPT !.open = FALSE]]
           /\ lane' = [l \in Sockets |-> <<>>] /\ task' = [l \in Sockets |-> Idle] /\ down' = <<>>
  <2>1. /\ conn' \in [Sockets -> [open : BOOLEAN, rt : Peers]]
        /\ \A c \in Sockets : conn'[c].rt = conn[c].rt /\ ~conn'[c].open
    BY <1>2, <1>4 DEF TypeOK
  <2>2. /\ \A l \in Sockets : lane'[l] = <<>> /\ task'[l] = Idle
        /\ lane' \in [Sockets -> Seq(JoinMessages \cup FrameMessages)] /\ task' \in [Sockets -> Tasks]
    BY <1>4 DEF Tasks
  <2>3. TypeOK'
    BY <1>1, <1>2, <1>4, <2>1, <2>2 DEF TypeOK, Peers
  <2>4. \A c \in Sockets : ConnOK(c)'
    BY <1>1, <2>1, <2>2 DEF Inv, ConnOK, Joined, Made
  <2>5. \A l \in Sockets : TaskOK(task[l], l)'
    BY <2>2 DEF TaskOK, Idle, Joining
  <2>6. LanesOK' /\ DownOK'
    BY <1>4, <2>2 DEF LanesOK, DownOK
  <2>7. PageOK(page, rt, fed)' /\ LogsOK'
    BY <1>1 DEF Inv, PageOK, LogsOK
  <2> QED BY <1>1, <2>3, <2>4, <2>5, <2>6, <2>7 DEF Inv
<1> QED BY <1>3, <1>4 DEF RuntimeGone

-----------------------------------------------------------------------------
(* Queues and the page                                                      *)

LEMMA TakeKeeps == ASSUME Inv, NEW l \in Sockets, Take(l) PROVE Inv'
<1>1. /\ page' = page /\ down' = down /\ conn' = conn /\ rt' = rt /\ current' = current /\ mode' = mode
      /\ fed' = fed /\ task[l] = Idle
  BY DEF Take
<1>2. PICK i \in DOMAIN lane[l] :
        /\ conn[lane[l][i].conn].open /\ \A k \in 1 .. i - 1 : ~conn[lane[l][k].conn].open
        /\ task' = [task EXCEPT ![l] = [at |-> lane[l][i].kind, conn |-> lane[l][i].conn, msg |-> lane[l][i]]]
        /\ lane' = [lane EXCEPT ![l] = SubSeq(@, i + 1, Len(@))]
  BY DEF Take
<1> DEFINE m    == lane[l][i]
           t    == [at |-> m.kind, conn |-> m.conn, msg |-> m]
           rest == SubSeq(lane[l], i + 1, Len(lane[l]))
<1>3. /\ TypeOK /\ lane \in [Sockets -> Seq(JoinMessages \cup FrameMessages)] /\ task \in [Sockets -> Tasks]
      /\ conn \in [Sockets -> [open : BOOLEAN, rt : Peers]] /\ page.opened \in Nat /\ l \in Nat /\ l # NoSocket
      /\ l \in Runtimes
  BY SocketAssumption DEF Inv, TypeOK, Pages, Runtimes
<1>4. /\ lane[l] \in Seq(JoinMessages \cup FrameMessages) /\ Len(lane[l]) \in Nat /\ i \in 1 .. Len(lane[l])
      /\ m \in JoinMessages \cup FrameMessages
  BY <1>3
<1>5. /\ rest \in Seq(JoinMessages \cup FrameMessages) /\ Len(rest) = Len(lane[l]) - i
      /\ \A k \in 1 .. Len(rest) : rest[k] = lane[l][i + k] /\ i + k \in 1 .. Len(lane[l]) /\ i + k # 1
  <2>1. \A k \in i + 1 .. Len(lane[l]) : lane[l][k] \in JoinMessages \cup FrameMessages
    BY <1>4
  <2>2. i + 1 \in Int /\ Len(lane[l]) \in Int
    BY <1>4
  <2> DEFINE q == lane[l]
             S == JoinMessages \cup FrameMessages
             a == i + 1
             b == Len(lane[l])
  <2>6. a \in Int /\ b \in Int /\ \A k \in a .. b : q[k] \in S
    BY <2>1, <2>2
  <2> HIDE DEF q, S, a, b
  <2>7. /\ SubSeq(q, a, b) \in Seq(S) /\ Len(SubSeq(q, a, b)) = IF a <= b THEN b - a + 1 ELSE 0
        /\ \A k \in 1 .. b - a + 1 : SubSeq(q, a, b)[k] = q[a + k - 1]
    BY <2>6, SubSeqProperties
  <2>8. rest = SubSeq(q, a, b)
    BY DEF q, a, b
  <2> HIDE DEF rest
  <2>3. /\ rest \in Seq(JoinMessages \cup FrameMessages)
        /\ Len(rest) = IF i + 1 <= Len(lane[l]) THEN Len(lane[l]) - (i + 1) + 1 ELSE 0
        /\ \A k \in 1 .. Len(lane[l]) - (i + 1) + 1 : rest[k] = lane[l][(i + 1) + k - 1]
    BY <2>7, <2>8 DEF q, S, a, b
  <2>4. Len(rest) = Len(lane[l]) - i /\ Len(lane[l]) - (i + 1) + 1 = Len(lane[l]) - i
    BY <1>4, <2>3
  <2>5. \A k \in 1 .. Len(rest) : (i + 1) + k - 1 = i + k /\ i + k \in 1 .. Len(lane[l]) /\ i + k # 1
    BY <1>4, <2>4
  <2> QED BY <2>3, <2>4, <2>5
<1>6. LaneOK(m, l, i) /\ (i # 1 => LaneOK(lane[l][1], l, 1) /\ 1 \in 1 .. i - 1)
  BY <1>4 DEF Inv, LanesOK
<1>7. m.kind \in {"join", "frame"} /\ m.conn \in Sockets
  BY <1>4 DEF JoinMessages, FrameMessages
<1>8. i # 1 /\ lane[l][1].kind = "join" => ~conn[l].open
  BY <1>2, <1>6 DEF LaneOK
<1>9. ConnOK(l) /\ (Waiting(l) => lane[l][1].kind = "join")
  BY <1>1 DEF Inv, Waiting, Idle, Joining
<1>10. m.kind = "frame" => Joined(m.conn)
  <2>1. CASE m.conn = l
    BY <1>2, <1>6, <1>7, <1>8, <1>9, <2>1 DEF ConnOK
  <2>2. CASE m.conn # l
    BY <1>3, <1>6, <2>2 DEF LaneOK, Joined
  <2> QED BY <2>1, <2>2
<1>11. ~(l > page.opened)
  <2>1. m.kind = "frame" /\ m.conn # l => Made(l)
    BY <1>6, <1>7, <1>10 DEF Inv, ConnOK, LaneOK
  <2>2. m.conn = l => ~(l > page.opened)
    BY <1>3, <1>6 DEF LaneOK
  <2> QED BY <1>6, <1>7, <1>9, <2>1, <2>2 DEF ConnOK, LaneOK
<1>12. t \in Tasks /\ t.at = m.kind /\ t.conn = m.conn
  BY <1>4, <1>7 DEF Tasks, JoinMessages, FrameMessages
<1>13. task' = [task EXCEPT ![l] = t] /\ lane' = [lane EXCEPT ![l] = rest]
  BY <1>2
<1> HIDE DEF t, rest
<1>14. /\ task' \in [Sockets -> Tasks] /\ task'[l] = t /\ \A k \in Sockets : k # l => task'[k] = task[k]
       /\ lane' \in [Sockets -> Seq(JoinMessages \cup FrameMessages)] /\ lane'[l] = rest
       /\ \A k \in Sockets : k # l => lane'[k] = lane[k]
  BY <1>3, <1>5, <1>12, <1>13
<1>15. TypeOK'
  BY <1>1, <1>3, <1>14 DEF TypeOK
<1>16. PageOK(page, rt, fed)' /\ LogsOK' /\ DownOK' /\ (current' # NoSocket => Made(current)')
  BY <1>1 DEF Inv, PageOK, LogsOK, DownOK, Made
<1>17. ASSUME NEW c \in Sockets PROVE ConnOK(c)'
  <2>1. CASE c # l
    BY <1>1, <1>14, <2>1 DEF Inv, ConnOK, Joined, Made, Waiting
  <2>2. CASE c = l
    <3>1. conn[l].open /\ ~Joined(l) => t.at = "join"
      <4>1. SUFFICES ASSUME conn[l].open, ~Joined(l) PROVE m.kind = "join"
        BY <1>12
      <4>2. lane[l][1].kind = "join"
        BY <1>9, <4>1 DEF ConnOK
      <4>3. i = 1
        BY <1>8, <4>1, <4>2
      <4> QED BY <4>2, <4>3
    <3>2. conn'[l].open /\ ~Joined(l)' => Waiting(l)'
      BY <1>1, <1>14, <3>1 DEF Joined, Waiting, Joining
    <3> QED BY <1>1, <1>9, <1>11, <2>2, <3>2 DEF ConnOK, Joined, Made
  <2> QED BY <2>1, <2>2
<1>18. LanesOK'
  <2>1. ASSUME NEW k \in Sockets, NEW j \in DOMAIN lane'[k] PROVE LaneOK(lane[k][j], k, j)'
    <3>1. CASE k # l
      <4>1. LaneOK(lane[k][j], k, j) /\ lane'[k] = lane[k]
        BY <1>14, <2>1, <3>1 DEF Inv, LanesOK
      <4> QED BY <1>1, <1>14, <3>1, <4>1 DEF LaneOK, Joined, Made
    <3>2. CASE k = l
      <4>1. j \in 1 .. Len(rest) /\ lane'[k][j] = lane[l][i + j]
        <5>1. j \in DOMAIN rest /\ DOMAIN rest = 1 .. Len(rest)
          BY <1>5, <1>14, <2>1, <3>2
        <5> QED BY <1>5, <1>14, <3>2, <5>1
      <4>2. LaneOK(lane[l][i + j], l, i + j) /\ i + j # 1
        BY <1>4, <1>5, <4>1 DEF Inv, LanesOK
      <4> QED BY <1>1, <3>2, <4>1, <4>2 DEF LaneOK
    <3> QED BY <3>1, <3>2
  <2> QED BY <2>1 DEF LanesOK
<1>19. ASSUME NEW k \in Sockets PROVE TaskOK(task[k], k)'
  <2>1. CASE k # l
    BY <1>1, <1>14, <2>1 DEF Inv, TaskOK, Joined, Made
  <2>2. CASE k = l
    <3>1. t.conn <= page.opened
      BY <1>6, <1>12 DEF LaneOK
    <3>2. t.at = "join" => t.conn = l /\ ~Joined(l) /\ ~Made(l)
      BY <1>6, <1>12 DEF LaneOK
    <3>3. t.at = "frame" => Joined(t.conn)
      BY <1>10, <1>12
    <3> QED BY <1>1, <1>7, <1>12, <1>14, <2>2, <3>1, <3>2, <3>3 DEF TaskOK, Joining, Joined, Made
  <2> QED BY <2>1, <2>2
<1> QED BY <1>15, <1>16, <1>17, <1>18, <1>19 DEF Inv

(* A step of the page that at most adds frames to the queue of its socket.  *)
LEMMA PageKeeps ==
  ASSUME Inv, UNCHANGED <<conn, task, rt, current, mode, fed>>,
         page' \in Pages, page'.opened = page.opened, PageOK(page', rt, fed),
         down' \in Seq(Messages), \A i \in DOMAIN down' : \E k \in DOMAIN down : down'[i] = down[k],
         lane' \in [Sockets -> Seq(JoinMessages \cup FrameMessages)], LanesOK',
         \A c \in Sockets : lane[c] # <<>> => lane'[c] # <<>> /\ lane'[c][1] = lane[c][1]
  PROVE  Inv'
<1>1. TypeOK'
  BY DEF Inv, TypeOK, PageOK
<1>2. PageOK(page, rt, fed)' /\ LogsOK' /\ (current' # NoSocket => Made(current)')
  BY DEF Inv, PageOK, LogsOK, Made
<1>3. DownOK'
  BY DEF Inv, DownOK
<1>4. ASSUME NEW c \in Sockets PROVE ConnOK(c)'
  BY DEF Inv, ConnOK, Joined, Made, Waiting
<1>5. ASSUME NEW l \in Sockets PROVE TaskOK(task[l], l)'
  BY DEF Inv, TaskOK, Joined, Made
<1> QED BY <1>1, <1>2, <1>3, <1>4, <1>5 DEF Inv

LEMMA LaneStays ==
  ASSUME Inv, lane' = lane, UNCHANGED <<conn, task, rt>>, page'.opened = page.opened
  PROVE  /\ lane' \in [Sockets -> Seq(JoinMessages \cup FrameMessages)] /\ LanesOK'
         /\ \A c \in Sockets : lane[c] # <<>> => lane'[c] # <<>> /\ lane'[c][1] = lane[c][1]
<1>1. lane' \in [Sockets -> Seq(JoinMessages \cup FrameMessages)]
  BY DEF Inv, TypeOK
<1>2. LanesOK'
  BY DEF Inv, LanesOK, LaneOK, Joined, Made
<1> QED BY <1>1, <1>2

LEMMA EnqueuedKeeps ==
  ASSUME Inv, NEW msgs, lane' = Enqueued(page.sock, msgs), UNCHANGED <<conn, task, rt>>, page'.opened = page.opened,
         page.sock \in Sockets => msgs \in Seq(FrameMessages) /\ \A i \in DOMAIN msgs : msgs[i].conn = page.sock
  PROVE  /\ lane' \in [Sockets -> Seq(JoinMessages \cup FrameMessages)] /\ LanesOK'
         /\ \A c \in Sockets : lane[c] # <<>> => lane'[c] # <<>> /\ lane'[c][1] = lane[c][1]
<1> DEFINE c == page.sock
           q == LaneOf(c)
<1>1. /\ lane \in [Sockets -> Seq(JoinMessages \cup FrameMessages)] /\ c \in Peers /\ page.opened \in Nat
      /\ conn \in [Sockets -> [open : BOOLEAN, rt : Peers]]
  BY DEF Inv, TypeOK, Pages
<1>2. CASE lane' = lane
  BY <1>2, LaneStays
<1>3. CASE c # NoSocket /\ conn[c].open /\ lane' = [lane EXCEPT ![q] = @ \o msgs]
  <2>1. c \in Sockets /\ msgs \in Seq(FrameMessages) /\ \A i \in DOMAIN msgs : msgs[i].conn = c
    BY <1>1, <1>3 DEF Peers
  <2>2. q \in Sockets /\ (c = q \/ conn[c].rt = q)
    BY <1>1, <2>1 DEF LaneOf, Joined, Peers
  <2>3. ~(c > page.opened) /\ c \in Nat
    BY <1>3, <2>1, SocketAssumption DEF Inv, ConnOK
  <2> HIDE DEF c, q
  <2> DEFINE new == lane[q] \o msgs
  <2>4. lane[q] \in Seq(JoinMessages \cup FrameMessages) /\ Len(lane[q]) \in Nat /\ Len(msgs) \in Nat
        /\ msgs \in Seq(JoinMessages \cup FrameMessages)
    BY <1>1, <2>1, <2>2
  <2>5. /\ new \in Seq(JoinMessages \cup FrameMessages) /\ Len(new) = Len(lane[q]) + Len(msgs)
        /\ \A i \in 1 .. Len(lane[q]) : new[i] = lane[q][i]
        /\ \A i \in 1 .. Len(new) : i > Len(lane[q]) => i - Len(lane[q]) \in DOMAIN msgs /\ new[i] = msgs[i - Len(lane[q])]
    BY <2>4
  <2>6. /\ lane' \in [Sockets -> Seq(JoinMessages \cup FrameMessages)] /\ lane'[q] = new
        /\ \A k \in Sockets : k # q => lane'[k] = lane[k]
    BY <1>1, <1>3, <2>2, <2>5
  <2>7. lane[q] # <<>> => new # <<>> /\ new[1] = lane[q][1]
    BY <2>4, <2>5
  <2> HIDE DEF new
  <2>8. ASSUME NEW k \in Sockets, NEW j \in DOMAIN lane'[k] PROVE LaneOK(lane[k][j], k, j)'
    <3>1. CASE j \in DOMAIN lane[k] /\ lane'[k][j] = lane[k][j]
      BY <3>1 DEF Inv, LanesOK, LaneOK, Joined, Made
    <3>2. CASE k = q /\ j \in 1 .. Len(new) /\ j > Len(lane[q])
      <4>1. PICK i \in DOMAIN msgs : lane'[k][j] = msgs[i]
        BY <2>5, <2>6, <3>2
      <4>2. msgs[i] \in FrameMessages /\ msgs[i].conn = c
        BY <2>1
      <4>3. lane'[k][j].kind = "frame" /\ lane'[k][j].conn = c
        BY <4>1, <4>2 DEF FrameMessages
      <4> QED BY <1>1, <2>2, <2>3, <3>2, <4>3 DEF LaneOK
    <3>3. k # q => j \in DOMAIN lane[k] /\ lane'[k][j] = lane[k][j]
      BY <2>6, <2>8
    <3>4. k = q => j \in 1 .. Len(new) /\ (j > Len(lane[q]) \/ j \in 1 .. Len(lane[q]))
      BY <2>4, <2>5, <2>6, <2>8
    <3>5. k = q /\ j \in 1 .. Len(lane[q]) => j \in DOMAIN lane[k] /\ lane'[k][j] = lane[k][j]
      BY <2>4, <2>5, <2>6
    <3> QED BY <3>1, <3>2, <3>3, <3>4, <3>5
  <2> QED BY <2>6, <2>7, <2>8 DEF LanesOK
<1> QED BY <1>2, <1>3 DEF Enqueued

LEMMA SocketOpensKeeps == ASSUME Inv, SocketOpens PROVE Inv'
<1> DEFINE c == page.opened + 1
           m == Join(c)
<1>1. /\ down' = down /\ task' = task /\ rt' = rt /\ current' = current /\ mode' = mode /\ fed' = fed
      /\ c \in Sockets
      /\ page' = [page EXCEPT !.st = "open", !.sock = c, !.opened = c]
      /\ conn' = [conn EXCEPT ![c].open = TRUE] /\ lane' = [lane EXCEPT ![c] = <<m>>]
  BY DEF SocketOpens
<1>2. /\ TypeOK /\ page \in Pages /\ page.opened \in Nat /\ c \in Nat /\ c > page.opened /\ Sockets \subseteq Nat
      /\ lane \in [Sockets -> Seq(JoinMessages \cup FrameMessages)]
      /\ conn \in [Sockets -> [open : BOOLEAN, rt : Peers]]
  <2>1. /\ TypeOK /\ page \in Pages /\ Sockets \subseteq Nat
        /\ lane \in [Sockets -> Seq(JoinMessages \cup FrameMessages)]
        /\ conn \in [Sockets -> [open : BOOLEAN, rt : Peers]]
    BY SocketAssumption DEF Inv, TypeOK
  <2>2. page.opened \in Nat
    BY <2>1 DEF Pages
  <2> QED BY <2>1, <2>2
<1>3. ~Joined(c) /\ ~Made(c) /\ task[c] = Idle
  BY <1>1, <1>2 DEF Inv, ConnOK
<1>4. m \in JoinMessages /\ m.conn = c /\ m.kind = "join"
  <2>1. Len(page.seen) \in Nat /\ page.stream \in Peers
    BY <1>2 DEF Pages
  <2> QED BY <1>1, <2>1 DEF Join, JoinMessages
<1> HIDE DEF m
<1>5. \A x \in Sockets : x > c => x > page.opened
  BY <1>2
<1>6. \A x \in Nat : x <= page.opened => x <= c
  BY <1>2
<1>7. \A x \in Sockets : x > page.opened => x \in Nat
  BY <1>2
<1> HIDE DEF c
<1>8. /\ page' \in Pages /\ page'.opened = c /\ page'.stream = page.stream /\ page'.seen = page.seen
      /\ page'.acked = page.acked /\ page'.next = page.next
  BY <1>1, <1>2 DEF Pages, Peers
<1>9. /\ conn' \in [Sockets -> [open : BOOLEAN, rt : Peers]]
      /\ \A x \in Sockets : conn'[x].rt = conn[x].rt /\ (x # c => conn'[x] = conn[x])
  BY <1>1, <1>2
<1>10. /\ lane' \in [Sockets -> Seq(JoinMessages \cup FrameMessages)] /\ lane'[c] = <<m>>
       /\ \A x \in Sockets : x # c => lane'[x] = lane[x]
  BY <1>1, <1>2, <1>4
<1>11. PageOK(page, rt, fed)' /\ LogsOK' /\ DownOK' /\ (current' # NoSocket => Made(current)')
  BY <1>1, <1>8 DEF Inv, PageOK, LogsOK, DownOK, Made
<1>12. TypeOK'
  BY <1>1, <1>2, <1>8, <1>9, <1>10, <1>11 DEF TypeOK, PageOK
<1>13. ASSUME NEW x \in Sockets PROVE ConnOK(x)'
  <2>1. CASE x = c
    <3>1. lane'[x] # <<>> /\ lane'[x][1].kind = "join"
      BY <1>4, <1>10, <2>1
    <3>2. Waiting(x)'
      BY <3>1 DEF Waiting
    <3>3. ~(x > page'.opened)
      BY <1>2, <1>8, <2>1
    <3> QED BY <1>3, <1>9, <2>1, <3>2, <3>3 DEF ConnOK, Joined
  <2>2. CASE x # c
    BY <1>1, <1>5, <1>8, <1>9, <1>10, <2>2 DEF Inv, ConnOK, Joined, Made, Waiting
  <2> QED BY <2>1, <2>2
<1>14. LanesOK'
  <2>1. ASSUME NEW k \in Sockets, NEW j \in DOMAIN lane'[k] PROVE LaneOK(lane[k][j], k, j)'
    <3>1. CASE k # c
      <4>1. LaneOK(lane[k][j], k, j) /\ lane'[k] = lane[k] /\ lane[k][j].conn \in Sockets
        BY <1>2, <1>10, <2>1, <3>1 DEF Inv, LanesOK, JoinMessages, FrameMessages
      <4> QED BY <1>1, <1>2, <1>6, <1>8, <1>9, <4>1 DEF LaneOK, Joined, Made
    <3>2. CASE k = c
      <4>1. j = 1 /\ lane'[k][j] = m
        BY <1>10, <2>1, <3>2
      <4> QED BY <1>1, <1>2, <1>3, <1>4, <1>8, <1>9, <3>2, <4>1 DEF LaneOK, Joined, Made
    <3> QED BY <3>1, <3>2
  <2> QED BY <2>1 DEF LanesOK
<1>15. ASSUME NEW k \in Sockets PROVE TaskOK(task[k], k)'
  <2>1. TaskOK(task[k], k) /\ (task[k] # Idle => task[k].conn \in Sockets /\ task[k].conn <= page.opened)
    BY TaskFacts DEF Inv
  <2>2. task[k] # Idle => task[k].conn <= c
    BY <1>2, <1>6, <2>1
  <2>3. \A x : Joined(x) /\ x \in Sockets => Joined(x)'
    BY <1>9 DEF Joined
  <2>4. Joined(k)' => Joined(k)
    BY <1>9 DEF Joined
  <2>5. task[k].at = "frame" => task[k] # Idle
    BY DEF Idle
  <2> QED BY <1>1, <1>8, <2>1, <2>2, <2>3, <2>4, <2>5 DEF TaskOK, Made
<1> QED BY <1>11, <1>12, <1>13, <1>14, <1>15 DEF Inv

LEMMA SendFrameKeeps == ASSUME Inv, SendFrame PROVE Inv'
<1>1. /\ page' = [page EXCEPT !.next = @ + 1] /\ page.next < MaxFrames
      /\ down' = down /\ conn' = conn /\ task' = task /\ rt' = rt /\ current' = current /\ mode' = mode
      /\ fed' = fed /\ lane' = Enqueued(page.sock, <<Frame(page.sock, page.next)>>)
  BY DEF SendFrame
<1>2. TypeOK /\ page \in Pages /\ page.next \in 0 .. MaxFrames - 1 /\ MaxFrames \in Nat
  BY <1>1, BoundAssumption DEF Inv, TypeOK, Pages
<1> DEFINE next == page.next + 1
<1>3. next \in 0 .. MaxFrames /\ (page.acked <= page.next => page.acked <= next)
  BY <1>2 DEF Pages
<1>4. page' = [page EXCEPT !.next = next]
  BY <1>1
<1> HIDE DEF next
<1>5. /\ page' \in Pages /\ page'.next = next /\ page'.opened = page.opened /\ page'.stream = page.stream
      /\ page'.seen = page.seen /\ page'.acked = page.acked
  BY <1>2, <1>3, <1>4 DEF Pages
<1>6. PageOK(page', rt, fed)
  BY <1>3, <1>5 DEF Inv, PageOK
<1>7. page.sock \in Sockets => Frame(page.sock, page.next) \in FrameMessages /\ Frame(page.sock, page.next).conn = page.sock
  BY <1>2 DEF Frame, FrameMessages
<1>8. down' \in Seq(Messages) /\ \A i \in DOMAIN down' : \E k \in DOMAIN down : down'[i] = down[k]
  BY <1>1, <1>2 DEF TypeOK
<1> DEFINE msgs == <<Frame(page.sock, page.next)>>
<1>9. page.sock \in Sockets => msgs \in Seq(FrameMessages) /\ \A i \in DOMAIN msgs : msgs[i].conn = page.sock
  BY <1>7
<1> HIDE DEF msgs
<1>10. lane' = Enqueued(page.sock, msgs)
  BY <1>1 DEF msgs
<1>11. /\ lane' \in [Sockets -> Seq(JoinMessages \cup FrameMessages)] /\ LanesOK'
       /\ \A c \in Sockets : lane[c] # <<>> => lane'[c] # <<>> /\ lane'[c][1] = lane[c][1]
  BY <1>1, <1>5, <1>9, <1>10, EnqueuedKeeps
<1> QED BY <1>1, <1>5, <1>6, <1>8, <1>11, PageKeeps

(* The end of the page's socket leaves what it has seen and acknowledged.   *)
LEMMA EndedFacts ==
  ASSUME Inv, page' \in {ScheduledReconnect} \cup {Terminal(f) : f \in Verdicts}
  PROVE  page' \in Pages /\ page'.opened = page.opened /\ PageOK(page', rt, fed)
<1>1. page \in Pages /\ "REALTIME_UNAVAILABLE" \in Verdicts
  BY DEF Inv, TypeOK, Verdicts
<1>2. ASSUME NEW f \in Verdicts, page' = Terminal(f)
      PROVE  page' \in Pages /\ page'.opened = page.opened /\ PageOK(page', rt, fed)
  <2>1. /\ page' \in Pages /\ page'.opened = page.opened /\ page'.next = page.next /\ page'.stream = page.stream
        /\ page'.seen = page.seen /\ page'.acked = page.acked
    BY <1>1, <1>2 DEF Terminal, Pages, Peers
  <2> QED BY <2>1 DEF Inv, PageOK
<1>3. CASE page' = ScheduledReconnect
  <2> DEFINE up   == page.attempts + 1
             away == [page EXCEPT !.st = "waiting", !.sock = NoSocket, !.attempts = up]
  <2>1. up \in Nat
    BY <1>1 DEF Pages
  <2>2. page' = away \/ page' = Terminal("REALTIME_UNAVAILABLE")
    BY <1>3 DEF ScheduledReconnect
  <2> HIDE DEF up
  <2>3. /\ away \in Pages /\ away.opened = page.opened /\ away.next = page.next /\ away.stream = page.stream
        /\ away.seen = page.seen /\ away.acked = page.acked
    BY <1>1, <2>1 DEF Pages, Peers
  <2> HIDE DEF away
  <2>4. PageOK(away, rt, fed)
    BY <2>3 DEF Inv, PageOK
  <2> QED BY <1>1, <1>2, <2>2, <2>3, <2>4
<1> QED BY <1>2, <1>3

LEMMA EndedKeeps ==
  ASSUME Inv, page' \in {ScheduledReconnect} \cup {Terminal(f) : f \in Verdicts}, down' = <<>>,
         UNCHANGED <<conn, lane, task, rt, current, mode, fed>>
  PROVE  Inv'
<1>1. page' \in Pages /\ page'.opened = page.opened /\ PageOK(page', rt, fed)
  BY EndedFacts
<1>2. /\ lane' \in [Sockets -> Seq(JoinMessages \cup FrameMessages)] /\ LanesOK'
      /\ \A c \in Sockets : lane[c] # <<>> => lane'[c] # <<>> /\ lane'[c][1] = lane[c][1]
  BY <1>1, LaneStays
<1>3. down' \in Seq(Messages) /\ \A i \in DOMAIN down' : \E k \in DOMAIN down : down'[i] = down[k]
  OBVIOUS
<1> QED BY <1>1, <1>2, <1>3, PageKeeps

LEMMA SocketLostKeeps == ASSUME Inv, SocketLost PROVE Inv'
  BY EndedKeeps DEF SocketLost

(* The next event of the runtime, applied by the page.                      *)
LEMMA AppliedFacts ==
  ASSUME Inv, NEW m \in Messages, MessageOK(m, rt), OwnStream(m), InOrder(m), m.event.kind \notin Verdicts,
         page' = Applied(m, Acked(m.event.ack))
  PROVE  /\ page' \in Pages /\ page'.opened = page.opened /\ PageOK(page', rt, fed)
         /\ page'.sock = page.sock
<1>1. TypeOK /\ page \in Pages /\ page.acked \in 0 .. MaxFrames /\ page.next \in 0 .. MaxFrames /\ MaxFrames \in Nat
  BY BoundAssumption DEF Inv, TypeOK, Pages
<1>2. /\ m.stream # NoSocket /\ m.seq < Len(rt[m.stream].events) /\ m.event = rt[m.stream].events[m.seq + 1]
      /\ m.stream \in Runtimes /\ m.stream \in Peers /\ m.event \in Events
  BY DEF MessageOK, Messages, Peers, Runtimes
<1>3. /\ rt[m.stream] \in Runs /\ RunOK(rt[m.stream], fed) /\ Len(rt[m.stream].events) \in Nat
      /\ rt[m.stream].top \in 0 .. MaxFrames
  BY <1>1, <1>2 DEF Inv, LogsOK, TypeOK, Runs
<1>4. page.seen \in Seq(Events) /\ Len(page.seen) \in Nat /\ m.seq = Len(page.seen)
  BY <1>1 DEF Pages, InOrder
<1> DEFINE ack  == m.event.ack
           acks == IF ack + 1 > page.acked THEN ack + 1 ELSE page.acked
           next == IF ack + 1 > page.next THEN ack + 1 ELSE page.next
           seen == Append(page.seen, m.event)
           tries == IF m.event.kind = "ready" THEN 0 ELSE page.attempts
           new  == [page EXCEPT !.acked = acks, !.next = next, !.stream = m.stream, !.seen = seen, !.attempts = tries]
<1>5. ack \in -1 .. MaxFrames - 1 /\ ack < rt[m.stream].top
  <2>1. m.seq + 1 \in DOMAIN rt[m.stream].events
    BY <1>2, <1>3, <1>4
  <2>2. m.event.ack < rt[m.stream].top
    BY <1>2, <1>3, <2>1 DEF RunOK
  <2> QED BY <1>2, <2>2 DEF Events
<1>6. acks \in 0 .. MaxFrames /\ next \in 0 .. MaxFrames /\ (page.acked <= page.next => acks <= next)
  BY <1>1, <1>5
<1>7. AllFed(fed, acks)
  <2>1. AllFed(fed, page.acked) /\ AllFed(fed, rt[m.stream].top)
    BY <1>3 DEF Inv, PageOK, RunOK
  <2>2. acks <= rt[m.stream].top \/ acks = page.acked
    BY <1>1, <1>3, <1>5
  <2>3. acks <= rt[m.stream].top => \A n \in 0 .. acks - 1 : n \in 0 .. rt[m.stream].top - 1
    BY <1>3, <1>6
  <2> QED BY <2>1, <2>2, <2>3 DEF AllFed
<1>8. /\ seen \in Seq(Events) /\ Len(seen) = Len(page.seen) + 1 /\ seen[Len(seen)] = m.event
      /\ \A i \in 1 .. Len(page.seen) : seen[i] = page.seen[i]
  BY <1>2, <1>4
<1>9. tries \in Nat
  BY <1>1 DEF Pages
<1>10. page' = new
  BY DEF Applied, Acked
<1>11. /\ Len(seen) <= Len(rt[m.stream].events)
       /\ \A i \in 1 .. Len(seen) : seen[i] = rt[m.stream].events[i]
  <2>1. Len(seen) <= Len(rt[m.stream].events) /\ seen[Len(seen)] = rt[m.stream].events[Len(seen)]
    BY <1>2, <1>3, <1>4, <1>8
  <2>2. \A i \in 1 .. Len(page.seen) : page.seen[i] = rt[m.stream].events[i]
    <3>1. CASE page.stream = NoSocket
      BY <3>1 DEF Inv, PageOK
    <3>2. CASE page.stream = m.stream
      BY <1>2, <3>2 DEF Inv, PageOK
    <3> QED BY <3>1, <3>2 DEF OwnStream
  <2>3. \A i \in 1 .. Len(seen) : i \in 1 .. Len(page.seen) \/ i = Len(seen)
    BY <1>4, <1>8
  <2> HIDE DEF seen
  <2> QED BY <1>8, <2>1, <2>2, <2>3
<1> HIDE DEF ack, acks, next, seen, tries
<1>12. /\ new \in Pages /\ new.opened = page.opened /\ new.sock = page.sock /\ new.stream = m.stream
       /\ new.seen = seen /\ new.acked = acks /\ new.next = next
  BY <1>1, <1>2, <1>6, <1>8, <1>9 DEF Pages
<1> HIDE DEF new
<1>13. PageOK(new, rt, fed)
  BY <1>2, <1>6, <1>7, <1>11, <1>12 DEF Inv, PageOK
<1> QED BY <1>10, <1>12, <1>13

LEMMA TailDown ==
  ASSUME TypeOK, down # <<>>, down' = Tail(down)
  PROVE  down' \in Seq(Messages) /\ \A i \in DOMAIN down' : \E k \in DOMAIN down : down'[i] = down[k]
<1>1. down \in Seq(Messages) /\ Len(down) \in Nat
  BY DEF TypeOK
<1>2. /\ down' \in Seq(Messages) /\ Len(down') = Len(down) - 1
      /\ \A i \in 1 .. Len(down') : down'[i] = down[i + 1]
  BY <1>1, HeadTailProperties
<1>3. \A i \in DOMAIN down' : i + 1 \in DOMAIN down /\ down'[i] = down[i + 1]
  BY <1>1, <1>2
<1> QED BY <1>2, <1>3

LEMMA ReceiveKeeps == ASSUME Inv, Receive PROVE Inv'
<1> DEFINE m == Head(down)
<1>1. /\ conn' = conn /\ task' = task /\ rt' = rt /\ current' = current /\ mode' = mode /\ fed' = fed
      /\ down # <<>>
  BY DEF Receive
<1>2. TypeOK /\ m \in Messages /\ MessageOK(m, rt)
  <2>1. TypeOK /\ down \in Seq(Messages) /\ 1 \in DOMAIN down /\ m = down[1]
    BY <1>1 DEF Inv, TypeOK
  <2> QED BY <2>1 DEF Inv, DownOK
<1>3. CASE page' = Terminal("RESUME_WINDOW_EXPIRED") /\ down' = <<>> /\ UNCHANGED lane
  BY <1>1, <1>3, EndedKeeps DEF Verdicts
<1>4. CASE down' = Tail(down) /\ UNCHANGED <<page, lane>>
  <2>1. down' \in Seq(Messages) /\ \A i \in DOMAIN down' : \E k \in DOMAIN down : down'[i] = down[k]
    BY <1>1, <1>2, <1>4, TailDown
  <2>2. /\ lane' \in [Sockets -> Seq(JoinMessages \cup FrameMessages)] /\ LanesOK'
        /\ \A c \in Sockets : lane[c] # <<>> => lane'[c] # <<>> /\ lane'[c][1] = lane[c][1]
    BY <1>1, <1>4, LaneStays
  <2>3. page' \in Pages /\ PageOK(page', rt, fed)
    BY <1>4 DEF Inv, TypeOK
  <2> QED BY <1>1, <1>4, <2>1, <2>2, <2>3, PageKeeps
<1>5. CASE m.event.kind \in Verdicts /\ page' = Terminal(m.event.kind) /\ down' = <<>> /\ UNCHANGED lane
  BY <1>1, <1>5, EndedKeeps
<1>6. CASE /\ OwnStream(m) /\ InOrder(m) /\ m.event.kind \notin Verdicts
           /\ page' = Applied(m, Acked(m.event.ack)) /\ down' = Tail(down)
           /\ lane' = IF m.event.kind = "ready"
                      THEN Enqueued(page.sock, [i \in 1 .. page'.next - page'.acked |->
                                                  Frame(page.sock, page'.acked + i - 1)])
                      ELSE lane
  <2>1. page' \in Pages /\ page'.opened = page.opened /\ PageOK(page', rt, fed)
    BY <1>2, <1>6, AppliedFacts
  <2>2. down' \in Seq(Messages) /\ \A i \in DOMAIN down' : \E k \in DOMAIN down : down'[i] = down[k]
    BY <1>1, <1>2, <1>6, TailDown
  <2>3. /\ lane' \in [Sockets -> Seq(JoinMessages \cup FrameMessages)] /\ LanesOK'
        /\ \A c \in Sockets : lane[c] # <<>> => lane'[c] # <<>> /\ lane'[c][1] = lane[c][1]
    <3> DEFINE first == page'.acked
               count == page'.next - page'.acked
               msgs  == [i \in 1 .. count |-> Frame(page.sock, first + i - 1)]
    <3>1. CASE lane' = lane
      BY <1>1, <2>1, <3>1, LaneStays
    <3>2. CASE lane' = Enqueued(page.sock, msgs)
      <4>1. count \in Nat /\ first \in Nat /\ first + count \in 0 .. MaxFrames /\ MaxFrames \in Nat
        BY <2>1, BoundAssumption DEF Pages, PageOK
      <4> HIDE DEF first, count
      <4>2. \A i \in 1 .. count : first + i - 1 \in 0 .. MaxFrames - 1
        BY <4>1
      <4>3. page.sock \in Sockets =>
              \A i \in 1 .. count : /\ Frame(page.sock, first + i - 1) \in FrameMessages
                                    /\ Frame(page.sock, first + i - 1).conn = page.sock
        BY <4>2 DEF Frame, FrameMessages
      <4>4. page.sock \in Sockets => msgs \in Seq(FrameMessages) /\ \A i \in DOMAIN msgs : msgs[i].conn = page.sock
        BY <4>1, <4>3
      <4> HIDE DEF msgs
      <4> QED BY <1>1, <2>1, <3>2, <4>4, EnqueuedKeeps
    <3> QED BY <1>6, <3>1, <3>2
  <2> QED BY <1>1, <2>1, <2>2, <2>3, PageKeeps
<1> QED BY <1>3, <1>4, <1>5, <1>6 DEF Receive

-----------------------------------------------------------------------------
(* Theorems                                                                 *)

LEMMA InitInv == Init => Inv
<1> SUFFICES ASSUME Init PROVE Inv
  OBVIOUS
<1>1. MaxFrames \in Nat /\ Sockets \subseteq Nat
  BY BoundAssumption, SocketAssumption
<1>2. NoRuntime \in Runs /\ RunOK(NoRuntime, fed) /\ NoRuntime.lease = 0
  BY <1>1 DEF NoRuntime, Runs, Peers, RunOK, AllFed
<1>3. page \in Pages /\ page.acked <= page.next
  BY <1>1 DEF Init, Pages, Peers
<1>4. Idle \in Tasks
  BY DEF Tasks
<1>5. /\ \A r \in Runtimes : rt[r] = NoRuntime
      /\ \A c \in Sockets : /\ conn[c].open = FALSE /\ conn[c].rt = NoSocket
                            /\ lane[c] = <<>> /\ task[c] = Idle
  BY DEF Init
<1>6. TypeOK
  BY <1>1, <1>2, <1>3, <1>4, <1>5 DEF Init, TypeOK, Peers, RunOK
<1>7. PageOK(page, rt, fed) /\ DownOK /\ LanesOK
  BY <1>5 DEF Init, PageOK, AllFed, DownOK, LanesOK
<1>8. LogsOK
  BY <1>2, <1>5 DEF LogsOK
<1>9. ASSUME NEW c \in Sockets PROVE ConnOK(c) /\ TaskOK(task[c], c)
  BY <1>2, <1>5 DEF ConnOK, Joined, Made, TaskOK, Idle, Joining, Runtimes
<1> QED BY <1>6, <1>7, <1>8, <1>9 DEF Init, Inv

LEMMA NextKeeps == Inv /\ [Next]_vars => Inv'
<1> SUFFICES ASSUME Inv, [Next]_vars PROVE Inv'
  OBVIOUS
<1>1. CASE UNCHANGED vars
  BY <1>1 DEF vars, Inv, TypeOK, PageOK, LogsOK, DownOK, ConnOK, LanesOK, LaneOK, TaskOK, Joined, Made, Waiting
<1>2. CASE SocketOpens \/ SendFrame \/ SocketLost \/ Receive
  BY <1>2, SocketOpensKeeps, SendFrameKeeps, SocketLostKeeps, ReceiveKeeps
<1>3. CASE \E c \in Sockets : CloseSeen(c) \/ Touch(c)
  BY <1>3, CloseSeenKeeps, TouchKeeps
<1>4. ASSUME NEW l \in Sockets,
             Take(l) \/ JoinDecides(l) \/ Create(l) \/ Confirm(l) \/ Ready(l)
             \/ FrameDecides(l) \/ FeedTaken(l) \/ FeedFails(l)
      PROVE  Inv'
  BY <1>4, TakeKeeps, JoinDecidesKeeps, CreateKeeps, ConfirmKeeps, ReadyKeeps, FrameDecidesKeeps,
     FeedTakenKeeps, FeedFailsKeeps
<1>5. CASE Publish \/ SessionStops \/ RuntimeGone
  BY <1>5, PublishKeeps, SessionStopsKeeps, RuntimeGoneKeeps
<1> QED BY <1>1, <1>2, <1>3, <1>4, <1>5 DEF Next

LEMMA Invariance == Spec => []Inv
  BY InitInv, NextKeeps, PTL DEF Spec

(* Connections, queues, tasks, runtimes and messages hold what their        *)
(* handlers put there.                                                      *)
THEOREM TypeCorrect == Spec => []TypeOK
<1>1. Inv => TypeOK
  BY DEF Inv
<1> QED BY <1>1, Invariance, PTL

(* What the page has applied is the beginning of its runtime's log, whatever *)
(* was lost, replayed or published meanwhile (acceptEvent, recover).         *)
THEOREM SeenIsThePrefix == Spec => []SeenInOrder
<1>1. Inv => SeenInOrder
  <2> SUFFICES ASSUME Inv, page.stream # NoSocket
               PROVE  page.seen = SubSeq(rt[page.stream].events, 1, Len(page.seen))
    BY DEF SeenInOrder
  <2> DEFINE log == rt[page.stream].events
  <2>1. page.seen \in Seq(Events) /\ Len(page.seen) \in Nat /\ log \in Seq(Events) /\ Len(log) \in Nat
    <3>1. page \in Pages /\ page.stream \in Runtimes /\ rt \in [Runtimes -> Runs]
      BY DEF Inv, TypeOK, Pages, Peers, Runtimes
    <3>2. rt[page.stream] \in Runs
      BY <3>1
    <3> QED BY <3>1, <3>2 DEF Pages, Runs
  <2>2. Len(page.seen) <= Len(log) /\ \A i \in 1 .. Len(page.seen) : page.seen[i] = log[i]
    BY DEF Inv, PageOK
  <2> HIDE DEF log
  <2>3. \A i \in 1 .. Len(page.seen) : log[i] \in Events
    BY <2>1, <2>2
  <2> DEFINE part == SubSeq(log, 1, Len(page.seen))
  <2>4. /\ part \in Seq(Events) /\ Len(part) = IF 1 <= Len(page.seen) THEN Len(page.seen) - 1 + 1 ELSE 0
        /\ \A i \in 1 .. Len(page.seen) - 1 + 1 : part[i] = log[1 + i - 1]
    BY <2>1, <2>3, SubSeqProperties
  <2> HIDE DEF part
  <2>5. Len(part) = Len(page.seen) /\ \A i \in 1 .. Len(page.seen) : part[i] = log[i]
    BY <2>1, <2>4
  <2>6. page.seen = part
    BY <2>1, <2>2, <2>4, <2>5, SeqEqual
  <2> QED BY <2>6 DEF part, log
<1> QED BY <1>1, Invariance, PTL

(* A frame the page let go of was taken by the adapter: an acknowledgement  *)
(* is of frames recorded under the lease (ingestFrame, acknowledge).        *)
THEOREM AcknowledgedIsFed == Spec => []ForgottenIsFed
<1>1. Inv => ForgottenIsFed
  BY DEF Inv, PageOK, AllFed, ForgottenIsFed
<1> QED BY <1>1, Invariance, PTL

----------------------------------------------------------------------------
(* The adapter behind the gateway, for every number of opens, attempts,    *)
(* frames, sentences and failures.  A frame the adapter took moves from    *)
(* the queue of the current attempt to what it sends and is then sent, in  *)
(* the order it came; whatever ends an attempt moves what is left to the   *)
(* gaps of its session, which the next session inherits.                   *)
CONSTANTS Opens, Attempts, MaxHeard, MaxQueue, MaxRetries, Sentences, MaxLosses
VARIABLES ses, att, map, rtm, runtime, streams, recorded, stored, published, slots, drain, ingestible, losses

Asr == INSTANCE AsrAttempts WITH MaxFrames <- MaxHeard, MaxFaults <- MaxLosses, next <- recorded, faults <- losses

(* Opens and attempts are counted from 1; 0 is none of them.               *)
AsrNumbers == Opens \subseteq Nat \ {0} /\ Attempts \subseteq Nat \ {0}

Adapters ==
  [active : {0} \cup Attempts, closed : BOOLEAN, gaps : SUBSET Int, tries : Int,
   retry : {"none", "rotating", "backoff"}, to : Nat, lost : BOOLEAN]
Outcomes == {"none", "dropped", "ingesting", "stored", "refused", "done"}
Connections ==
  [of : {0} \cup Opens, stream : Nat, accepted : Int, terminal : Int, queue : Seq(Int), sending : Seq(Int),
   ready : BOOLEAN, failed : BOOLEAN, ending : BOOLEAN, endSent : BOOLEAN, final : BOOLEAN, released : BOOLEAN,
   took : SUBSET Nat, results : [Sentences -> Outcomes]]

AsrTypeOK ==
  /\ ses \in [Opens -> Adapters] /\ att \in [Attempts -> Connections]
  /\ map \in {0} \cup Opens /\ runtime = map
  /\ rtm \in [Opens -> [stream : Nat, bound : Nat]]
  /\ streams \in [made : Nat, active : Nat]
  /\ recorded \in Nat
  /\ drain \in {"no", "draining", "drained", "degraded"}

(* Every session but the adapter's own is closed, and the active attempt   *)
(* of a session is its own.                                                *)
SessionsOK ==
  \A o \in Opens : /\ o # map => ses[o].closed
                   /\ ses[o].active # 0 => att[ses[o].active].of = o

(* Frames wait, and are sent, in their order.                              *)
Sorted(q) == \A i, j \in 1 .. Len(q) : i <= j => q[i] <= q[j]
FramesOK(r, top) ==
  /\ r.took \subseteq 0 .. r.accepted /\ r.accepted <= top
  /\ r.terminal >= -1 /\ r.terminal <= r.accepted
  /\ Sorted(r.queue) /\ Sorted(r.sending)
  /\ \A i \in 1 .. Len(r.queue) : r.terminal <= r.queue[i] /\ r.queue[i] <= r.accepted
  /\ \A i \in 1 .. Len(r.sending) : r.terminal <= r.sending[i] /\ r.sending[i] <= r.accepted
  /\ \A i \in 1 .. Len(r.sending), j \in 1 .. Len(r.queue) : r.sending[i] <= r.queue[j]

(* What the current attempt received is under way to the rows.             *)
ResultsOK(a) ==
  \A s \in Sentences :
    \/ att[a].results[s] \in {"none", "ingesting"}
    \/ att[a].results[s] = "stored" /\ <<a, s>> \in stored
    \/ att[a].results[s] = "done" /\ <<a, s>> \in stored \cap published

(* The current attempt is the one the runtime is bound to.                 *)
CurrentOK(a) ==
  Asr!Current(a) => /\ att[a].of = map /\ ses[map].retry = "none"
                    /\ rtm[map].bound = a /\ rtm[map].stream = att[a].stream
                    /\ ResultsOK(a)

Held(r, n) == Asr!Contains(r.queue, n) \/ Asr!Contains(r.sending, n)
Noted(n) == map # 0 /\ n \in ses[map].gaps
AccountedFor(a) ==
  att[a].of # 0 =>
    \A n \in att[a].took \ 0 .. att[a].terminal : (Asr!Current(a) /\ Held(att[a], n)) \/ Noted(n)

(* One attempt is ending, and what begins after the drain takes nothing.   *)
EndingOK ==
  /\ \A a \in Attempts : att[a].ending => drain # "no"
  /\ \A a, b \in Attempts : att[a].ending /\ att[b].ending => a = b
  /\ drain # "no" => \A a \in Attempts : Asr!Current(a) /\ ~att[a].ending => att[a].took = {}

AttemptsOK == \A a \in Attempts : FramesOK(att[a], recorded) /\ CurrentOK(a) /\ AccountedFor(a)

(* What a drained transcript rests on stays as it was.                     *)
DrainedOK ==
  drain = "drained" =>
    /\ map # 0 /\ ses[map].closed
    /\ ses[map].active # 0 =>
         \A s \in Sentences :
           \/ att[ses[map].active].results[s] = "none"
           \/ att[ses[map].active].results[s] = "done" /\ <<ses[map].active, s>> \in stored \cap published

CallInv == AsrTypeOK /\ SessionsOK /\ AttemptsOK /\ EndingOK
AsrInv == CallInv /\ DrainedOK

----------------------------------------------------------------------------
LEMMA CurrentFacts ==
  ASSUME AsrNumbers, CallInv, NEW a \in Attempts
  PROVE  /\ Asr!Current(a) <=> /\ att[a].of # 0 /\ ~ses[att[a].of].closed /\ ~att[a].failed /\ ses[att[a].of].active = a
         /\ Asr!Current(a) => map \in Opens /\ att[a].of = map /\ ses[map].active = a /\ ~ses[map].closed
         /\ Asr!Current(a) => a = ses[map].active
<1>1. Asr!Current(a) <=> /\ att[a].of # 0 /\ ~ses[att[a].of].closed /\ ~att[a].failed /\ ses[att[a].of].active = a
  BY DEF Asr!Current, Asr!Made, Asr!Session, Asr!None
<1>2. att[a].of \in {0} \cup Opens
  BY DEF CallInv, AsrTypeOK, Connections
<1> QED BY <1>1, <1>2 DEF CallInv, SessionsOK, AsrNumbers

LEMMA OneCurrent ==
  ASSUME AsrNumbers, CallInv, NEW a \in Attempts, NEW b \in Attempts, Asr!Current(a), Asr!Current(b)
  PROVE  a = b
BY CurrentFacts

(* What a step owes an attempt it changes.                                 *)
ChangeOK(a) ==
  /\ att'[a].of = att[a].of /\ att'[a].stream = att[a].stream /\ att'[a].ending = att[a].ending
  /\ att[a].failed => att'[a].failed
  /\ att'[a].took = att[a].took \/ drain' = "no"
  /\ FramesOK(att'[a], recorded')
  /\ AccountedFor(a)'
  /\ Asr!Current(a)' => ResultsOK(a)'

(* Sessions keep their attempts, and only gain gaps and an end.            *)
SessionsKeep ==
  /\ map' = map /\ runtime' = runtime
  /\ ses' \in [Opens -> Adapters]
  /\ \A o \in Opens : /\ ses'[o].active = ses[o].active /\ ses[o].gaps \subseteq ses'[o].gaps
                      /\ ses[o].closed => ses'[o].closed
WorldKeeps ==
  /\ streams' \in [made : Nat, active : Nat] /\ rtm' \in [Opens -> [stream : Nat, bound : Nat]]
  /\ recorded' \in Nat /\ recorded' >= recorded
  /\ stored \subseteq stored' /\ published \subseteq published'
  /\ drain' \in {"no", "draining", "drained", "degraded"} /\ (drain' = "no" <=> drain = "no")

LEMMA StillCurrent ==
  ASSUME AsrNumbers, CallInv, SessionsKeep, NEW b \in Attempts, att'[b].of = att[b].of, att[b].failed => att'[b].failed
  PROVE  Asr!Current(b)' => Asr!Current(b)
<1>1. Asr!Current(b)' => /\ att'[b].of # 0 /\ ~ses'[att'[b].of].closed /\ ~att'[b].failed /\ ses'[att'[b].of].active = b
  BY DEF Asr!Current, Asr!Made, Asr!Session, Asr!None
<1>2. att[b].of \in {0} \cup Opens
  BY DEF CallInv, AsrTypeOK, Connections
<1> QED BY <1>1, <1>2, CurrentFacts DEF SessionsKeep

LEMMA FramesMono ==
  ASSUME NEW r \in Connections, NEW n \in Nat, NEW k \in Nat, n <= k, FramesOK(r, n)
  PROVE  FramesOK(r, k)
BY DEF FramesOK, Connections

LEMMA CallStepKeeps ==
  ASSUME AsrNumbers, CallInv, SessionsKeep, WorldKeeps,
         att' \in [Attempts -> Connections],
         NEW C \in SUBSET Attempts,
         \A b \in Attempts \ C : att'[b] = att[b],
         \A b \in C : ChangeOK(b),
         \A b \in Attempts \ C : Asr!Current(b) => Asr!Current(b)' \/ att[b].took = {},
         \A b \in Attempts : Asr!Current(b)' => ses'[map].retry = ses[map].retry /\ rtm'[map] = rtm[map]
  PROVE  CallInv'
<1>1. AsrTypeOK'
  BY DEF CallInv, AsrTypeOK, SessionsKeep, WorldKeeps
<1>2. \A b \in Attempts : /\ att'[b].of = att[b].of /\ att'[b].stream = att[b].stream /\ att'[b].ending = att[b].ending
                          /\ Asr!Current(b)' => Asr!Current(b)
  <2> TAKE b \in Attempts
  <2>1. /\ att'[b].of = att[b].of /\ att'[b].stream = att[b].stream /\ att'[b].ending = att[b].ending
        /\ att[b].failed => att'[b].failed
    <3>1. CASE b \in C
      BY <3>1 DEF ChangeOK
    <3>2. CASE b \notin C
      BY <3>2
    <3> QED BY <3>1, <3>2
  <2>2. Asr!Current(b)' => Asr!Current(b)
    BY <2>1, StillCurrent
  <2> QED BY <2>1, <2>2
<1>3. SessionsOK'
  <2> SUFFICES ASSUME NEW o \in Opens
               PROVE  (o # map' => ses'[o].closed) /\ (ses'[o].active # 0 => att'[ses'[o].active].of = o)
    BY DEF SessionsOK
  <2>1. ses[o].active \in {0} \cup Attempts
    BY DEF CallInv, AsrTypeOK, Adapters
  <2> QED BY <1>2, <2>1 DEF CallInv, SessionsOK, SessionsKeep
<1>4. EndingOK'
  <2>1. \A a \in Attempts : drain # "no" /\ Asr!Current(a)' /\ ~att'[a].ending => att'[a].took = {}
    BY <1>2 DEF ChangeOK, CallInv, EndingOK, WorldKeeps
  <2> QED BY <1>2, <2>1 DEF CallInv, EndingOK, WorldKeeps
<1>5. ASSUME NEW b \in Attempts PROVE FramesOK(att'[b], recorded') /\ CurrentOK(b)' /\ AccountedFor(b)'
  <2>1. FramesOK(att'[b], recorded')
    <3>1. CASE b \in C
      BY <3>1 DEF ChangeOK
    <3>2. CASE b \notin C
      BY <3>2, FramesMono DEF CallInv, AttemptsOK, AsrTypeOK, WorldKeeps
    <3> QED BY <3>1, <3>2
  <2>2. Asr!Current(b)' => ResultsOK(b)'
    <3>1. CASE b \in C
      BY <3>1 DEF ChangeOK
    <3>2. CASE b \notin C
      <4>1. att'[b] = att[b] /\ (Asr!Current(b)' => ResultsOK(b))
        BY <1>2, <3>2 DEF CallInv, AttemptsOK, CurrentOK
      <4> QED BY <4>1 DEF ResultsOK, WorldKeeps
    <3> QED BY <3>1, <3>2
  <2>3. CurrentOK(b)'
    <3>1. Asr!Current(b)' => Asr!Current(b) /\ ses'[map].retry = ses[map].retry /\ rtm'[map] = rtm[map]
      BY <1>2
    <3>2. map' = map
      BY DEF SessionsKeep
    <3> QED BY <1>2, <2>2, <3>1, <3>2 DEF CallInv, AttemptsOK, CurrentOK
  <2>4. AccountedFor(b)'
    <3>1. CASE b \in C
      BY <3>1 DEF ChangeOK
    <3>2. CASE b \notin C
      <4> SUFFICES ASSUME att[b].of # 0, NEW n \in att[b].took \ 0 .. att[b].terminal
                   PROVE  (Asr!Current(b)' /\ Held(att[b], n)) \/ Noted(n)'
        BY <3>2 DEF AccountedFor, Held
      <4>1. (Asr!Current(b) /\ Held(att[b], n)) \/ Noted(n)
        BY DEF CallInv, AttemptsOK, AccountedFor
      <4>2. Noted(n) => Noted(n)'
        BY DEF Noted, SessionsKeep, CallInv, AsrTypeOK
      <4>3. Asr!Current(b) => Asr!Current(b)'
        BY <3>2
      <4> QED BY <4>1, <4>2, <4>3
    <3> QED BY <3>1, <3>2
  <2> QED BY <2>1, <2>3, <2>4
<1> QED BY <1>1, <1>3, <1>4, <1>5 DEF CallInv, AttemptsOK

(* A step of one attempt that fails nothing.                               *)
LEMMA OneAttempt ==
  ASSUME AsrNumbers, CallInv, SessionsKeep, NEW a \in Attempts, NEW r \in Connections, att' = [att EXCEPT ![a] = r],
         \A o \in Opens : ses'[o].closed = ses[o].closed /\ ses'[o].retry = ses[o].retry,
         UNCHANGED <<rtm, streams, recorded, drain>>, stored \subseteq stored', published \subseteq published',
         r.of = att[a].of, r.stream = att[a].stream, r.ending = att[a].ending, r.failed = att[a].failed,
         r.took = att[a].took, r.terminal >= att[a].terminal, FramesOK(r, recorded),
         Asr!Current(a) => \A n \in Nat \ 0 .. r.terminal : Held(att[a], n) => Held(r, n),
         Asr!Current(a) => ResultsOK(a)'
  PROVE  CallInv'
<1>1. att' \in [Attempts -> Connections] /\ att'[a] = r /\ \A b \in Attempts \ {a} : att'[b] = att[b]
  BY DEF CallInv, AsrTypeOK
<1>2. \A b \in Attempts : Asr!Current(b)' <=> Asr!Current(b)
  <2> TAKE b \in Attempts
  <2>1. Asr!Current(b)' <=> /\ att'[b].of # 0 /\ ~ses'[att'[b].of].closed /\ ~att'[b].failed /\ ses'[att'[b].of].active = b
    BY DEF Asr!Current, Asr!Made, Asr!Session, Asr!None
  <2>2. att[b].of \in {0} \cup Opens /\ att'[b].of = att[b].of /\ att'[b].failed = att[b].failed
    <3>1. att'[b].of = att[b].of /\ att'[b].failed = att[b].failed
      BY <1>1
    <3> QED BY <3>1 DEF CallInv, AsrTypeOK, Connections
  <2> QED BY <2>1, <2>2, CurrentFacts DEF SessionsKeep
<1>3. AccountedFor(a)'
  <2> SUFFICES ASSUME att[a].of # 0, NEW n \in att[a].took, n \notin 0 .. r.terminal
               PROVE  (Asr!Current(a) /\ Held(r, n)) \/ Noted(n)'
    BY <1>1, <1>2 DEF AccountedFor, Held
  <2>1. n \in Nat \ 0 .. r.terminal /\ n \notin 0 .. att[a].terminal
    <3>1. att[a] \in Connections
      BY DEF CallInv, AsrTypeOK
    <3>2. n \in Nat /\ r.terminal \in Int /\ att[a].terminal \in Int
      BY <3>1 DEF Connections
    <3> QED BY <3>2
  <2>2. (Asr!Current(a) /\ Held(att[a], n)) \/ Noted(n)
    BY <2>1 DEF CallInv, AttemptsOK, AccountedFor
  <2>3. Noted(n) => Noted(n)'
    BY DEF Noted, SessionsKeep, CallInv, AsrTypeOK
  <2> QED BY <2>1, <2>2, <2>3
<1>4. ChangeOK(a)
  BY <1>1, <1>2, <1>3 DEF ChangeOK
<1>5. WorldKeeps
  BY DEF WorldKeeps, CallInv, AsrTypeOK
<1>6. \A b \in Attempts : Asr!Current(b)' => ses'[map].retry = ses[map].retry /\ rtm'[map] = rtm[map]
  BY <1>2, CurrentFacts
<1> QED BY <1>1, <1>2, <1>4, <1>5, <1>6, CallStepKeeps, {a} \in SUBSET Attempts

(* What a drained transcript rests on is not touched any more.             *)
LEMMA DrainedKeeps ==
  ASSUME AsrNumbers, AsrInv, SessionsKeep, stored \subseteq stored', published \subseteq published',
         drain' = "drained" => drain = "drained",
         \A a \in Attempts : \/ att'[a].results = att[a].results
                             \/ Asr!Current(a)
                             \/ \E s \in Sentences : att[a].results[s] \in {"ingesting", "stored"}
  PROVE  DrainedOK'
<1> SUFFICES ASSUME drain = "drained" PROVE DrainedOK'
  BY DEF DrainedOK
<1>1. map \in Opens /\ ses[map].closed /\ map' = map /\ ses'[map].closed /\ ses'[map].active = ses[map].active
  BY DEF AsrInv, CallInv, AsrTypeOK, DrainedOK, SessionsKeep
<1> DEFINE a == ses[map].active
<1>2. a \in {0} \cup Attempts
  BY <1>1 DEF AsrInv, CallInv, AsrTypeOK, Adapters
<1>3. CASE a = 0
  BY <1>1, <1>3 DEF DrainedOK, AsrNumbers
<1>4. CASE a # 0
  <2>1. a \in Attempts
    BY <1>2, <1>4
  <2>2. att[a].of = map
    BY <1>1, <1>4 DEF AsrInv, CallInv, SessionsOK
  <2>3. ~Asr!Current(a)
    BY <1>1, <2>1, <2>2, CurrentFacts DEF AsrInv
  <2>4. \A s \in Sentences :
           \/ att[a].results[s] = "none"
           \/ att[a].results[s] = "done" /\ <<a, s>> \in stored \cap published
    BY <1>4 DEF AsrInv, DrainedOK
  <2>5. att'[a].results = att[a].results
    BY <2>1, <2>3, <2>4
  <2> QED BY <1>1, <2>4, <2>5 DEF DrainedOK, AsrNumbers
<1> QED BY <1>3, <1>4

----------------------------------------------------------------------------
LEMMA FramesSame ==
  ASSUME NEW r \in Connections, NEW q \in Connections, NEW n \in Nat, FramesOK(r, n),
         q.took = r.took, q.accepted = r.accepted, q.terminal = r.terminal, q.queue = r.queue, q.sending = r.sending
  PROVE  FramesOK(q, n)
BY DEF FramesOK

LEMMA OfAttempt ==
  ASSUME CallInv, NEW a \in Attempts
  PROVE  att[a] \in Connections /\ FramesOK(att[a], recorded) /\ recorded \in Nat /\ AccountedFor(a)
BY DEF CallInv, AsrTypeOK, AttemptsOK

LEMMA SessionsStay ==
  ASSUME CallInv, UNCHANGED <<ses, map, runtime>>
  PROVE  SessionsKeep /\ \A o \in Opens : ses'[o].closed = ses[o].closed /\ ses'[o].retry = ses[o].retry
BY DEF SessionsKeep, CallInv, AsrTypeOK

(* What a step that only gives an attempt a result leaves alone.           *)
SameFrames(r, q) ==
  /\ r.of = q.of /\ r.stream = q.stream /\ r.ending = q.ending /\ r.failed = q.failed /\ r.took = q.took
  /\ r.terminal = q.terminal /\ r.accepted = q.accepted /\ r.queue = q.queue /\ r.sending = q.sending

LEMMA ResultStep ==
  ASSUME AsrNumbers, AsrInv, SessionsKeep, NEW a \in Attempts, NEW r \in Connections, att' = [att EXCEPT ![a] = r],
         SameFrames(r, att[a]),
         \A o \in Opens : ses'[o].closed = ses[o].closed /\ ses'[o].retry = ses[o].retry,
         UNCHANGED <<rtm, streams, recorded, drain>>, stored \subseteq stored', published \subseteq published',
         Asr!Current(a) => ResultsOK(a)',
         r.results = att[a].results \/ Asr!Current(a) \/ \E s \in Sentences : att[a].results[s] \in {"ingesting", "stored"}
  PROVE  AsrInv'
<1>1. FramesOK(r, recorded) /\ \A n : Held(att[a], n) => Held(r, n)
  BY OfAttempt, FramesSame DEF Held, AsrInv, SameFrames
<1>2. CallInv'
  <2>1. r.terminal >= att[a].terminal
    BY OfAttempt DEF AsrInv, Connections, SameFrames
  <2> QED BY <1>1, <2>1, OneAttempt DEF AsrInv, SameFrames
<1>3. DrainedOK'
  <2>1. att'[a] = r /\ \A b \in Attempts \ {a} : att'[b] = att[b]
    BY DEF AsrInv, CallInv, AsrTypeOK
  <2> QED BY <2>1, DrainedKeeps DEF AsrInv
<1> QED BY <1>2, <1>3 DEF AsrInv

LEMMA GapsField ==
  ASSUME NEW r \in Adapters, NEW G \in SUBSET Int
  PROVE  LET q == [r EXCEPT !.gaps = G] IN
         /\ q \in Adapters /\ q.gaps = G /\ q.active = r.active /\ q.closed = r.closed /\ q.retry = r.retry
         /\ q.tries = r.tries /\ q.to = r.to /\ q.lost = r.lost
BY DEF Adapters

LEMMA AsrReadyKeeps == ASSUME AsrNumbers, AsrInv, NEW a \in Attempts, Asr!Ready(a) PROVE AsrInv'
<1>1. Asr!Current(a) /\ UNCHANGED <<map, rtm, runtime, streams, recorded, stored, published, drain>>
  BY DEF Asr!Ready
<1>2. map \in Opens /\ att[a].of = map /\ ses \in [Opens -> Adapters]
  BY <1>1, CurrentFacts DEF AsrInv, CallInv, AsrTypeOK
<1>3. SessionsKeep /\ \A o \in Opens : ses'[o].closed = ses[o].closed /\ ses'[o].retry = ses[o].retry
  <2>1. CASE ses' = ses
    BY <1>1, <2>1, SessionsStay DEF AsrInv
  <2>2. CASE ses' = [Asr!Marked(att[a].of, {Asr!EvidenceLost}) EXCEPT ![att[a].of].lost = FALSE]
    <3>1. ses' = [ses EXCEPT ![map] = [[ses[map] EXCEPT !.gaps = ses[map].gaps \cup {-1}] EXCEPT !.lost = FALSE]]
      BY <1>2, <2>2 DEF Asr!Marked, Asr!EvidenceLost, Asr!None, AsrNumbers
    <3> DEFINE q == [[ses[map] EXCEPT !.gaps = ses[map].gaps \cup {-1}] EXCEPT !.lost = FALSE]
    <3>2. ses[map] \in Adapters
      BY <1>2
    <3>3. /\ q \in Adapters /\ q.active = ses[map].active /\ q.closed = ses[map].closed /\ q.retry = ses[map].retry
          /\ ses[map].gaps \subseteq q.gaps
      <4> DEFINE G == ses[map].gaps \cup {-1}
      <4>1. G \in SUBSET Int /\ ses[map].gaps \subseteq G
        BY <3>2 DEF Adapters
      <4> HIDE DEF G
      <4> DEFINE y == [ses[map] EXCEPT !.gaps = G]
      <4>2. y \in Adapters /\ y.gaps = G /\ y.active = ses[map].active /\ y.closed = ses[map].closed /\ y.retry = ses[map].retry
        BY <3>2, <4>1, GapsField
      <4> HIDE DEF y
      <4>3. LET x == [y EXCEPT !.lost = FALSE] IN
            x \in Adapters /\ x.gaps = G /\ x.active = y.active /\ x.closed = y.closed /\ x.retry = y.retry
        BY <4>2 DEF Adapters
      <4> QED BY <4>1, <4>2, <4>3 DEF y, G
    <3> HIDE DEF q
    <3>4. \A o \in Opens : ses'[o] = IF o = map THEN q ELSE ses[o]
      BY <1>2, <3>1 DEF q
    <3>5. ses' \in [Opens -> Adapters]
      BY <1>2, <3>1, <3>3 DEF q
    <3> QED BY <1>1, <3>3, <3>4, <3>5 DEF SessionsKeep
  <2> QED BY <2>1, <2>2 DEF Asr!Ready
<1> DEFINE r == [att[a] EXCEPT !.ready = TRUE]
<1>4. att' = [att EXCEPT ![a] = r]
  BY DEF Asr!Ready
<1>5. r \in Connections /\ SameFrames(r, att[a]) /\ r.results = att[a].results
  BY OfAttempt DEF AsrInv, Connections, SameFrames
<1> HIDE DEF r
<1>6. ResultsOK(a)'
  <2>1. ResultsOK(a)
    BY <1>1 DEF AsrInv, CallInv, AttemptsOK, CurrentOK
  <2>2. att'[a].results = att[a].results
    BY <1>4, <1>5 DEF AsrInv, CallInv, AsrTypeOK
  <2> QED BY <1>1, <2>1, <2>2 DEF ResultsOK
<1> QED BY <1>1, <1>3, <1>4, <1>5, <1>6, ResultStep

LEMMA SendEndKeeps == ASSUME AsrNumbers, AsrInv, NEW a \in Attempts, Asr!SendEnd(a) PROVE AsrInv'
<1>1. Asr!Current(a) /\ UNCHANGED <<ses, map, rtm, runtime, streams, recorded, stored, published, drain>>
  BY DEF Asr!SendEnd
<1> DEFINE r == [att[a] EXCEPT !.endSent = TRUE]
<1>4. att' = [att EXCEPT ![a] = r]
  BY DEF Asr!SendEnd
<1>5. r \in Connections /\ SameFrames(r, att[a]) /\ r.results = att[a].results
  BY OfAttempt DEF AsrInv, Connections, SameFrames
<1> HIDE DEF r
<1>6. ResultsOK(a)'
  <2>1. ResultsOK(a)
    BY <1>1 DEF AsrInv, CallInv, AttemptsOK, CurrentOK
  <2>2. att'[a].results = att[a].results
    BY <1>4, <1>5 DEF AsrInv, CallInv, AsrTypeOK
  <2> QED BY <1>1, <2>1, <2>2 DEF ResultsOK
<1> QED BY <1>1, <1>4, <1>5, <1>6, SessionsStay, ResultStep DEF AsrInv

LEMMA ReceivedFacts ==
  ASSUME AsrNumbers, AsrInv, NEW a \in Attempts
  PROVE  Asr!Current(a) => Asr!Received(a) = "ingesting" /\ Asr!BoundNow(a)
BY CurrentFacts DEF AsrInv, CallInv, AttemptsOK, CurrentOK, AsrTypeOK, Asr!Received, Asr!BoundNow

LEMMA ResultsField ==
  ASSUME NEW r \in Connections, NEW t \in [Sentences -> Outcomes]
  PROVE  LET q == [r EXCEPT !.results = t] IN q \in Connections /\ SameFrames(q, r) /\ q.results = t
BY DEF Connections, SameFrames

(* A result of an attempt moves on.                                        *)
LEMMA OneResult ==
  ASSUME AsrNumbers, AsrInv, NEW a \in Attempts, NEW s \in Sentences, NEW x \in Outcomes,
         att' = [att EXCEPT ![a].results[s] = x],
         UNCHANGED <<ses, map, runtime, rtm, streams, recorded, drain>>, stored \subseteq stored', published \subseteq published',
         Asr!Current(a) \/ att[a].results[s] \in {"ingesting", "stored"},
         Asr!Current(a) =>
           \/ x \in {"none", "ingesting"}
           \/ x = "stored" /\ <<a, s>> \in stored'
           \/ x = "done" /\ <<a, s>> \in stored' \cap published'
  PROVE  AsrInv'
<1> DEFINE t == [att[a].results EXCEPT ![s] = x]
           r == [att[a] EXCEPT !.results = t]
<1>1. att' = [att EXCEPT ![a] = r]
  OBVIOUS
<1>2. att[a] \in Connections
  BY OfAttempt DEF AsrInv
<1>3. att[a].results \in [Sentences -> Outcomes]
  BY <1>2 DEF Connections
<1>4. t \in [Sentences -> Outcomes] /\ t[s] = x /\ \A k \in Sentences \ {s} : t[k] = att[a].results[k]
  BY <1>3
<1> HIDE DEF t
<1>5. r \in Connections /\ SameFrames(r, att[a]) /\ r.results = t
  BY <1>2, <1>4, ResultsField
<1> HIDE DEF r
<1>6. Asr!Current(a) => ResultsOK(a)'
  <2> SUFFICES ASSUME Asr!Current(a) PROVE ResultsOK(a)'
    OBVIOUS
  <2>1. ResultsOK(a)
    BY DEF AsrInv, CallInv, AttemptsOK, CurrentOK
  <2>2. att'[a].results = t
    BY <1>1, <1>5 DEF AsrInv, CallInv, AsrTypeOK
  <2> QED BY <1>4, <2>1, <2>2 DEF ResultsOK
<1> QED BY <1>1, <1>5, <1>6, SessionsStay, ResultStep DEF AsrInv

LEMMA MovesOnKeeps ==
  ASSUME AsrNumbers, AsrInv, NEW a \in Attempts, NEW s \in Sentences,
         Asr!Deliver(a, s) \/ Asr!Ingest(a, s) \/ Asr!Publish(a, s)
  PROVE  AsrInv'
<1>1. CASE Asr!Deliver(a, s)
  BY <1>1, ReceivedFacts, OneResult DEF Asr!Deliver, Outcomes
<1>2. CASE Asr!Ingest(a, s)
  BY <1>2, OneResult DEF Asr!Ingest, Asr!IngestKey, Outcomes
<1>3. CASE Asr!Publish(a, s)
  <2>1. Asr!Current(a) => <<a, s>> \in stored /\ published' = published \cup {<<a, s>>}
    BY <1>3, ReceivedFacts DEF Asr!Publish, Asr!IngestKey, AsrInv, CallInv, AttemptsOK, CurrentOK, ResultsOK
  <2> QED BY <1>3, <2>1, OneResult DEF Asr!Publish, Outcomes
<1> QED BY <1>1, <1>2, <1>3

LEMMA FinalKeeps == ASSUME AsrNumbers, AsrInv, NEW a \in Attempts, Asr!Final(a) PROVE AsrInv'
<1>1. PICK last \in SUBSET {s \in Sentences : att[a].results[s] = "none" /\ att[a].terminal >= 0} :
        att' = [att EXCEPT ![a].final = TRUE,
                           ![a].results = [s \in Sentences |-> IF s \in last THEN Asr!Received(a) ELSE att[a].results[s]]]
  BY DEF Asr!Final
<1>2. Asr!Current(a) /\ UNCHANGED <<ses, map, rtm, runtime, streams, recorded, stored, published, drain>>
  BY DEF Asr!Final
<1> DEFINE t == [s \in Sentences |-> IF s \in last THEN Asr!Received(a) ELSE att[a].results[s]]
           r == [att[a] EXCEPT !.final = TRUE, !.results = t]
<1>3. att' = [att EXCEPT ![a] = r]
  BY <1>1
<1>4. t = [s \in Sentences |-> IF s \in last THEN "ingesting" ELSE att[a].results[s]]
  BY <1>2, ReceivedFacts
<1>5. att[a] \in Connections
  BY OfAttempt DEF AsrInv
<1>6. t \in [Sentences -> Outcomes]
  BY <1>4, <1>5 DEF Connections, Outcomes
<1> HIDE DEF t
<1>7. r \in Connections /\ SameFrames(r, att[a]) /\ r.results = t
  BY <1>5, <1>6 DEF Connections, SameFrames
<1> HIDE DEF r
<1>8. ResultsOK(a)'
  <2>1. ResultsOK(a)
    BY <1>2 DEF AsrInv, CallInv, AttemptsOK, CurrentOK
  <2>2. att'[a].results = t
    BY <1>3, <1>7 DEF AsrInv, CallInv, AsrTypeOK
  <2> QED BY <1>2, <1>4, <2>1, <2>2 DEF ResultsOK
<1> QED BY <1>2, <1>3, <1>7, <1>8, SessionsStay, ResultStep DEF AsrInv

----------------------------------------------------------------------------
(* Frames on their way out.                                                *)
LEMMA FrameStep ==
  ASSUME AsrNumbers, AsrInv, NEW a \in Attempts, NEW r \in Connections, att' = [att EXCEPT ![a] = r],
         UNCHANGED <<ses, map, runtime, rtm, streams, recorded, stored, published, drain>>,
         r.of = att[a].of, r.stream = att[a].stream, r.ending = att[a].ending, r.failed = att[a].failed,
         r.took = att[a].took, r.results = att[a].results, r.terminal >= att[a].terminal, FramesOK(r, recorded),
         Asr!Current(a) => \A n \in Nat \ 0 .. r.terminal : Held(att[a], n) => Held(r, n)
  PROVE  AsrInv'
<1>1. att'[a] = r /\ \A b \in Attempts \ {a} : att'[b] = att[b]
  BY DEF AsrInv, CallInv, AsrTypeOK
<1>2. Asr!Current(a) => ResultsOK(a)'
  <2>1. Asr!Current(a) => ResultsOK(a)
    BY DEF AsrInv, CallInv, AttemptsOK, CurrentOK
  <2> QED BY <1>1, <2>1 DEF ResultsOK
<1>3. CallInv'
  BY <1>2, SessionsStay, OneAttempt DEF AsrInv
<1>4. DrainedOK'
  BY <1>1, SessionsStay, DrainedKeeps DEF AsrInv
<1> QED BY <1>3, <1>4 DEF AsrInv

LEMMA SplitFacts ==
  ASSUME NEW q \in Seq(Int), NEW n \in 1 .. Len(q)
  PROVE  LET p == SubSeq(q, 1, n)
             t == SubSeq(q, n + 1, Len(q))
         IN  /\ p \in Seq(Int) /\ Len(p) = n /\ \A i \in 1 .. n : p[i] = q[i]
             /\ t \in Seq(Int) /\ Len(t) = Len(q) - n /\ \A i \in 1 .. Len(q) - n : t[i] = q[n + i]
<1>1. Len(q) \in Nat /\ n \in Nat /\ 1 <= n /\ n <= Len(q) /\ \A i \in 1 .. Len(q) : q[i] \in Int
  OBVIOUS
<1> DEFINE p == SubSeq(q, 1, n)
           t == SubSeq(q, n + 1, Len(q))
<1>2. p \in Seq(Int) /\ Len(p) = n /\ \A i \in 1 .. n : p[i] = q[i]
  <2>1. \A i \in 1 .. n : q[i] \in Int
    BY <1>1
  <2>2. /\ p \in Seq(Int) /\ Len(p) = IF 1 <= n THEN n - 1 + 1 ELSE 0
        /\ \A i \in 1 .. n - 1 + 1 : p[i] = q[1 + i - 1]
    BY <1>1, <2>1, SubSeqProperties
  <2> HIDE DEF p
  <2> QED BY <1>1, <2>2
<1>3. t \in Seq(Int) /\ Len(t) = Len(q) - n /\ \A i \in 1 .. Len(q) - n : t[i] = q[n + i]
  <2>1. n + 1 \in Int /\ \A i \in n + 1 .. Len(q) : q[i] \in Int
    BY <1>1
  <2>2. /\ t \in Seq(Int) /\ Len(t) = IF n + 1 <= Len(q) THEN Len(q) - (n + 1) + 1 ELSE 0
        /\ \A i \in 1 .. Len(q) - (n + 1) + 1 : t[i] = q[(n + 1) + i - 1]
    BY <1>1, <2>1, SubSeqProperties
  <2> HIDE DEF t
  <2> QED BY <1>1, <2>2
<1> QED BY <1>2, <1>3

(* A queue and what is taken off its front.                                *)
LEMMA SplitSorted ==
  ASSUME NEW q \in Seq(Int), NEW n \in 1 .. Len(q), NEW lo \in Int, NEW hi \in Int, Sorted(q),
         \A i \in 1 .. Len(q) : lo <= q[i] /\ q[i] <= hi
  PROVE  LET p == SubSeq(q, 1, n)
             t == SubSeq(q, n + 1, Len(q))
         IN  /\ Sorted(p) /\ \A i \in 1 .. Len(p) : lo <= p[i] /\ p[i] <= hi
             /\ Sorted(t) /\ \A i \in 1 .. Len(t) : lo <= t[i] /\ t[i] <= hi
             /\ \A i \in 1 .. Len(p), j \in 1 .. Len(t) : p[i] <= t[j]
             /\ \A i \in 1 .. Len(q) : (\E j \in 1 .. Len(p) : p[j] = q[i]) \/ (\E j \in 1 .. Len(t) : t[j] = q[i])
<1> DEFINE p == SubSeq(q, 1, n)
           t == SubSeq(q, n + 1, Len(q))
           m == Len(q)
<1>1. m \in Nat /\ n \in 1 .. m /\ n \in Nat
  OBVIOUS
<1>2. /\ Len(p) = n /\ \A i \in 1 .. n : p[i] = q[i]
      /\ Len(t) = m - n /\ \A i \in 1 .. m - n : t[i] = q[n + i]
  BY SplitFacts
<1>3. \A i, j \in 1 .. m : i <= j => q[i] <= q[j]
  BY DEF Sorted
<1>4. \A i \in 1 .. m : lo <= q[i] /\ q[i] <= hi
  OBVIOUS
<1> HIDE DEF p, t, m
<1>5. \A i \in 1 .. Len(p) : i \in 1 .. m /\ p[i] = q[i]
  BY <1>1, <1>2
<1>6. \A i \in 1 .. Len(t) : n + i \in 1 .. m /\ t[i] = q[n + i]
  BY <1>1, <1>2
<1>7. Sorted(p)
  BY <1>3, <1>5 DEF Sorted
<1>8. Sorted(t)
  <2> SUFFICES ASSUME NEW i \in 1 .. Len(t), NEW j \in 1 .. Len(t), i <= j PROVE t[i] <= t[j]
    BY DEF Sorted
  <2>1. n + i <= n + j
    BY <1>1, <1>2
  <2> QED BY <1>3, <1>6, <2>1
<1>9. \A i \in 1 .. Len(p), j \in 1 .. Len(t) : p[i] <= t[j]
  <2> TAKE i \in 1 .. Len(p), j \in 1 .. Len(t)
  <2>1. i <= n + j
    BY <1>1, <1>2
  <2> QED BY <1>3, <1>5, <1>6, <2>1
<1>10. \A i \in 1 .. m : (\E j \in 1 .. Len(p) : p[j] = q[i]) \/ (\E j \in 1 .. Len(t) : t[j] = q[i])
  <2> TAKE i \in 1 .. m
  <2>1. CASE i <= n
    BY <1>1, <1>2, <2>1
  <2>2. CASE ~(i <= n)
    <3>1. i - n \in 1 .. m - n /\ n + (i - n) = i
      BY <1>1, <2>2
    <3>2. t[i - n] = q[i]
      BY <1>2, <3>1
    <3> QED BY <1>2, <3>1, <3>2
  <2> QED BY <2>1, <2>2
<1> QED BY <1>4, <1>5, <1>6, <1>7, <1>8, <1>9, <1>10 DEF p, t, m

LEMMA SendKeeps == ASSUME AsrNumbers, AsrInv, NEW a \in Attempts, Asr!Send(a) PROVE AsrInv'
<1> DEFINE q == att[a].queue
           n == IF att[a].ending /\ Len(q) = 1 THEN 1 ELSE 2
           p == SubSeq(q, 1, n)
           t == SubSeq(q, n + 1, Len(q))
           r == [att[a] EXCEPT !.sending = p, !.queue = t]
<1>1. /\ att[a].sending = <<>> /\ Len(q) >= n /\ att' = [att EXCEPT ![a] = r]
      /\ UNCHANGED <<ses, map, rtm, runtime, streams, recorded, stored, published, drain>>
  BY DEF Asr!Send
<1>2. att[a] \in Connections /\ FramesOK(att[a], recorded)
  BY OfAttempt DEF AsrInv
<1>3. q \in Seq(Int) /\ Len(q) \in Nat /\ n \in 1 .. Len(q) /\ att[a].terminal \in Int
  BY <1>1, <1>2 DEF Connections
<1> HIDE DEF n
<1>4. /\ p \in Seq(Int) /\ Len(p) = n /\ \A i \in 1 .. n : p[i] = q[i]
      /\ t \in Seq(Int) /\ Len(t) = Len(q) - n /\ \A i \in 1 .. Len(q) - n : t[i] = q[n + i]
  BY <1>3, SplitFacts
<1> HIDE DEF p, t
<1>5. /\ r \in Connections /\ r.of = att[a].of /\ r.stream = att[a].stream /\ r.ending = att[a].ending
      /\ r.failed = att[a].failed /\ r.took = att[a].took /\ r.results = att[a].results /\ r.terminal = att[a].terminal
      /\ r.accepted = att[a].accepted /\ r.sending = p /\ r.queue = t
  BY <1>2, <1>4 DEF Connections
<1> HIDE DEF r
<1>6. /\ Sorted(p) /\ \A i \in 1 .. Len(p) : att[a].terminal <= p[i] /\ p[i] <= att[a].accepted
      /\ Sorted(t) /\ \A i \in 1 .. Len(t) : att[a].terminal <= t[i] /\ t[i] <= att[a].accepted
      /\ \A i \in 1 .. Len(p), j \in 1 .. Len(t) : p[i] <= t[j]
      /\ \A i \in 1 .. Len(q) : (\E j \in 1 .. Len(p) : p[j] = q[i]) \/ (\E j \in 1 .. Len(t) : t[j] = q[i])
  <2>1. Sorted(q) /\ \A i \in 1 .. Len(q) : att[a].terminal <= q[i] /\ q[i] <= att[a].accepted
    BY <1>2 DEF FramesOK
  <2>2. att[a].accepted \in Int
    BY <1>2 DEF Connections
  <2> DEFINE lo == att[a].terminal
             hi == att[a].accepted
  <2>3. /\ q \in Seq(Int) /\ n \in 1 .. Len(q) /\ lo \in Int /\ hi \in Int /\ Sorted(q)
        /\ \A i \in 1 .. Len(q) : lo <= q[i] /\ q[i] <= hi
    BY <1>3, <2>1, <2>2
  <2> HIDE DEF q, lo, hi
  <2>4. /\ Sorted(p) /\ \A i \in 1 .. Len(p) : lo <= p[i] /\ p[i] <= hi
        /\ Sorted(t) /\ \A i \in 1 .. Len(t) : lo <= t[i] /\ t[i] <= hi
        /\ \A i \in 1 .. Len(p), j \in 1 .. Len(t) : p[i] <= t[j]
        /\ \A i \in 1 .. Len(q) : (\E j \in 1 .. Len(p) : p[j] = q[i]) \/ (\E j \in 1 .. Len(t) : t[j] = q[i])
    BY <2>3, SplitSorted, Zenon DEF p, t
  <2> QED BY <2>4 DEF lo, hi
<1>7. FramesOK(r, recorded)
  BY <1>2, <1>5, <1>6 DEF FramesOK
<1>8. \A x : Held(att[a], x) => Held(r, x)
  <2> SUFFICES ASSUME NEW x, Held(att[a], x) PROVE Held(r, x)
    OBVIOUS
  <2>1. PICK i \in 1 .. Len(q) : q[i] = x
    BY <1>1 DEF Held, Asr!Contains
  <2> QED BY <1>5, <1>6, <2>1 DEF Held, Asr!Contains
<1>9. r.terminal >= att[a].terminal
  BY <1>3, <1>5
<1> QED BY <1>1, <1>5, <1>7, <1>8, <1>9, FrameStep

LEMMA SendDoneKeeps == ASSUME AsrNumbers, AsrInv, NEW a \in Attempts, Asr!SendDone(a) PROVE AsrInv'
<1> DEFINE p == att[a].sending
           k == Len(p)
           r == [att[a] EXCEPT !.terminal = p[k], !.sending = <<>>, !.released = FALSE]
<1>1. /\ p # <<>> /\ att' = [att EXCEPT ![a] = r]
      /\ UNCHANGED <<ses, map, rtm, runtime, streams, recorded, stored, published, drain>>
  BY DEF Asr!SendDone, Asr!Last
<1>2. att[a] \in Connections /\ FramesOK(att[a], recorded)
  BY OfAttempt DEF AsrInv
<1>3. p \in Seq(Int) /\ k \in Nat /\ k \in 1 .. Len(p) /\ p[k] \in Int
  <2>1. p \in Seq(Int)
    BY <1>2 DEF Connections
  <2> QED BY <1>1, <2>1
<1>4. /\ r \in Connections /\ r.of = att[a].of /\ r.stream = att[a].stream /\ r.ending = att[a].ending
      /\ r.failed = att[a].failed /\ r.took = att[a].took /\ r.results = att[a].results /\ r.terminal = p[k]
      /\ r.accepted = att[a].accepted /\ r.sending = <<>> /\ r.queue = att[a].queue
  <2> DEFINE last == p[k]
             empty == <<>>
             y == [att[a] EXCEPT !.terminal = last, !.sending = empty]
  <2>1. last \in Int /\ empty \in Seq(Int)
    BY <1>3
  <2> HIDE DEF last, empty
  <2>2. y \in Connections /\ y.of = att[a].of /\ y.stream = att[a].stream /\ y.ending = att[a].ending
      /\ y.failed = att[a].failed /\ y.took = att[a].took /\ y.results = att[a].results /\ y.terminal = last
      /\ y.accepted = att[a].accepted /\ y.sending = empty /\ y.queue = att[a].queue
    BY <1>2, <2>1 DEF Connections
  <2>3. r = [y EXCEPT !.released = FALSE]
    BY DEF last, empty
  <2> HIDE DEF y, r
  <2>4. r \in Connections /\ SameFrames(r, y) /\ r.results = y.results
    BY <2>2, <2>3 DEF Connections, SameFrames
  <2> QED BY <2>2, <2>4 DEF SameFrames, last, empty
<1> HIDE DEF r
<1>5. /\ \A i \in 1 .. Len(p) : p[i] <= p[k] /\ att[a].terminal <= p[i] /\ p[i] <= att[a].accepted
      /\ \A j \in 1 .. Len(att[a].queue) : p[k] <= att[a].queue[j]
  <2>1. /\ Sorted(p) /\ \A i \in 1 .. Len(p) : att[a].terminal <= p[i] /\ p[i] <= att[a].accepted
        /\ \A i \in 1 .. Len(p), j \in 1 .. Len(att[a].queue) : p[i] <= att[a].queue[j]
    BY <1>2 DEF FramesOK
  <2> HIDE DEF p
  <2> QED BY <1>3, <2>1 DEF Sorted
<1>6. att[a].terminal \in Int /\ r.terminal >= att[a].terminal /\ att[a].terminal >= -1
  BY <1>2, <1>3, <1>4, <1>5 DEF Connections, FramesOK
<1>7. FramesOK(r, recorded)
  <2>1. Len(r.sending) = 0
    BY <1>4
  <2> QED BY <1>2, <1>3, <1>4, <1>5, <1>6, <2>1 DEF FramesOK, Sorted
<1>8. \A x \in Nat \ 0 .. r.terminal : Held(att[a], x) => Held(r, x)
  <2> SUFFICES ASSUME NEW x \in Nat, x \notin 0 .. r.terminal, Held(att[a], x) PROVE Held(r, x)
    OBVIOUS
  <2>1. ~Asr!Contains(p, x)
    <3>1. r.terminal \in Int /\ x > r.terminal
      BY <1>3, <1>4
    <3> QED BY <1>3, <1>4, <1>5, <3>1 DEF Asr!Contains
  <2> QED BY <1>4, <2>1 DEF Held
<1> QED BY <1>1, <1>4, <1>6, <1>7, <1>8, FrameStep

----------------------------------------------------------------------------
(* Attempts that end.                                                      *)
LEMMA UnsentFacts ==
  ASSUME CallInv, NEW a \in Attempts
  PROVE  /\ Asr!Unsent(a) \subseteq Int
         /\ \A n \in att[a].took \ 0 .. att[a].terminal : n \in Asr!Unsent(a) /\ (att[a].of # 0 /\ ~Asr!Current(a) => Noted(n))
<1>1. att[a] \in Connections /\ FramesOK(att[a], recorded) /\ AccountedFor(a)
  BY OfAttempt
<1>2. att[a].terminal \in Int /\ att[a].accepted \in Int
  BY <1>1 DEF Connections
<1>3. Asr!Unsent(a) = att[a].terminal + 1 .. att[a].accepted
  BY DEF Asr!Unsent
<1>4. \A n \in att[a].took \ 0 .. att[a].terminal : n \in Asr!Unsent(a)
  BY <1>1, <1>2, <1>3 DEF FramesOK
<1> QED BY <1>1, <1>2, <1>3, <1>4 DEF AccountedFor

LEMMA AttemptEnds ==
  ASSUME AsrNumbers, CallInv, SessionsKeep, WorldKeeps, NEW a \in Attempts, NEW r \in Connections,
         att' = [att EXCEPT ![a] = r], r.of = att[a].of, r.stream = att[a].stream, r.ending = att[a].ending,
         att[a].failed => r.failed, r.took = att[a].took, r.terminal = att[a].terminal, FramesOK(r, recorded'),
         ~Asr!Current(a)', Asr!Current(a) => Asr!Unsent(a) \subseteq ses'[map].gaps,
         \A b \in Attempts \ {a} : Asr!Current(b) => Asr!Current(b)' \/ att[b].took = {},
         \A b \in Attempts : Asr!Current(b)' => ses'[map].retry = ses[map].retry /\ rtm'[map] = rtm[map]
  PROVE  CallInv'
<1>1. att' \in [Attempts -> Connections] /\ att'[a] = r /\ \A b \in Attempts \ {a} : att'[b] = att[b]
  BY DEF CallInv, AsrTypeOK
<1>2. AccountedFor(a)'
  <2> SUFFICES ASSUME att[a].of # 0, NEW n \in att[a].took \ 0 .. att[a].terminal PROVE Noted(n)'
    BY <1>1 DEF AccountedFor
  <2>1. CASE Asr!Current(a)
    BY <2>1, UnsentFacts, CurrentFacts DEF Noted, SessionsKeep, AsrNumbers
  <2>2. CASE ~Asr!Current(a)
    <3>1. Noted(n)
      BY <2>2, UnsentFacts
    <3> QED BY <3>1 DEF Noted, SessionsKeep, CallInv, AsrTypeOK
  <2> QED BY <2>1, <2>2
<1>3. ChangeOK(a)
  BY <1>1, <1>2 DEF ChangeOK
<1> DEFINE C == {a}
<1>4. /\ C \in SUBSET Attempts /\ \A b \in C : ChangeOK(b)
      /\ \A b \in Attempts \ C : att'[b] = att[b]
      /\ \A b \in Attempts \ C : Asr!Current(b) => Asr!Current(b)' \/ att[b].took = {}
  BY <1>1, <1>3
<1> HIDE DEF C
<1> QED BY <1>1, <1>4, CallStepKeeps

(* The end of the current attempt ends what is current.                    *)
LEMMA CurrentEnds ==
  ASSUME AsrNumbers, CallInv, SessionsKeep, WorldKeeps, NEW a \in Attempts, NEW r \in Connections,
         att' = [att EXCEPT ![a] = r], r.of = att[a].of, r.stream = att[a].stream, r.ending = att[a].ending,
         att[a].failed => r.failed, r.took = att[a].took, r.terminal = att[a].terminal, FramesOK(r, recorded'),
         Asr!Current(a), r.failed \/ ses'[map].closed, Asr!Unsent(a) \subseteq ses'[map].gaps
  PROVE  CallInv'
<1>1. att'[a] = r /\ \A b \in Attempts \ {a} : att'[b] = att[b]
  BY DEF CallInv, AsrTypeOK
<1>2. ~Asr!Current(a)'
  <2>1. att[a].of = map
    BY CurrentFacts
  <2> QED BY <1>1, <2>1 DEF Asr!Current, Asr!Session
<1>3. \A b \in Attempts : ~Asr!Current(b)'
  <2> TAKE b \in Attempts
  <2>1. CASE b = a
    BY <1>2, <2>1
  <2>2. CASE b # a
    <3>1. ~Asr!Current(b)
      BY <2>2, OneCurrent
    <3>2. Asr!Current(b)' => Asr!Current(b)
      BY <1>1, <2>2, StillCurrent
    <3> QED BY <3>1, <3>2
  <2> QED BY <2>1, <2>2
<1>4. \A b \in Attempts \ {a} : Asr!Current(b) => Asr!Current(b)' \/ att[b].took = {}
  BY OneCurrent
<1> QED BY <1>2, <1>3, <1>4, AttemptEnds

LEMMA FailedKeeps ==
  ASSUME AsrNumbers, AsrInv, NEW a \in Attempts, NEW retryable, NEW r \in Connections,
         Asr!Failed(a, [att EXCEPT ![a] = r], retryable),
         UNCHANGED <<map, rtm, runtime, streams, recorded, stored, published, drain>>,
         r.of = att[a].of, r.stream = att[a].stream, r.ending = att[a].ending, r.failed = att[a].failed,
         r.took = att[a].took, r.terminal = att[a].terminal, FramesOK(r, recorded),
         r.results = att[a].results \/ \E s \in Sentences : att[a].results[s] \in {"ingesting", "stored"}
  PROVE  AsrInv'
<1>1. WorldKeeps
  BY DEF WorldKeeps, AsrInv, CallInv, AsrTypeOK
<1>2. att \in [Attempts -> Connections] /\ ses \in [Opens -> Adapters] /\ CallInv
  BY DEF AsrInv, CallInv, AsrTypeOK
<1>3. CASE ~Asr!Current(a)
  <2>1. att' = [att EXCEPT ![a] = r] /\ ses' = ses
    BY <1>3 DEF Asr!Failed
  <2>2. att'[a] = r /\ \A b \in Attempts \ {a} : att'[b] = att[b]
    BY <1>2, <2>1
  <2>3. SessionsKeep
    BY <1>2, <2>1, SessionsStay
  <2>4. ~Asr!Current(a)'
    BY <1>2, <1>3, <2>2, <2>3, StillCurrent
  <2>5. \A b \in Attempts \ {a} : Asr!Current(b) => Asr!Current(b)'
    BY <2>1, <2>2 DEF Asr!Current, Asr!Made, Asr!Session
  <2>6. CallInv'
    BY <1>1, <1>2, <1>3, <2>1, <2>3, <2>4, <2>5, AttemptEnds
  <2>7. DrainedOK'
    BY <2>2, <2>3, DrainedKeeps
  <2> QED BY <2>6, <2>7 DEF AsrInv
<1>4. CASE Asr!Current(a)
  <2> DEFINE q == [r EXCEPT !.failed = TRUE, !.released = TRUE]
             again == retryable /\ Asr!MayRetry(ses[map])
             y == [ses[map] EXCEPT !.gaps = ses[map].gaps \cup Asr!Unsent(a),
                                   !.tries = IF again THEN ses[map].tries + 1 ELSE ses[map].tries,
                                   !.retry = IF again THEN "rotating" ELSE ses[map].retry]
  <2>1. map \in Opens /\ att[a].of = map
    BY <1>2, <1>4, CurrentFacts
  <2>2. ses' = [ses EXCEPT ![map] = y]
    BY <1>4, <2>1 DEF Asr!Failed, Asr!AfterFailure, Asr!Session
  <2>3. att' = [att EXCEPT ![a] = q]
    BY <1>2, <1>4 DEF Asr!Failed
  <2>4. /\ y \in Adapters /\ y.active = ses[map].active /\ y.closed = ses[map].closed
        /\ y.gaps = ses[map].gaps \cup Asr!Unsent(a)
    <3> DEFINE G == ses[map].gaps \cup Asr!Unsent(a)
               k == IF again THEN ses[map].tries + 1 ELSE ses[map].tries
               w == IF again THEN "rotating" ELSE ses[map].retry
               x == [ses[map] EXCEPT !.gaps = G]
    <3>1. ses[map] \in Adapters
      BY <1>2, <2>1
    <3>2. G \in SUBSET Int /\ k \in Int /\ w \in {"none", "rotating", "backoff"}
      BY <1>2, <3>1, UnsentFacts DEF Adapters
    <3> HIDE DEF G, k, w
    <3>3. x \in Adapters /\ x.gaps = G /\ x.active = ses[map].active /\ x.closed = ses[map].closed
      BY <3>1, <3>2, GapsField
    <3>4. y = [x EXCEPT !.tries = k, !.retry = w]
      BY DEF G, k, w
    <3> HIDE DEF x, y
    <3>5. y \in Adapters /\ y.gaps = x.gaps /\ y.active = x.active /\ y.closed = x.closed
      BY <3>2, <3>3, <3>4 DEF Adapters
    <3> QED BY <3>3, <3>5 DEF G
  <2> HIDE DEF y
  <2>5. /\ q \in Connections /\ q.of = r.of /\ q.stream = r.stream /\ q.ending = r.ending /\ q.failed
        /\ q.took = r.took /\ q.terminal = r.terminal /\ q.results = r.results /\ q.accepted = r.accepted
        /\ q.queue = r.queue /\ q.sending = r.sending
    BY DEF Connections
  <2> HIDE DEF q
  <2>6. FramesOK(q, recorded')
    BY <2>5 DEF FramesOK
  <2>7. SessionsKeep
    <3>1. \A o \in Opens : ses'[o] = IF o = map THEN y ELSE ses[o]
      BY <1>2, <2>1, <2>2
    <3>2. ses' \in [Opens -> Adapters]
      BY <1>2, <2>2, <2>4
    <3> QED BY <2>4, <3>1, <3>2 DEF SessionsKeep
  <2>8. Asr!Unsent(a) \subseteq ses'[map].gaps
    BY <1>2, <2>1, <2>2, <2>4
  <2>9. CallInv'
    BY <1>1, <1>2, <1>4, <2>3, <2>5, <2>6, <2>7, <2>8, CurrentEnds
  <2>10. \A b \in Attempts \ {a} : att'[b] = att[b]
    BY <1>2, <2>3
  <2>11. DrainedOK'
    BY <1>4, <2>7, <2>10, DrainedKeeps
  <2> QED BY <2>9, <2>11 DEF AsrInv
<1> QED BY <1>3, <1>4

LEMMA ConnectionFailsKeeps ==
  ASSUME AsrNumbers, AsrInv, NEW a \in Attempts, Asr!ConnectionFails(a) PROVE AsrInv'
<1>1. /\ UNCHANGED <<map, rtm, runtime, streams, recorded, stored, published, drain>>
      /\ \E x : Asr!Failed(a, att, x)
  BY DEF Asr!ConnectionFails
<1>2. PICK x : Asr!Failed(a, att, x)
  BY <1>1
<1>3. att = [att EXCEPT ![a] = att[a]] /\ att[a] \in Connections /\ FramesOK(att[a], recorded)
  BY OfAttempt DEF AsrInv, CallInv, AsrTypeOK
<1>4. Asr!Failed(a, [att EXCEPT ![a] = att[a]], x)
  BY <1>2, <1>3
<1> QED BY <1>1, <1>3, <1>4, FailedKeeps

LEMMA SendFailsKeeps ==
  ASSUME AsrNumbers, AsrInv, NEW a \in Attempts, Asr!SendFails(a) PROVE AsrInv'
<1> DEFINE r == [att[a] EXCEPT !.sending = <<>>]
<1>1. /\ UNCHANGED <<map, rtm, runtime, streams, recorded, stored, published, drain>>
      /\ Asr!Failed(a, [att EXCEPT ![a] = r], TRUE)
  BY DEF Asr!SendFails
<1>2. att[a] \in Connections /\ FramesOK(att[a], recorded)
  BY OfAttempt DEF AsrInv
<1>3. /\ r \in Connections /\ r.of = att[a].of /\ r.stream = att[a].stream /\ r.ending = att[a].ending
      /\ r.failed = att[a].failed /\ r.took = att[a].took /\ r.results = att[a].results /\ r.terminal = att[a].terminal
      /\ r.accepted = att[a].accepted /\ r.sending = <<>> /\ r.queue = att[a].queue
  <2> DEFINE empty == <<>>
             y == [att[a] EXCEPT !.sending = empty]
  <2>1. empty \in Seq(Int)
    OBVIOUS
  <2> HIDE DEF empty
  <2>2. /\ y \in Connections /\ y.of = att[a].of /\ y.stream = att[a].stream /\ y.ending = att[a].ending
        /\ y.failed = att[a].failed /\ y.took = att[a].took /\ y.results = att[a].results /\ y.terminal = att[a].terminal
        /\ y.accepted = att[a].accepted /\ y.sending = empty /\ y.queue = att[a].queue
    BY <1>2, <2>1 DEF Connections
  <2> QED BY <2>2 DEF empty
<1> HIDE DEF r
<1>4. FramesOK(r, recorded)
  <2>1. Len(r.sending) = 0
    BY <1>3
  <2> QED BY <1>2, <1>3, <2>1 DEF FramesOK, Sorted
<1> QED BY <1>1, <1>3, <1>4, FailedKeeps

LEMMA IngestFailsKeeps ==
  ASSUME AsrNumbers, AsrInv, NEW a \in Attempts, NEW s \in Sentences, Asr!IngestFails(a, s) PROVE AsrInv'
<1> DEFINE t == [att[a].results EXCEPT ![s] = "refused"]
           r == [att[a] EXCEPT !.results = t]
<1>1. /\ UNCHANGED <<map, rtm, runtime, streams, recorded, stored, published, drain>>
      /\ Asr!Failed(a, [att EXCEPT ![a] = r], TRUE) /\ att[a].results[s] = "ingesting"
  BY DEF Asr!IngestFails
<1>2. att[a] \in Connections /\ FramesOK(att[a], recorded)
  BY OfAttempt DEF AsrInv
<1>3. t \in [Sentences -> Outcomes]
  BY <1>2 DEF Connections, Outcomes
<1> HIDE DEF t
<1>4. r \in Connections /\ SameFrames(r, att[a]) /\ r.results = t
  BY <1>2, <1>3, ResultsField
<1> HIDE DEF r
<1>5. FramesOK(r, recorded)
  BY <1>2, <1>4 DEF FramesOK, SameFrames
<1> QED BY <1>1, <1>4, <1>5, FailedKeeps DEF SameFrames

----------------------------------------------------------------------------
(* Steps that leave the attempts alone.                                    *)
LEMMA QuietStep ==
  ASSUME AsrNumbers, CallInv, SessionsKeep, WorldKeeps, att' = att,
         \A b \in Attempts : Asr!Current(b) => Asr!Current(b)' \/ att[b].took = {},
         \A b \in Attempts : Asr!Current(b)' => ses'[map].retry = ses[map].retry /\ rtm'[map] = rtm[map]
  PROVE  CallInv'
<1> DEFINE C == {}
<1>1. att' \in [Attempts -> Connections]
  BY DEF CallInv, AsrTypeOK
<1>2. /\ C \in SUBSET Attempts /\ \A b \in C : ChangeOK(b)
      /\ \A b \in Attempts \ C : att'[b] = att[b]
      /\ \A b \in Attempts \ C : Asr!Current(b) => Asr!Current(b)' \/ att[b].took = {}
  OBVIOUS
<1> HIDE DEF C
<1> QED BY <1>1, <1>2, CallStepKeeps

LEMMA CurrentStays ==
  ASSUME AsrNumbers, CallInv, NEW b \in Attempts, att'[b].of = att[b].of, att'[b].failed = att[b].failed,
         \A o \in Opens : ses'[o].closed = ses[o].closed /\ ses'[o].active = ses[o].active
  PROVE  Asr!Current(b)' <=> Asr!Current(b)
<1>1. att[b].of \in {0} \cup Opens
  BY DEF CallInv, AsrTypeOK, Connections
<1> QED BY <1>1 DEF Asr!Current, Asr!Made, Asr!Session, Asr!None

LEMMA MarkedFacts ==
  ASSUME AsrNumbers, CallInv, NEW o \in {0} \cup Opens, NEW G \in SUBSET Int, UNCHANGED <<map, runtime>>,
         ses' = Asr!Marked(o, G)
  PROVE  /\ SessionsKeep
         /\ \A x \in Opens : ses'[x].closed = ses[x].closed /\ ses'[x].active = ses[x].active /\ ses'[x].retry = ses[x].retry
         /\ o # 0 => G \subseteq ses'[o].gaps
<1>1. ses \in [Opens -> Adapters]
  BY DEF CallInv, AsrTypeOK
<1>2. CASE o = 0
  <2>1. ses' = ses
    BY <1>2 DEF Asr!Marked, Asr!None
  <2> QED BY <1>2, <2>1, SessionsStay
<1>3. CASE o # 0
  <2> DEFINE H == ses[o].gaps \cup G
             y == [ses[o] EXCEPT !.gaps = H]
  <2>1. o \in Opens /\ ses' = [ses EXCEPT ![o] = y]
    BY <1>3 DEF Asr!Marked, Asr!None
  <2>2. ses[o] \in Adapters /\ H \in SUBSET Int
    BY <1>1, <2>1 DEF Adapters
  <2> HIDE DEF H
  <2>3. y \in Adapters /\ y.gaps = H /\ y.active = ses[o].active /\ y.closed = ses[o].closed /\ y.retry = ses[o].retry
    BY <2>2, GapsField
  <2> HIDE DEF y
  <2>4. ses' \in [Opens -> Adapters] /\ \A x \in Opens : ses'[x] = IF x = o THEN y ELSE ses[x]
    BY <1>1, <2>1, <2>3
  <2> QED BY <2>1, <2>3, <2>4 DEF SessionsKeep, H
<1> QED BY <1>2, <1>3

LEMMA RefuseKeeps == ASSUME AsrNumbers, AsrInv, Asr!Refuse \/ Asr!Revoke PROVE AsrInv'
<1>1. /\ UNCHANGED <<att, map, rtm, runtime, streams, recorded, stored, published, drain>>
      /\ ses' = Asr!Marked(map, {recorded}) \/ ses' = ses
  BY DEF Asr!Refuse, Asr!Revoke, Asr!None
<1>2. /\ SessionsKeep
      /\ \A x \in Opens : ses'[x].closed = ses[x].closed /\ ses'[x].active = ses[x].active /\ ses'[x].retry = ses[x].retry
  <2>1. map \in {0} \cup Opens /\ {recorded} \in SUBSET Int
    BY DEF AsrInv, CallInv, AsrTypeOK
  <2>2. CASE ses' = ses
    BY <1>1, <2>2, SessionsStay DEF AsrInv
  <2>3. CASE ses' = Asr!Marked(map, {recorded})
    BY <1>1, <2>1, <2>3, MarkedFacts DEF AsrInv
  <2> QED BY <1>1, <2>2, <2>3
<1>3. \A b \in Attempts : Asr!Current(b)' <=> Asr!Current(b)
  BY <1>1, <1>2, CurrentStays DEF AsrInv
<1>4. WorldKeeps
  BY <1>1 DEF WorldKeeps, AsrInv, CallInv, AsrTypeOK
<1>5. CallInv'
  <2>1. \A b \in Attempts : Asr!Current(b)' => ses'[map].retry = ses[map].retry /\ rtm'[map] = rtm[map]
    BY <1>1, <1>2, <1>3, CurrentFacts DEF AsrInv
  <2> QED BY <1>1, <1>2, <1>3, <1>4, <2>1, QuietStep DEF AsrInv
<1>6. DrainedOK'
  BY <1>1, <1>2, DrainedKeeps
<1> QED BY <1>5, <1>6 DEF AsrInv

(* What a frame does to the attempt that takes it.                         *)
LEMMA TakenFacts ==
  ASSUME NEW r \in Connections, NEW n \in Nat, NEW k \in Nat, n <= k, FramesOK(r, n), NEW q \in Connections,
         q.accepted = n, q.took = r.took \cup {n}, q.terminal = r.terminal, q.sending = r.sending,
         q.queue = r.queue \/ q.queue = Append(r.queue, n)
  PROVE  FramesOK(q, k) /\ \A x : Held(r, x) => Held(q, x)
<1>1. /\ r.queue \in Seq(Int) /\ r.sending \in Seq(Int) /\ r.terminal \in Int /\ r.accepted \in Int
  BY DEF Connections
<1>2. r.accepted <= n /\ r.terminal <= n /\ r.terminal >= -1 /\ r.took \subseteq 0 .. r.accepted
  BY <1>1 DEF FramesOK
<1>3. q.took \subseteq 0 .. n
  BY <1>1, <1>2
<1> DEFINE u == r.queue
           p == r.sending
<1>4. /\ Sorted(u) /\ Sorted(p) /\ \A i \in 1 .. Len(p), j \in 1 .. Len(u) : p[i] <= u[j]
      /\ \A i \in 1 .. Len(p) : r.terminal <= p[i] /\ p[i] <= n
      /\ \A i \in 1 .. Len(u) : r.terminal <= u[i] /\ u[i] <= n
  <2>1. /\ Sorted(u) /\ Sorted(p) /\ \A i \in 1 .. Len(p), j \in 1 .. Len(u) : p[i] <= u[j]
        /\ \A i \in 1 .. Len(p) : r.terminal <= p[i] /\ p[i] <= r.accepted
        /\ \A i \in 1 .. Len(u) : r.terminal <= u[i] /\ u[i] <= r.accepted
    BY DEF FramesOK
  <2>2. \A x \in Int : x <= r.accepted => x <= n
    BY <1>1, <1>2
  <2>3. (\A i \in 1 .. Len(p) : p[i] \in Int) /\ (\A i \in 1 .. Len(u) : u[i] \in Int)
    BY <1>1
  <2> QED BY <2>1, <2>2, <2>3
<1> DEFINE w == q.queue
<1>5. /\ Sorted(w) /\ \A i \in 1 .. Len(p), j \in 1 .. Len(w) : p[i] <= w[j]
      /\ \A i \in 1 .. Len(w) : r.terminal <= w[i] /\ w[i] <= n
      /\ \A i \in 1 .. Len(u) : \E j \in 1 .. Len(w) : w[j] = u[i]
  <2>1. CASE w = u
    BY <1>4, <2>1
  <2>2. CASE w = Append(u, n)
    <3>1. Len(u) \in Nat /\ Len(w) = Len(u) + 1 /\ \A i \in 1 .. Len(w) : w[i] = IF i = Len(u) + 1 THEN n ELSE u[i]
      BY <1>1, <2>2
    <3> DEFINE m == Len(u)
    <3>2. m \in Nat /\ Len(w) = m + 1 /\ \A i \in 1 .. m : w[i] = u[i] /\ i \in 1 .. Len(w)
      BY <3>1
    <3>3. w[m + 1] = n /\ \A i \in 1 .. Len(w) : i \in 1 .. m \/ i = m + 1
      BY <3>1
    <3>4. \A i, j \in 1 .. m : i <= j => u[i] <= u[j]
      BY <1>4 DEF Sorted
    <3> HIDE DEF u, w, p, m
    <3>5. Sorted(w)
      <4> SUFFICES ASSUME NEW i \in 1 .. Len(w), NEW j \in 1 .. Len(w), i <= j PROVE w[i] <= w[j]
        BY DEF Sorted
      <4>1. CASE j = m + 1
        BY <1>4, <3>2, <3>3, <4>1 DEF m
      <4>2. CASE j \in 1 .. m
        <5>1. i \in 1 .. m
          BY <3>2, <4>2
        <5> QED BY <3>2, <3>4, <4>2, <5>1
      <4> QED BY <3>3, <4>1, <4>2
    <3>6. \A i \in 1 .. Len(w) : r.terminal <= w[i] /\ w[i] <= n
      BY <1>2, <1>4, <3>2, <3>3 DEF m
    <3>7. \A i \in 1 .. Len(p), j \in 1 .. Len(w) : p[i] <= w[j]
      BY <1>4, <3>2, <3>3 DEF m
    <3> QED BY <3>2, <3>5, <3>6, <3>7 DEF m
  <2> QED BY <2>1, <2>2
<1>6. \A x : Held(r, x) => Held(q, x)
  BY <1>5 DEF Held, Asr!Contains
<1> QED BY <1>2, <1>3, <1>4, <1>5, <1>6 DEF FramesOK

Taking(r, n, t, w) == [r EXCEPT !.accepted = n, !.took = t, !.queue = w]

LEMMA TakenFields ==
  ASSUME NEW r \in Connections, NEW n \in Int, NEW t \in SUBSET Nat, NEW w \in Seq(Int)
  PROVE  LET q == Taking(r, n, t, w) IN
         /\ q \in Connections /\ q.of = r.of /\ q.stream = r.stream /\ q.ending = r.ending
         /\ q.failed = r.failed /\ q.took = t /\ q.results = r.results /\ q.terminal = r.terminal
         /\ q.accepted = n /\ q.sending = r.sending /\ q.queue = w
<1> DEFINE y == [r EXCEPT !.accepted = n, !.took = t]
           q == Taking(r, n, t, w)
<1>1. /\ y \in Connections /\ y.of = r.of /\ y.stream = r.stream /\ y.ending = r.ending
      /\ y.failed = r.failed /\ y.took = t /\ y.results = r.results /\ y.terminal = r.terminal
      /\ y.accepted = n /\ y.sending = r.sending
  BY DEF Connections
<1>2. q = [y EXCEPT !.queue = w]
  BY DEF Taking
<1> HIDE DEF y, q
<1>3. /\ q \in Connections /\ q.of = y.of /\ q.stream = y.stream /\ q.ending = y.ending
      /\ q.failed = y.failed /\ q.took = y.took /\ q.results = y.results /\ q.terminal = y.terminal
      /\ q.accepted = y.accepted /\ q.sending = y.sending /\ q.queue = w
  BY <1>1, <1>2 DEF Connections
<1> QED BY <1>1, <1>3 DEF q

LEMMA AcceptKeeps == ASSUME AsrNumbers, AsrInv, Asr!Accept PROVE AsrInv'
<1>2. /\ CallInv /\ map \in Opens /\ recorded \in Nat /\ ses \in [Opens -> Adapters]
      /\ att \in [Attempts -> Connections]
  BY DEF AsrInv, CallInv, AsrTypeOK, Asr!Accept, Asr!None
<1>3. PICK a \in Attempts : a = ses[map].active /\ att[a] \in Connections /\ att[a].of = map
  <2>1. ses[map] \in Adapters
    BY <1>2
  <2>2. ses[map].active \in {0} \cup Attempts /\ ses[map].active # 0
    BY <2>1 DEF Adapters, Asr!Accept, Asr!None
  <2> QED BY <1>2, <2>2 DEF CallInv, SessionsOK
<1> DEFINE f == att[a].failed
           t == att[a].took \cup {recorded}
           w == IF f THEN att[a].queue ELSE Append(att[a].queue, recorded)
           r == [att[a] EXCEPT !.accepted = recorded, !.took = t, !.queue = w]
<1>1. /\ map # 0 /\ ~ses[map].closed /\ a # 0 /\ ~att[a].ending /\ drain = "no"
      /\ att' = [att EXCEPT ![a] = r]
      /\ \/ recorded' = recorded + 1 /\ ses' = IF f THEN Asr!Marked(map, {recorded}) ELSE ses
         \/ recorded' = recorded /\ ses' = Asr!Marked(map, {recorded})
      /\ UNCHANGED <<map, rtm, runtime, streams, stored, published, drain>>
  BY <1>3 DEF Asr!Accept, Asr!None
<1>4. t \in SUBSET Nat /\ w \in Seq(Int)
  <2>1. att[a].took \in SUBSET Nat /\ att[a].queue \in Seq(Int)
    BY <1>3 DEF Connections
  <2> QED BY <1>2, <2>1
<1>5. w = att[a].queue \/ w = Append(att[a].queue, recorded)
  OBVIOUS
<1>6. ~f => w = Append(att[a].queue, recorded)
  OBVIOUS
<1> HIDE DEF t, w
<1>7. /\ r \in Connections /\ r.of = att[a].of /\ r.stream = att[a].stream /\ r.ending = att[a].ending
      /\ r.failed = f /\ r.took = t /\ r.results = att[a].results /\ r.terminal = att[a].terminal
      /\ r.accepted = recorded /\ r.sending = att[a].sending /\ r.queue = w
  <2>1. r = Taking(att[a], recorded, t, w) /\ recorded \in Int
    BY <1>2 DEF Taking
  <2> HIDE DEF r
  <2> QED BY <1>3, <1>4, <2>1, TakenFields
<1> HIDE DEF r
<1>8. FramesOK(r, recorded') /\ \A x : Held(att[a], x) => Held(r, x)
  <2>1. recorded' \in Nat /\ recorded <= recorded'
    BY <1>1, <1>2
  <2> QED BY <1>2, <1>3, <1>5, <1>7, <2>1, OfAttempt, TakenFacts DEF t
<1>9. /\ SessionsKeep
      /\ \A x \in Opens : ses'[x].closed = ses[x].closed /\ ses'[x].active = ses[x].active /\ ses'[x].retry = ses[x].retry
      /\ f => recorded \in ses'[map].gaps
  <2>1. {recorded} \in SUBSET Int
    BY <1>2
  <2>2. CASE ses' = Asr!Marked(map, {recorded})
    BY <1>1, <1>2, <2>1, <2>2, MarkedFacts
  <2>3. CASE ses' = ses /\ ~f
    BY <1>1, <1>2, <2>3, SessionsStay
  <2> QED BY <1>1, <2>2, <2>3
<1>10. att' \in [Attempts -> Connections] /\ att'[a] = r /\ \A b \in Attempts \ {a} : att'[b] = att[b]
  BY <1>1, <1>2, <1>3, <1>7
<1>11. \A b \in Attempts : Asr!Current(b)' <=> Asr!Current(b)
  <2> TAKE b \in Attempts
  <2>1. att'[b].of = att[b].of /\ att'[b].failed = att[b].failed
    BY <1>7, <1>10
  <2> QED BY <1>2, <1>9, <2>1, CurrentStays
<1>12. ~f => Asr!Current(a)
  BY <1>1, <1>2, <1>3, CurrentFacts
<1>13. AccountedFor(a)'
  <2> SUFFICES ASSUME NEW n \in t \ 0 .. att[a].terminal
               PROVE  (Asr!Current(a) /\ Held(r, n)) \/ Noted(n)'
    BY <1>7, <1>10, <1>11 DEF AccountedFor, Held
  <2>1. Noted(n) => Noted(n)'
    BY <1>2, <1>9 DEF Noted, SessionsKeep
  <2>2. CASE n \in att[a].took
    <3>1. (Asr!Current(a) /\ Held(att[a], n)) \/ Noted(n)
      BY <1>1, <1>2, <1>3, <2>2, OfAttempt DEF AccountedFor
    <3> QED BY <1>8, <2>1, <3>1
  <2>3. CASE n = recorded
    <3>1. CASE f
      BY <1>1, <1>9, <2>3, <3>1 DEF Noted
    <3>2. CASE ~f
      <4>1. att[a].queue \in Seq(Int)
        BY <1>3 DEF Connections
      <4>2. Len(w) = Len(att[a].queue) + 1 /\ w[Len(att[a].queue) + 1] = recorded
        BY <1>6, <3>2, <4>1
      <4>3. Len(att[a].queue) + 1 \in 1 .. Len(w)
        BY <4>1, <4>2
      <4>4. Held(r, n)
        BY <1>7, <2>3, <4>2, <4>3 DEF Held, Asr!Contains
      <4> QED BY <1>12, <3>2, <4>4
    <3> QED BY <3>1, <3>2
  <2> QED BY <2>2, <2>3 DEF t
<1>14. ChangeOK(a)
  <2>1. Asr!Current(a)' => ResultsOK(a)'
    <3>1. Asr!Current(a) => ResultsOK(a)
      BY <1>2, <1>3 DEF CallInv, AttemptsOK, CurrentOK
    <3> QED BY <1>1, <1>7, <1>10, <1>11, <3>1 DEF ResultsOK
  <2> QED BY <1>1, <1>7, <1>8, <1>10, <1>13, <2>1 DEF ChangeOK
<1>15. WorldKeeps
  <2>1. recorded' \in Nat /\ recorded' >= recorded
    BY <1>1, <1>2
  <2> QED BY <1>1, <1>2, <2>1 DEF WorldKeeps, CallInv, AsrTypeOK
<1>16. CallInv'
  <2>1. \A b \in Attempts : Asr!Current(b)' => ses'[map].retry = ses[map].retry /\ rtm'[map] = rtm[map]
    BY <1>1, <1>2, <1>9
  <2> DEFINE C == {a}
  <2>2. /\ C \in SUBSET Attempts /\ \A b \in C : ChangeOK(b)
        /\ \A b \in Attempts \ C : att'[b] = att[b]
        /\ \A b \in Attempts \ C : Asr!Current(b) => Asr!Current(b)' \/ att[b].took = {}
    BY <1>3, <1>10, <1>11, <1>14
  <2> HIDE DEF C
  <2> QED BY <1>2, <1>9, <1>10, <1>15, <2>1, <2>2, CallStepKeeps
<1>17. DrainedOK'
  BY <1>1 DEF DrainedOK
<1> QED BY <1>16, <1>17 DEF AsrInv

----------------------------------------------------------------------------
(* The end of a session, by a drain, its failure or a cancel.              *)
LEMMA DrainedKeepsAll ==
  ASSUME AsrNumbers, AsrInv, NEW a \in Attempts, Asr!Drained(a) PROVE AsrInv'
<1> DEFINE r == [att[a] EXCEPT !.released = TRUE]
           y == [ses[map] EXCEPT !.closed = TRUE]
<1>1. /\ Asr!Current(a) /\ drain = "draining" /\ Asr!Settled(a)
      /\ ses' = [ses EXCEPT ![att[a].of].closed = TRUE] /\ att' = [att EXCEPT ![a] = r]
      /\ drain' \in {"drained", "degraded"}
      /\ UNCHANGED <<map, rtm, runtime, streams, recorded, stored, published>>
  BY DEF Asr!Drained
<1>2. /\ CallInv /\ map \in Opens /\ att[a].of = map /\ ses[map].active = a /\ ses \in [Opens -> Adapters]
      /\ att \in [Attempts -> Connections] /\ att[a] \in Connections /\ recorded \in Nat
  BY <1>1, CurrentFacts DEF AsrInv, CallInv, AsrTypeOK
<1>3. /\ r \in Connections /\ SameFrames(r, att[a]) /\ r.results = att[a].results
  BY <1>2 DEF Connections, SameFrames
<1>4. y \in Adapters /\ y.active = ses[map].active /\ y.gaps = ses[map].gaps /\ y.closed = TRUE
  <2>1. ses[map] \in Adapters
    BY <1>2
  <2> QED BY <2>1 DEF Adapters
<1> HIDE DEF r
<1>5. ses' = [ses EXCEPT ![map] = y]
  BY <1>1, <1>2
<1> HIDE DEF y
<1>6. ses' \in [Opens -> Adapters] /\ \A o \in Opens : ses'[o] = IF o = map THEN y ELSE ses[o]
  BY <1>2, <1>4, <1>5
<1>7. SessionsKeep
  BY <1>1, <1>4, <1>6 DEF SessionsKeep
<1>8. WorldKeeps
  BY <1>1, <1>2 DEF WorldKeeps, CallInv, AsrTypeOK
<1>9. FramesOK(r, recorded')
  BY <1>1, <1>2, <1>3, OfAttempt DEF FramesOK, SameFrames
<1>10. Asr!Unsent(a) = {}
  <2>1. att[a].terminal \in Int /\ att[a].terminal = att[a].accepted
    BY <1>1, <1>2 DEF Connections, Asr!Settled
  <2> QED BY <2>1 DEF Asr!Unsent
<1>11. CallInv'
  BY <1>1, <1>2, <1>3, <1>4, <1>6, <1>7, <1>8, <1>9, <1>10, CurrentEnds DEF SameFrames
<1>12. DrainedOK'
  <2>1. att'[a] = r
    BY <1>1, <1>2, <1>3
  <2>2. ses'[map].closed /\ ses'[map].active = a /\ map' = map /\ map # 0
    BY <1>1, <1>2, <1>4, <1>6 DEF AsrNumbers
  <2>3. ResultsOK(a) /\ \A s \in Sentences : att[a].results[s] \notin {"ingesting", "stored"}
    BY <1>1, <1>2 DEF CallInv, AttemptsOK, CurrentOK, Asr!Settled, Asr!InFlight
  <2> QED BY <1>1, <1>3, <2>1, <2>2, <2>3 DEF DrainedOK, ResultsOK
<1> QED BY <1>11, <1>12 DEF AsrInv

LEMMA CancelledFacts ==
  ASSUME AsrNumbers, CallInv, map \in Opens
  PROVE  LET c == Asr!Cancelled(map) IN
         /\ c \in [Opens -> Adapters]
         /\ \A o \in Opens \ {map} : c[o] = ses[o]
         /\ c[map].closed /\ c[map].active = ses[map].active /\ ses[map].gaps \subseteq c[map].gaps
         /\ c[map].retry = ses[map].retry
         /\ ses[map].active # 0 => Asr!Unsent(ses[map].active) \subseteq c[map].gaps
<1>1. ses \in [Opens -> Adapters] /\ ses[map] \in Adapters
  BY DEF CallInv, AsrTypeOK
<1> DEFINE H == ses[map].gaps \cup IF ses[map].active = 0 THEN {} ELSE Asr!Unsent(ses[map].active)
           y == [ses[map] EXCEPT !.closed = TRUE, !.gaps = H]
<1>2. ses[map].active \in {0} \cup Attempts /\ ses[map].gaps \in SUBSET Int
  BY <1>1 DEF Adapters
<1>3. H \in SUBSET Int
  BY <1>2, UnsentFacts
<1>4. Asr!Cancelled(map) = [ses EXCEPT ![map] = y]
  BY DEF Asr!Cancelled, Asr!None
<1>5. ses[map].gaps \subseteq H /\ (ses[map].active # 0 => Asr!Unsent(ses[map].active) \subseteq H)
  OBVIOUS
<1> HIDE DEF H
<1>6. y \in Adapters /\ y.closed = TRUE /\ y.gaps = H /\ y.active = ses[map].active /\ y.retry = ses[map].retry
  BY <1>1, <1>3 DEF Adapters
<1> HIDE DEF y
<1>7. [ses EXCEPT ![map] = y] \in [Opens -> Adapters] /\ \A o \in Opens : [ses EXCEPT ![map] = y][o] = IF o = map THEN y ELSE ses[o]
  BY <1>1, <1>6
<1> QED BY <1>4, <1>5, <1>6, <1>7

LEMMA FencedFacts ==
  ASSUME AsrNumbers, CallInv, NEW a \in Attempts
  PROVE  LET r == [att[a] EXCEPT !.failed = TRUE, !.released = TRUE] IN
         /\ Asr!Fenced(a) = [att EXCEPT ![a] = r]
         /\ r \in Connections /\ r.of = att[a].of /\ r.stream = att[a].stream /\ r.ending = att[a].ending /\ r.failed
         /\ r.took = att[a].took /\ r.terminal = att[a].terminal /\ r.results = att[a].results /\ FramesOK(r, recorded)
<1>1. att[a] \in Connections /\ FramesOK(att[a], recorded) /\ att \in [Attempts -> Connections]
  BY OfAttempt DEF CallInv, AsrTypeOK
<1> DEFINE r == [att[a] EXCEPT !.failed = TRUE, !.released = TRUE]
<1>2. Asr!Fenced(a) = [att EXCEPT ![a] = r]
  BY DEF Asr!Fenced, Asr!None, AsrNumbers
<1>3. /\ r \in Connections /\ r.of = att[a].of /\ r.stream = att[a].stream /\ r.ending = att[a].ending /\ r.failed = TRUE
      /\ r.took = att[a].took /\ r.terminal = att[a].terminal /\ r.results = att[a].results /\ r.accepted = att[a].accepted
      /\ r.queue = att[a].queue /\ r.sending = att[a].sending
  BY <1>1 DEF Connections
<1> HIDE DEF r
<1>4. FramesOK(r, recorded)
  BY <1>1, <1>3 DEF FramesOK
<1> QED BY <1>2, <1>3, <1>4 DEF r

LEMMA DrainFailsKeeps ==
  ASSUME AsrNumbers, AsrInv, NEW a \in Attempts, Asr!DrainFails(a) PROVE AsrInv'
<1> DEFINE G == IF att[a].failed THEN {} ELSE Asr!Unsent(a)
           r == [[att[a] EXCEPT !.failed = TRUE, !.released = TRUE] EXCEPT !.sending = <<>>]
<1>1. /\ drain = "draining" /\ att[a].ending
      /\ ses' = [ses EXCEPT ![att[a].of].closed = TRUE, ![att[a].of].gaps = ses[att[a].of].gaps \cup G]
      /\ att' = [Asr!Fenced(a) EXCEPT ![a].sending = <<>>] /\ drain' = "degraded"
      /\ UNCHANGED <<map, rtm, runtime, streams, recorded, stored, published>>
  BY DEF Asr!DrainFails
<1>2. /\ CallInv /\ ses \in [Opens -> Adapters] /\ att \in [Attempts -> Connections] /\ att[a] \in Connections
      /\ recorded \in Nat /\ G \in SUBSET Int
  BY UnsentFacts DEF AsrInv, CallInv, AsrTypeOK
<1>3. att' = [att EXCEPT ![a] = r]
  <2> DEFINE p == [att[a] EXCEPT !.failed = TRUE, !.released = TRUE]
  <2>1. Asr!Fenced(a) = [att EXCEPT ![a] = p]
    BY <1>2, FencedFacts
  <2> HIDE DEF p
  <2> QED BY <1>1, <1>2, <2>1 DEF p
<1>4. /\ r \in Connections /\ r.of = att[a].of /\ r.stream = att[a].stream /\ r.ending = att[a].ending /\ r.failed = TRUE
      /\ r.took = att[a].took /\ r.terminal = att[a].terminal /\ r.results = att[a].results /\ FramesOK(r, recorded)
  <2> DEFINE p == [att[a] EXCEPT !.failed = TRUE, !.released = TRUE]
             empty == <<>>
  <2>1. /\ p \in Connections /\ p.of = att[a].of /\ p.stream = att[a].stream /\ p.ending = att[a].ending /\ p.failed = TRUE
        /\ p.took = att[a].took /\ p.terminal = att[a].terminal /\ p.results = att[a].results /\ FramesOK(p, recorded)
    <3>1. /\ p \in Connections /\ p.of = att[a].of /\ p.stream = att[a].stream /\ p.ending = att[a].ending /\ p.failed
          /\ p.took = att[a].took /\ p.terminal = att[a].terminal /\ p.results = att[a].results /\ FramesOK(p, recorded)
      BY <1>2, FencedFacts
    <3>2. p.failed = TRUE
      BY <1>2 DEF Connections
    <3> QED BY <3>1, <3>2
  <2>2. empty \in Seq(Int) /\ Len(empty) = 0
    OBVIOUS
  <2> HIDE DEF p, empty
  <2> DEFINE q == [p EXCEPT !.sending = empty]
  <2>3. /\ q \in Connections /\ q.of = p.of /\ q.stream = p.stream /\ q.ending = p.ending /\ q.failed = p.failed
        /\ q.took = p.took /\ q.terminal = p.terminal /\ q.results = p.results /\ q.accepted = p.accepted
        /\ q.queue = p.queue /\ q.sending = empty
    BY <2>1, <2>2 DEF Connections
  <2> HIDE DEF q
  <2>4. FramesOK(q, recorded)
    BY <2>1, <2>2, <2>3 DEF FramesOK, Sorted
  <2>5. r = q
    BY DEF q, p, empty
  <2> HIDE DEF r
  <2> QED BY <2>1, <2>3, <2>4, <2>5
<1> HIDE DEF r, G
<1>5. /\ SessionsKeep /\ \A o \in Opens : ses'[o].retry = ses[o].retry
      /\ att[a].of \in Opens => G \subseteq ses'[att[a].of].gaps
  <2> DEFINE o == att[a].of
  <2>1. o \in {0} \cup Opens
    BY <1>2 DEF Connections
  <2> HIDE DEF o
  <2>2. CASE o \in Opens
    <3> DEFINE H == ses[o].gaps \cup G
               y == [ses[o] EXCEPT !.closed = TRUE, !.gaps = H]
    <3>1. ses[o] \in Adapters
      BY <1>2, <2>2
    <3>2. H \in SUBSET Int
      BY <1>2, <3>1 DEF Adapters
    <3>3. ses' = [ses EXCEPT ![o] = y]
      BY <1>1 DEF o
    <3> HIDE DEF H
    <3>4. y \in Adapters /\ y.closed = TRUE /\ y.gaps = H /\ y.active = ses[o].active /\ y.retry = ses[o].retry
      BY <3>1, <3>2 DEF Adapters
    <3> HIDE DEF y
    <3>5. ses' \in [Opens -> Adapters] /\ \A x \in Opens : ses'[x] = IF x = o THEN y ELSE ses[x]
      BY <1>2, <3>3, <3>4
    <3>6. SessionsKeep /\ \A x \in Opens : ses'[x].retry = ses[x].retry
      BY <1>1, <3>4, <3>5 DEF SessionsKeep, H
    <3>7. G \subseteq ses'[o].gaps
      BY <2>2, <3>4, <3>5 DEF H
    <3> QED BY <3>6, <3>7 DEF o
  <2>3. CASE o \notin Opens
    <3>1. ses' = ses
      BY <1>1, <1>2, <2>3 DEF o
    <3> QED BY <1>1, <1>2, <2>3, <3>1, SessionsStay DEF o
  <2> QED BY <2>2, <2>3
<1>6. att'[a] = r /\ \A b \in Attempts \ {a} : att'[b] = att[b]
  BY <1>2, <1>3
<1>7. ~Asr!Current(a)'
  BY <1>4, <1>6 DEF Asr!Current
<1>8. Asr!Current(a) => Asr!Unsent(a) \subseteq ses'[map].gaps
  <2> SUFFICES ASSUME Asr!Current(a) PROVE Asr!Unsent(a) \subseteq ses'[map].gaps
    OBVIOUS
  <2>1. map \in Opens /\ att[a].of = map /\ ~att[a].failed
    BY <1>2, CurrentFacts
  <2> QED BY <1>5, <2>1 DEF G
<1>9. \A b \in Attempts \ {a} : Asr!Current(b) => att[b].took = {}
  BY <1>1, <1>2 DEF CallInv, EndingOK
<1>10. \A b \in Attempts : Asr!Current(b)' => ses'[map].retry = ses[map].retry /\ rtm'[map] = rtm[map]
  <2> SUFFICES ASSUME NEW b \in Attempts, Asr!Current(b)'
               PROVE  ses'[map].retry = ses[map].retry /\ rtm'[map] = rtm[map]
    OBVIOUS
  <2>1. b # a
    BY <1>7
  <2>2. att'[b].of = att[b].of /\ (att[b].failed => att'[b].failed)
    BY <1>6, <2>1
  <2>3. Asr!Current(b)
    BY <1>2, <1>5, <2>2, StillCurrent
  <2>4. map \in Opens
    BY <1>2, <2>3, CurrentFacts
  <2> QED BY <1>1, <1>5, <2>4
<1>11. WorldKeeps
  BY <1>1, <1>2 DEF WorldKeeps, CallInv, AsrTypeOK
<1>12. CallInv'
  <2>1. FramesOK(r, recorded')
    BY <1>1, <1>4
  <2> QED BY <1>2, <1>3, <1>4, <1>5, <1>7, <1>8, <1>9, <1>10, <1>11, <2>1, AttemptEnds
<1>13. DrainedOK'
  BY <1>1 DEF DrainedOK
<1> QED BY <1>12, <1>13 DEF AsrInv

LEMMA CancelKeeps == ASSUME AsrNumbers, AsrInv, Asr!Cancel PROVE AsrInv'
<1>1. /\ map # 0 /\ ses' = Asr!Cancelled(map) /\ att' = Asr!Fenced(ses[map].active)
      /\ UNCHANGED <<map, rtm, runtime, streams, recorded, stored, published, drain>>
  BY DEF Asr!Cancel, Asr!None
<1>2. CallInv /\ map \in Opens /\ ses \in [Opens -> Adapters] /\ att \in [Attempts -> Connections]
  BY <1>1 DEF AsrInv, CallInv, AsrTypeOK
<1>3. /\ SessionsKeep /\ \A o \in Opens : ses'[o].retry = ses[o].retry
      /\ ses[map].active # 0 => Asr!Unsent(ses[map].active) \subseteq ses'[map].gaps
  BY <1>1, <1>2, CancelledFacts DEF SessionsKeep
<1>4. WorldKeeps
  BY <1>1, <1>2 DEF WorldKeeps, CallInv, AsrTypeOK
<1>5. ses[map].active \in {0} \cup Attempts
  <2>1. ses[map] \in Adapters
    BY <1>2
  <2> QED BY <2>1 DEF Adapters
<1>6. \A b \in Attempts : Asr!Current(b)' => ses'[map].retry = ses[map].retry /\ rtm'[map] = rtm[map]
  BY <1>1, <1>2, <1>3
<1>7. CASE ses[map].active = 0
  <2>1. att' = att
    BY <1>1, <1>7 DEF Asr!Fenced, Asr!None
  <2>2. \A b \in Attempts : ~Asr!Current(b)
    BY <1>2, <1>7, CurrentFacts DEF AsrNumbers
  <2>3. CallInv'
    BY <1>2, <1>3, <1>4, <1>6, <2>1, <2>2, QuietStep
  <2>4. DrainedOK'
    BY <1>1, <1>3, <2>1, DrainedKeeps
  <2> QED BY <2>3, <2>4 DEF AsrInv
<1>8. CASE ses[map].active # 0
  <2>1. PICK a \in Attempts : a = ses[map].active
    BY <1>5, <1>8
  <2> DEFINE r == [att[a] EXCEPT !.failed = TRUE, !.released = TRUE]
  <2>2. /\ att' = [att EXCEPT ![a] = r]
        /\ r \in Connections /\ r.of = att[a].of /\ r.stream = att[a].stream /\ r.ending = att[a].ending /\ r.failed
        /\ r.took = att[a].took /\ r.terminal = att[a].terminal /\ r.results = att[a].results /\ FramesOK(r, recorded)
    BY <1>1, <1>2, <2>1, FencedFacts
  <2> HIDE DEF r
  <2>3. att'[a] = r /\ \A b \in Attempts \ {a} : att'[b] = att[b]
    BY <1>2, <2>2
  <2>4. ~Asr!Current(a)'
    BY <2>2, <2>3 DEF Asr!Current
  <2>5. \A b \in Attempts \ {a} : ~Asr!Current(b)
    BY <1>2, <2>1, CurrentFacts
  <2>6. FramesOK(r, recorded') /\ Asr!Unsent(a) \subseteq ses'[map].gaps
    BY <1>1, <1>3, <1>8, <2>1, <2>2
  <2>7. CallInv'
    BY <1>2, <1>3, <1>4, <1>6, <2>2, <2>4, <2>5, <2>6, AttemptEnds
  <2>8. \A b \in Attempts : att'[b].results = att[b].results
    BY <2>2, <2>3
  <2>9. DrainedOK'
    BY <1>1, <1>3, <2>8, DrainedKeeps
  <2> QED BY <2>7, <2>9 DEF AsrInv
<1> QED BY <1>7, <1>8

LEMMA DrainKeeps == ASSUME AsrNumbers, AsrInv, Asr!Drain PROVE AsrInv'
<1>1. /\ drain = "no" /\ UNCHANGED <<ses, map, rtm, runtime, streams, recorded, stored, published>>
      /\ \/ /\ drain' = "degraded" /\ att' = att
            /\ map = 0 \/ ses[map].closed \/ ses[map].active = 0 \/ att[ses[map].active].failed
         \/ /\ drain' = "draining" /\ att' = [att EXCEPT ![ses[map].active].ending = TRUE]
            /\ map # 0 /\ ~ses[map].closed /\ ses[map].active # 0 /\ ~att[ses[map].active].failed
  BY DEF Asr!Drain, Asr!Degraded, Asr!None
<1>2. CallInv /\ ses \in [Opens -> Adapters] /\ att \in [Attempts -> Connections] /\ map \in {0} \cup Opens
  BY DEF AsrInv, CallInv, AsrTypeOK
<1>3. \A b \in Attempts : ~att[b].ending
  BY <1>1, <1>2 DEF CallInv, EndingOK
<1>4. PICK a : /\ att' \in [Attempts -> Connections]
               /\ \A b \in Attempts : SameFrames(att'[b], [att[b] EXCEPT !.ending = att'[b].ending])
                                      /\ att'[b].results = att[b].results
               /\ \A b \in Attempts : att'[b].ending => b = a
               /\ \A b \in Attempts : Asr!Current(b) => b = a /\ att'[b].ending
  <2>1. CASE att' = att /\ (map = 0 \/ ses[map].closed \/ ses[map].active = 0 \/ att[ses[map].active].failed)
    <3>1. \A b \in Attempts : ~Asr!Current(b)
      BY <1>2, <2>1, CurrentFacts DEF AsrNumbers
    <3>2. \A b \in Attempts : att[b] \in Connections
      BY <1>2
    <3>3. \A b \in Attempts : SameFrames(att[b], [att[b] EXCEPT !.ending = att[b].ending])
      BY <3>2 DEF SameFrames, Connections
    <3> QED BY <1>2, <1>3, <2>1, <3>1, <3>3
  <2>2. CASE /\ att' = [att EXCEPT ![ses[map].active].ending = TRUE]
             /\ map # 0 /\ ~ses[map].closed /\ ses[map].active # 0 /\ ~att[ses[map].active].failed
    <3>1. ses[map] \in Adapters
      BY <1>2, <2>2
    <3>2. PICK c \in Attempts : c = ses[map].active
      BY <2>2, <3>1 DEF Adapters
    <3> DEFINE r == [att[c] EXCEPT !.ending = TRUE]
    <3>3. att[c] \in Connections
      BY <1>2
    <3>4. r \in Connections /\ SameFrames(r, r) /\ r.results = att[c].results /\ r.ending = TRUE
      BY <3>3 DEF Connections, SameFrames
    <3>5. \A b \in Attempts : att'[b] = IF b = c THEN r ELSE att[b]
      BY <1>2, <2>2, <3>2
    <3>6. att' \in [Attempts -> Connections]
      BY <1>2, <2>2, <3>2, <3>4
    <3>7. \A b \in Attempts : SameFrames(att'[b], [att[b] EXCEPT !.ending = att'[b].ending])
      <4> TAKE b \in Attempts
      <4>1. CASE b = c
        <5>1. att'[b] = r /\ [att[b] EXCEPT !.ending = att'[b].ending] = r
          BY <3>4, <3>5, <4>1
        <5> QED BY <3>4, <5>1
      <4>2. CASE b # c
        <5>1. att'[b] = att[b] /\ att[b] \in Connections
          BY <1>2, <3>5, <4>2
        <5> QED BY <5>1 DEF SameFrames, Connections
      <4> QED BY <4>1, <4>2
    <3> HIDE DEF r
    <3>8. \A b \in Attempts : Asr!Current(b) => b = c
      BY <1>2, <3>2, CurrentFacts
    <3>9. \A b \in Attempts : (att'[b].ending => b = c) /\ (b = c => att'[b].ending) /\ att'[b].results = att[b].results
      BY <1>3, <3>4, <3>5
    <3> QED BY <3>6, <3>7, <3>8, <3>9
  <2> QED BY <1>1, <2>1, <2>2
<1>5. \A b \in Attempts : /\ att'[b].of = att[b].of /\ att'[b].stream = att[b].stream /\ att'[b].failed = att[b].failed
                          /\ att'[b].took = att[b].took /\ att'[b].terminal = att[b].terminal
                          /\ att'[b].accepted = att[b].accepted /\ att'[b].queue = att[b].queue
                          /\ att'[b].sending = att[b].sending
  <2>1. \A b \in Attempts : att[b] \in Connections
    BY <1>2
  <2> QED BY <1>4, <2>1 DEF SameFrames, Connections
<1>6. \A b \in Attempts : Asr!Current(b)' <=> Asr!Current(b)
  BY <1>1, <1>2, <1>5, CurrentStays
<1>7. AsrTypeOK'
  BY <1>1, <1>2, <1>4 DEF CallInv, AsrTypeOK
<1>8. SessionsOK'
  <2> SUFFICES ASSUME NEW o \in Opens
               PROVE  (o # map => ses[o].closed) /\ (ses[o].active # 0 => att'[ses[o].active].of = o)
    BY <1>1 DEF SessionsOK
  <2>1. ses[o].active \in {0} \cup Attempts
    BY <1>2 DEF Adapters
  <2> QED BY <1>2, <1>5, <2>1 DEF CallInv, SessionsOK
<1>9. AttemptsOK'
  <2> SUFFICES ASSUME NEW b \in Attempts PROVE FramesOK(att'[b], recorded') /\ CurrentOK(b)' /\ AccountedFor(b)'
    BY DEF AttemptsOK
  <2>1. FramesOK(att[b], recorded) /\ CurrentOK(b) /\ AccountedFor(b)
    BY <1>2 DEF CallInv, AttemptsOK
  <2>2. FramesOK(att'[b], recorded')
    BY <1>1, <1>5, <2>1 DEF FramesOK
  <2>3. CurrentOK(b)'
    BY <1>1, <1>4, <1>5, <1>6, <2>1 DEF CurrentOK, ResultsOK
  <2>4. AccountedFor(b)'
    BY <1>1, <1>5, <1>6, <2>1 DEF AccountedFor, Held, Noted
  <2> QED BY <2>2, <2>3, <2>4
<1>10. EndingOK'
  BY <1>1, <1>4, <1>6 DEF EndingOK
<1>11. DrainedOK'
  BY <1>1 DEF DrainedOK
<1> QED BY <1>7, <1>8, <1>9, <1>10, <1>11 DEF AsrInv, CallInv

----------------------------------------------------------------------------
(* The attempts a session begins with.                                      *)
LEMMA AsrFirst ==
  ASSUME NEW S \in SUBSET Nat, S # {}
  PROVE  Asr!First(S) \in S
<1> DEFINE R == OpToRel(<, Nat)
<1>1. IsWellFoundedOn(R, Nat)
  BY NatLessThanWellFounded
<1>2. \A a, b \in Nat : <<a, b>> \in R <=> a < b
  BY DEF OpToRel
<1> HIDE DEF R
<1>3. PICK m \in S : \A k \in S : ~(<<k, m>> \in R)
  BY <1>1, WFMin, Zenon
<1>4. \A k \in S : m <= k
  <2> SUFFICES ASSUME NEW k \in S PROVE m <= k
    OBVIOUS
  <2>1. m \in Nat /\ k \in Nat /\ ~(k < m)
    BY <1>2, <1>3
  <2> QED BY <2>1
<1>5. \E x \in S : \A y \in S : x <= y
  BY <1>4
<1> QED BY <1>5 DEF Asr!First

FreshRecord(r, o, stream) ==
  /\ r \in Connections /\ r.of = o /\ r.stream = stream /\ r.ending = FALSE /\ r.failed = FALSE
  /\ r.took = {} /\ r.terminal = -1 /\ r.accepted = -1 /\ Len(r.queue) = 0 /\ Len(r.sending) = 0
  /\ \A s \in Sentences : r.results[s] = "none"

BlankRecord(r) ==
  /\ r \in Connections /\ r.ending = FALSE /\ r.failed = FALSE
  /\ r.took = {} /\ r.terminal = -1 /\ r.accepted = -1 /\ Len(r.queue) = 0 /\ Len(r.sending) = 0
  /\ \A s \in Sentences : r.results[s] = "none"

LEMMA BlankFacts == BlankRecord(Asr!NoAttempt)
<1> DEFINE empty == <<>>
           nothing == [s \in Sentences |-> "none"]
           q == [of |-> 0, stream |-> 0, accepted |-> -1, terminal |-> -1, queue |-> empty, sending |-> empty,
                 ready |-> FALSE, failed |-> FALSE, ending |-> FALSE, endSent |-> FALSE, final |-> FALSE,
                 released |-> FALSE, took |-> {}, results |-> nothing]
<1>1. Asr!NoAttempt = q
  BY DEF Asr!NoAttempt, Asr!None
<1>2. empty \in Seq(Int) /\ Len(empty) = 0 /\ nothing \in [Sentences -> Outcomes] /\ \A s \in Sentences : nothing[s] = "none"
  BY DEF Outcomes
<1> HIDE DEF empty, nothing
<1>3. BlankRecord(q)
  BY <1>2 DEF BlankRecord, Connections
<1> HIDE DEF q
<1> QED BY <1>1, <1>3

LEMMA OwnedFacts ==
  ASSUME NEW q, BlankRecord(q), NEW o \in {0} \cup Opens, NEW stream \in Nat
  PROVE  FreshRecord([q EXCEPT !.of = o, !.stream = stream], o, stream)
<1> DEFINE p == [q EXCEPT !.of = o]
           r == [p EXCEPT !.stream = stream]
<1>1. q \in Connections
  BY DEF BlankRecord
<1>2. /\ p \in Connections /\ p.of = o /\ p.ending = q.ending /\ p.failed = q.failed /\ p.took = q.took
      /\ p.terminal = q.terminal /\ p.accepted = q.accepted /\ p.queue = q.queue /\ p.sending = q.sending
      /\ p.results = q.results
  BY <1>1 DEF Connections
<1>3. [q EXCEPT !.of = o, !.stream = stream] = r
  OBVIOUS
<1> HIDE DEF p
<1>4. /\ r \in Connections /\ r.of = o /\ r.stream = stream /\ r.ending = p.ending /\ r.failed = p.failed
      /\ r.took = p.took /\ r.terminal = p.terminal /\ r.accepted = p.accepted /\ r.queue = p.queue
      /\ r.sending = p.sending /\ r.results = p.results
  BY <1>2 DEF Connections
<1> HIDE DEF r
<1>5. FreshRecord(r, o, stream)
  BY <1>2, <1>4 DEF FreshRecord, BlankRecord
<1> QED BY <1>3, <1>5

LEMMA BegunFacts ==
  ASSUME NEW attempts \in [Attempts -> Connections], NEW a \in Attempts, NEW o \in Opens, NEW stream \in Nat
  PROVE  LET B == Asr!Begun(attempts, a, o, stream) IN
         /\ B \in [Attempts -> Connections] /\ FreshRecord(B[a], o, stream)
         /\ \A b \in Attempts \ {a} : B[b] = attempts[b]
<1> DEFINE r == [Asr!NoAttempt EXCEPT !.of = o, !.stream = stream]
<1>1. Asr!Begun(attempts, a, o, stream) = [attempts EXCEPT ![a] = r]
  BY DEF Asr!Begun
<1>2. FreshRecord(r, o, stream)
  BY BlankFacts, OwnedFacts
<1>3. r \in Connections
  BY <1>2 DEF FreshRecord
<1> HIDE DEF r
<1> QED BY <1>1, <1>2, <1>3

(* What of an attempt the pieces of evidence are about.                    *)
SamePcm(r, q) ==
  /\ r.of = q.of /\ r.stream = q.stream /\ r.ending = q.ending /\ r.took = q.took /\ r.terminal = q.terminal
  /\ r.accepted = q.accepted /\ r.queue = q.queue /\ r.sending = q.sending

(* A step after which at most an attempt it began is current.              *)
LEMMA BeginStep ==
  ASSUME AsrNumbers, CallInv, AsrTypeOK', SessionsOK', UNCHANGED <<recorded, drain>>,
         NEW N \in SUBSET Attempts,
         \A b \in Attempts \ N : SamePcm(att'[b], att[b]) /\ ~Asr!Current(b)',
         \A b \in Attempts \ N : att[b].of # 0 => \A n \in att[b].took \ 0 .. att[b].terminal : Noted(n)',
         \A b \in N : FreshRecord(att'[b], map', rtm'[map'].stream) /\ rtm'[map'].bound = b /\ ses'[map'].retry = "none"
  PROVE  CallInv'
<1>1. ASSUME NEW b \in Attempts PROVE FramesOK(att'[b], recorded') /\ CurrentOK(b)' /\ AccountedFor(b)'
  <2>1. CASE b \in N
    <3>1. FreshRecord(att'[b], map', rtm'[map'].stream) /\ rtm'[map'].bound = b /\ ses'[map'].retry = "none"
      BY <2>1
    <3>2. recorded \in Nat /\ recorded' = recorded
      BY DEF CallInv, AsrTypeOK
    <3>3. FramesOK(att'[b], recorded')
      BY <3>1, <3>2 DEF FreshRecord, FramesOK, Sorted
    <3>4. CurrentOK(b)'
      BY <3>1 DEF FreshRecord, CurrentOK, ResultsOK
    <3>5. AccountedFor(b)'
      BY <3>1 DEF FreshRecord, AccountedFor
    <3> QED BY <3>3, <3>4, <3>5
  <2>2. CASE b \notin N
    <3>1. SamePcm(att'[b], att[b]) /\ ~Asr!Current(b)' /\ FramesOK(att[b], recorded)
      BY <2>2, OfAttempt
    <3>2. FramesOK(att'[b], recorded')
      BY <3>1 DEF SamePcm, FramesOK
    <3>3. CurrentOK(b)'
      BY <3>1 DEF CurrentOK
    <3>4. AccountedFor(b)'
      BY <2>2, <3>1 DEF AccountedFor, SamePcm
    <3> QED BY <3>2, <3>3, <3>4
  <2> QED BY <2>1, <2>2
<1>2. EndingOK'
  <2>1. \A b \in Attempts : /\ b \in N => att'[b].ending = FALSE /\ att'[b].took = {}
                            /\ b \notin N => att'[b].ending = att[b].ending /\ ~Asr!Current(b)'
    BY DEF FreshRecord, SamePcm
  <2>2. /\ \A a \in Attempts : att[a].ending => drain # "no"
        /\ \A a, b \in Attempts : att[a].ending /\ att[b].ending => a = b
    BY DEF CallInv, EndingOK
  <2> QED BY <2>1, <2>2 DEF EndingOK
<1> QED BY <1>1, <1>2 DEF CallInv, AttemptsOK

----------------------------------------------------------------------------
LEMMA RotateKeeps == ASSUME AsrNumbers, AsrInv, NEW o \in Opens, Asr!Rotate(o) PROVE AsrInv'
<1> DEFINE to == streams.made + 1
           y == [ses[o] EXCEPT !.retry = "backoff", !.to = to]
           z == [rtm[o] EXCEPT !.stream = to]
<1>1. /\ ses[o].retry = "rotating" /\ ses' = [ses EXCEPT ![o] = y] /\ rtm' = [rtm EXCEPT ![o] = z]
      /\ streams' = [made |-> to, active |-> to]
      /\ UNCHANGED <<att, map, runtime, recorded, stored, published, drain>>
  BY DEF Asr!Rotate, Asr!StreamRotated
<1>2. /\ CallInv /\ ses \in [Opens -> Adapters] /\ rtm \in [Opens -> [stream : Nat, bound : Nat]] /\ to \in Nat
      /\ ses[o] \in Adapters /\ rtm[o] \in [stream : Nat, bound : Nat]
  BY DEF AsrInv, CallInv, AsrTypeOK
<1> HIDE DEF to
<1>3. y \in Adapters /\ y.closed = ses[o].closed /\ y.active = ses[o].active /\ y.gaps = ses[o].gaps
  BY <1>2 DEF Adapters
<1>4. z \in [stream : Nat, bound : Nat]
  BY <1>2
<1> HIDE DEF y, z
<1>5. /\ ses' \in [Opens -> Adapters] /\ \A x \in Opens : ses'[x] = IF x = o THEN y ELSE ses[x]
      /\ rtm' \in [Opens -> [stream : Nat, bound : Nat]] /\ \A x \in Opens : rtm'[x] = IF x = o THEN z ELSE rtm[x]
      /\ streams' \in [made : Nat, active : Nat]
  BY <1>1, <1>2, <1>3, <1>4
<1>6. SessionsKeep /\ \A x \in Opens : ses'[x].closed = ses[x].closed /\ ses'[x].active = ses[x].active
  BY <1>1, <1>3, <1>5 DEF SessionsKeep
<1>7. WorldKeeps
  BY <1>1, <1>2, <1>5 DEF WorldKeeps, CallInv, AsrTypeOK
<1>8. \A b \in Attempts : Asr!Current(b)' <=> Asr!Current(b)
  BY <1>1, <1>2, <1>6, CurrentStays
<1>9. \A b \in Attempts : Asr!Current(b)' => ses'[map].retry = ses[map].retry /\ rtm'[map] = rtm[map]
  <2> SUFFICES ASSUME NEW b \in Attempts, Asr!Current(b)
               PROVE  ses'[map].retry = ses[map].retry /\ rtm'[map] = rtm[map]
    BY <1>8
  <2>1. map \in Opens /\ ses[map].retry = "none"
    BY <1>2, CurrentFacts DEF CallInv, AttemptsOK, CurrentOK
  <2>2. map # o
    BY <1>1, <2>1
  <2> QED BY <1>5, <2>1, <2>2
<1>10. CallInv'
  BY <1>1, <1>2, <1>6, <1>7, <1>8, <1>9, QuietStep
<1>11. DrainedOK'
  BY <1>1, <1>6, DrainedKeeps
<1> QED BY <1>10, <1>11 DEF AsrInv

LEMMA StartAgainKeeps == ASSUME AsrNumbers, AsrInv, NEW o \in Opens, Asr!StartAgain(o) PROVE AsrInv'
<1>1. /\ ses[o].retry = "backoff" /\ UNCHANGED <<map, runtime, streams, recorded, stored, published, drain>>
      /\ Asr!Unmade # {}
      /\ \/ /\ ~ses[o].closed /\ att' = Asr!Begun(att, Asr!First(Asr!Unmade), o, ses[o].to)
            /\ ses' = [ses EXCEPT ![o].active = Asr!First(Asr!Unmade), ![o].retry = "none"]
            /\ rtm' = [rtm EXCEPT ![o].bound = Asr!First(Asr!Unmade), ![o].stream = ses[o].to]
         \/ ses' = [ses EXCEPT ![o].retry = "none"] /\ UNCHANGED <<att, rtm>>
  BY DEF Asr!StartAgain
<1>2. /\ CallInv /\ ses \in [Opens -> Adapters] /\ att \in [Attempts -> Connections]
      /\ rtm \in [Opens -> [stream : Nat, bound : Nat]] /\ ses[o] \in Adapters /\ rtm[o] \in [stream : Nat, bound : Nat]
      /\ map \in {0} \cup Opens /\ runtime = map
  BY DEF AsrInv, CallInv, AsrTypeOK
<1>3. CASE ses' = [ses EXCEPT ![o].retry = "none"] /\ UNCHANGED <<att, rtm>>
  <2> DEFINE y == [ses[o] EXCEPT !.retry = "none"]
  <2>1. y \in Adapters /\ y.closed = ses[o].closed /\ y.active = ses[o].active /\ y.gaps = ses[o].gaps
    BY <1>2 DEF Adapters
  <2>2. ses' = [ses EXCEPT ![o] = y]
    BY <1>3
  <2> HIDE DEF y
  <2>3. ses' \in [Opens -> Adapters] /\ \A x \in Opens : ses'[x] = IF x = o THEN y ELSE ses[x]
    BY <1>2, <2>1, <2>2
  <2>4. SessionsKeep /\ \A x \in Opens : ses'[x].closed = ses[x].closed /\ ses'[x].active = ses[x].active
    BY <1>1, <2>1, <2>3 DEF SessionsKeep
  <2>5. WorldKeeps
    BY <1>1, <1>2, <1>3 DEF WorldKeeps, CallInv, AsrTypeOK
  <2>6. \A b \in Attempts : Asr!Current(b)' <=> Asr!Current(b)
    BY <1>2, <1>3, <2>4, CurrentStays
  <2>7. \A b \in Attempts : Asr!Current(b)' => ses'[map].retry = ses[map].retry /\ rtm'[map] = rtm[map]
    <3> SUFFICES ASSUME NEW b \in Attempts, Asr!Current(b)
                 PROVE  ses'[map].retry = ses[map].retry /\ rtm'[map] = rtm[map]
      BY <2>6
    <3>1. map \in Opens /\ ses[map].retry = "none"
      BY <1>2, CurrentFacts DEF CallInv, AttemptsOK, CurrentOK
    <3>2. map # o
      BY <1>1, <3>1
    <3> QED BY <1>3, <2>3, <3>1, <3>2
  <2>8. CallInv'
    BY <1>2, <1>3, <2>4, <2>5, <2>6, <2>7, QuietStep
  <2>9. DrainedOK'
    BY <1>1, <1>3, <2>4, DrainedKeeps
  <2> QED BY <2>8, <2>9 DEF AsrInv
<1>4. CASE /\ ~ses[o].closed /\ att' = Asr!Begun(att, Asr!First(Asr!Unmade), o, ses[o].to)
           /\ ses' = [ses EXCEPT ![o].active = Asr!First(Asr!Unmade), ![o].retry = "none"]
           /\ rtm' = [rtm EXCEPT ![o].bound = Asr!First(Asr!Unmade), ![o].stream = ses[o].to]
  <2>1. PICK a \in Attempts : a = Asr!First(Asr!Unmade) /\ att[a].of = 0
    <3>1. Asr!Unmade \in SUBSET Nat /\ Asr!Unmade \subseteq Attempts
      BY DEF Asr!Unmade, AsrNumbers
    <3>2. Asr!First(Asr!Unmade) \in Asr!Unmade
      BY <1>1, <3>1, AsrFirst
    <3> QED BY <3>1, <3>2 DEF Asr!Unmade, Asr!Made, Asr!None
  <2>2. o = map
    BY <1>2, <1>4 DEF CallInv, SessionsOK
  <2> DEFINE to == ses[o].to
             y == [ses[o] EXCEPT !.active = a, !.retry = "none"]
             z == [rtm[o] EXCEPT !.bound = a, !.stream = to]
  <2>3. att' = Asr!Begun(att, a, o, to) /\ ses' = [ses EXCEPT ![o] = y] /\ rtm' = [rtm EXCEPT ![o] = z]
    BY <1>4, <2>1
  <2>4. to \in Nat /\ a \in Nat \ {0}
    BY <1>2, <2>1 DEF Adapters, AsrNumbers
  <2> HIDE DEF to
  <2>5. /\ y \in Adapters /\ y.closed = ses[o].closed /\ y.active = a /\ y.gaps = ses[o].gaps /\ y.retry = "none"
        /\ z \in [stream : Nat, bound : Nat] /\ z.bound = a /\ z.stream = to
    BY <1>2, <2>4 DEF Adapters
  <2> HIDE DEF y, z
  <2>6. /\ ses' \in [Opens -> Adapters] /\ \A x \in Opens : ses'[x] = IF x = o THEN y ELSE ses[x]
        /\ rtm' \in [Opens -> [stream : Nat, bound : Nat]] /\ rtm'[o] = z
    BY <1>2, <2>3, <2>5
  <2>7. /\ att' \in [Attempts -> Connections] /\ FreshRecord(att'[a], o, to)
        /\ \A b \in Attempts \ {a} : att'[b] = att[b]
    BY <1>2, <2>3, <2>4, BegunFacts
  <2>8. AsrTypeOK'
    BY <1>1, <1>2, <2>6, <2>7 DEF CallInv, AsrTypeOK
  <2>9. SessionsOK'
    <3> SUFFICES ASSUME NEW x \in Opens
                 PROVE  (x # map => ses'[x].closed) /\ (ses'[x].active # 0 => att'[ses'[x].active].of = x)
      BY <1>1 DEF SessionsOK
    <3>1. CASE x = o
      BY <2>2, <2>5, <2>6, <2>7, <3>1 DEF FreshRecord
    <3>2. CASE x # o
      <4>1. ses'[x] = ses[x] /\ (x # map => ses[x].closed) /\ (ses[x].active # 0 => att[ses[x].active].of = x)
        BY <1>2, <2>6, <3>2 DEF CallInv, SessionsOK
      <4>2. ses[x].active \in {0} \cup Attempts
        BY <1>2 DEF Adapters
      <4>3. ses[x].active # 0 => ses[x].active # a
        BY <2>1, <4>1 DEF AsrNumbers
      <4> QED BY <2>7, <4>1, <4>2, <4>3
    <3> QED BY <3>1, <3>2
  <2>10. \A b \in Attempts : ~Asr!Current(b)
    <3> SUFFICES ASSUME NEW b \in Attempts, Asr!Current(b) PROVE FALSE
      OBVIOUS
    <3>1. ses[map].retry = "none"
      BY <1>2 DEF CallInv, AttemptsOK, CurrentOK
    <3> QED BY <1>1, <2>2, <3>1
  <2> DEFINE N == {a}
  <2>11. \A b \in Attempts \ N : SamePcm(att'[b], att[b]) /\ ~Asr!Current(b)'
    <3> SUFFICES ASSUME NEW b \in Attempts, b # a PROVE SamePcm(att'[b], att[b]) /\ ~Asr!Current(b)'
      OBVIOUS
    <3>1. att'[b] = att[b] /\ att[b].of \in {0} \cup Opens
      BY <1>2, <2>7 DEF Connections
    <3>2. CASE att[b].of = map
      <4>1. ses'[att'[b].of].active = a
        BY <2>2, <2>5, <2>6, <3>1, <3>2
      <4> QED BY <3>1, <4>1 DEF Asr!Current, Asr!Session, SamePcm
    <3>3. CASE att[b].of # map
      <4>1. att[b].of = 0 \/ ses'[att'[b].of].closed
        BY <1>2, <2>2, <2>6, <3>1, <3>3 DEF CallInv, SessionsOK
      <4> QED BY <3>1, <4>1 DEF Asr!Current, Asr!Session, Asr!Made, Asr!None, SamePcm
    <3> QED BY <3>2, <3>3
  <2>12. \A b \in Attempts \ N : att[b].of # 0 => \A n \in att[b].took \ 0 .. att[b].terminal : Noted(n)'
    <3> SUFFICES ASSUME NEW b \in Attempts, att[b].of # 0, NEW n \in att[b].took \ 0 .. att[b].terminal PROVE Noted(n)'
      OBVIOUS
    <3>1. Noted(n)
      BY <1>2, <2>10, OfAttempt DEF AccountedFor
    <3> QED BY <1>1, <2>2, <2>5, <2>6, <3>1 DEF Noted
  <2>13. N \in SUBSET Attempts
    OBVIOUS
  <2>14. \A b \in N : FreshRecord(att'[b], map', rtm'[map'].stream) /\ rtm'[map'].bound = b /\ ses'[map'].retry = "none"
    BY <1>1, <2>2, <2>5, <2>6, <2>7
  <2> HIDE DEF N
  <2>15. CallInv'
    BY <1>1, <1>2, <2>8, <2>9, <2>11, <2>12, <2>13, <2>14, BeginStep
  <2>16. DrainedOK'
    BY <1>1, <1>4, <2>2 DEF AsrInv, DrainedOK
  <2> QED BY <2>15, <2>16 DEF AsrInv
<1> QED BY <1>1, <1>3, <1>4

LEMMA RestartKeeps == ASSUME AsrNumbers, AsrInv, Asr!Restart PROVE AsrInv'
<1>1. /\ drain \in {"no", "draining"} /\ map' = 0 /\ runtime' = 0
      /\ ses' = [o \in Opens |-> IF o \in Asr!Unopened THEN ses[o] ELSE [Asr!NoSession EXCEPT !.lost = TRUE]]
      /\ att' = [a \in Attempts |-> IF a \in Asr!Made THEN [Asr!NoAttempt EXCEPT !.of = att[a].of, !.stream = att[a].stream,
                                                                               !.failed = TRUE, !.released = TRUE]
                                    ELSE att[a]]
      /\ drain' = IF drain = "draining" THEN "degraded" ELSE drain
      /\ UNCHANGED <<rtm, streams, recorded, stored, published>>
  BY DEF Asr!Restart, Asr!None
<1>2. CallInv /\ att \in [Attempts -> Connections]
  BY DEF AsrInv, CallInv, AsrTypeOK
<1>3. \A o \in Opens : ses'[o] \in Adapters /\ ses'[o].closed = TRUE /\ ses'[o].active = 0
  <2> SUFFICES ASSUME NEW o \in Opens PROVE ses'[o] \in Adapters /\ ses'[o].closed = TRUE /\ ses'[o].active = 0
    OBVIOUS
  <2> DEFINE n == Asr!NoSession
             l == [n EXCEPT !.lost = TRUE]
  <2>1. n \in Adapters /\ n.closed = TRUE /\ n.active = 0
    BY DEF Asr!NoSession, Asr!None, Adapters
  <2>2. ses'[o] = n \/ ses'[o] = l
    BY <1>1 DEF Asr!Unopened
  <2> HIDE DEF n
  <2>3. l \in Adapters /\ l.closed = TRUE /\ l.active = 0
    BY <2>1 DEF Adapters
  <2> HIDE DEF l
  <2> QED BY <2>1, <2>2, <2>3
<1>4. \A b \in Attempts : /\ att[b].of # 0 => att'[b] \in Connections /\ FramesOK(att'[b], recorded) /\ att'[b].took = {}
                                              /\ att'[b].ending = FALSE
                          /\ att[b].of = 0 => att'[b] = att[b]
  <2> SUFFICES ASSUME NEW b \in Attempts
               PROVE  /\ att[b].of # 0 => att'[b] \in Connections /\ FramesOK(att'[b], recorded) /\ att'[b].took = {}
                                          /\ att'[b].ending = FALSE
                      /\ att[b].of = 0 => att'[b] = att[b]
    OBVIOUS
  <2>1. att[b] \in Connections
    BY <1>2
  <2>2. att[b].of \in {0} \cup Opens /\ att[b].stream \in Nat /\ recorded \in Nat
    BY <1>2, <2>1 DEF Connections, CallInv, AsrTypeOK
  <2>3. CASE att[b].of = 0
    BY <1>1, <2>3 DEF Asr!Made, Asr!None
  <2>4. CASE att[b].of # 0
    <3> DEFINE p == [Asr!NoAttempt EXCEPT !.of = att[b].of, !.stream = att[b].stream]
               q == [p EXCEPT !.failed = TRUE]
               r == [q EXCEPT !.released = TRUE]
    <3>1. att'[b] = r
      BY <1>1, <2>4 DEF Asr!Made, Asr!None
    <3>2. FreshRecord(p, att[b].of, att[b].stream)
      BY <2>2, BlankFacts, OwnedFacts
    <3>3. /\ p \in Connections /\ p.took = {} /\ p.ending = FALSE /\ p.terminal = -1 /\ p.accepted = -1
          /\ Len(p.queue) = 0 /\ Len(p.sending) = 0
      BY <3>2 DEF FreshRecord
    <3> HIDE DEF p
    <3>4. /\ q \in Connections /\ q.took = p.took /\ q.ending = p.ending /\ q.terminal = p.terminal
          /\ q.accepted = p.accepted /\ q.queue = p.queue /\ q.sending = p.sending
      BY <3>3 DEF Connections
    <3> HIDE DEF q
    <3>5. /\ r \in Connections /\ r.took = q.took /\ r.ending = q.ending /\ r.terminal = q.terminal
          /\ r.accepted = q.accepted /\ r.queue = q.queue /\ r.sending = q.sending
      BY <3>4 DEF Connections
    <3> HIDE DEF r
    <3>6. FramesOK(r, recorded)
      BY <2>2, <3>3, <3>4, <3>5 DEF FramesOK, Sorted
    <3> QED BY <2>4, <3>1, <3>3, <3>4, <3>5, <3>6
  <2> QED BY <2>3, <2>4
<1>5. AsrTypeOK'
  <2>1. ses' \in [Opens -> Adapters]
    BY <1>1, <1>3
  <2>2. att' \in [Attempts -> Connections]
    BY <1>1, <1>2, <1>4
  <2> QED BY <1>1, <1>2, <2>1, <2>2 DEF CallInv, AsrTypeOK
<1>6. SessionsOK'
  BY <1>3 DEF SessionsOK
<1>7. ASSUME NEW b \in Attempts PROVE ~Asr!Current(b)'
  <2>1. att'[b].of \in {0} \cup Opens
    BY <1>5 DEF AsrTypeOK, Connections
  <2> QED BY <1>3, <2>1 DEF Asr!Current, Asr!Made, Asr!None, Asr!Session
<1>8. AttemptsOK'
  <2> SUFFICES ASSUME NEW b \in Attempts PROVE FramesOK(att'[b], recorded') /\ CurrentOK(b)' /\ AccountedFor(b)'
    BY DEF AttemptsOK
  <2>1. FramesOK(att'[b], recorded')
    BY <1>1, <1>2, <1>4, OfAttempt
  <2>2. CurrentOK(b)'
    BY <1>7 DEF CurrentOK
  <2>3. AccountedFor(b)'
    BY <1>4 DEF AccountedFor
  <2> QED BY <2>1, <2>2, <2>3
<1>9. EndingOK'
  <2>1. \A b \in Attempts : att'[b].ending => att[b].ending
    BY <1>4
  <2>2. drain' = "no" <=> drain = "no"
    BY <1>1
  <2> QED BY <1>2, <1>7, <2>1, <2>2 DEF CallInv, EndingOK
<1>10. DrainedOK'
  BY <1>1 DEF DrainedOK
<1> QED BY <1>5, <1>6, <1>8, <1>9, <1>10 DEF AsrInv, CallInv

LEMMA OpenKeeps == ASSUME AsrNumbers, AsrInv, Asr!Open PROVE AsrInv'
<1> DEFINE o == Asr!First(Asr!Unopened)
           a == Asr!First(Asr!Unmade)
           old == IF map = 0 THEN 0 ELSE ses[map].active
           opened == [Asr!NoSession EXCEPT !.closed = FALSE, !.gaps = Asr!Inherited(map)]
           c == IF map = 0 THEN ses ELSE Asr!Cancelled(map)
           stream == streams.made + 1
           lost == (runtime = 0 /\ recorded > 0)
<1>1. /\ drain = "no" /\ Asr!Unopened # {} /\ Asr!Unmade # {}
      /\ streams' = [made |-> stream, active |-> stream] /\ map' = o /\ runtime' = o
      /\ \/ /\ ses' = [c EXCEPT ![o] = [opened EXCEPT !.active = a, !.lost = lost]]
            /\ att' = Asr!Begun(Asr!Fenced(old), a, o, stream)
            /\ rtm' = [rtm EXCEPT ![o] = [stream |-> stream, bound |-> a]]
         \/ ses' = [c EXCEPT ![o] = opened] /\ att' = Asr!Fenced(old) /\ rtm' = [rtm EXCEPT ![o].stream = stream]
      /\ UNCHANGED <<recorded, stored, published, drain>>
  BY DEF Asr!Open, Asr!StreamRotated, Asr!None
<1>2. /\ CallInv /\ ses \in [Opens -> Adapters] /\ att \in [Attempts -> Connections]
      /\ rtm \in [Opens -> [stream : Nat, bound : Nat]] /\ map \in {0} \cup Opens /\ stream \in Nat
  BY DEF AsrInv, CallInv, AsrTypeOK
<1>3. o \in Opens
  <2>1. Asr!Unopened \in SUBSET Nat /\ Asr!Unopened \subseteq Opens
    BY DEF Asr!Unopened, AsrNumbers
  <2> QED BY <1>1, <2>1, AsrFirst
<1>4. a \in Attempts /\ att[a].of = 0
  <2>1. Asr!Unmade \in SUBSET Nat /\ Asr!Unmade \subseteq Attempts
    BY DEF Asr!Unmade, AsrNumbers
  <2>2. Asr!First(Asr!Unmade) \in Asr!Unmade
    BY <1>1, <2>1, AsrFirst
  <2> QED BY <2>1, <2>2 DEF Asr!Unmade, Asr!Made, Asr!None
<1> HIDE DEF a, o
<1>5. /\ c \in [Opens -> Adapters]
      /\ \A x \in Opens : c[x].closed /\ c[x].active = ses[x].active
      /\ map # 0 => ses[map].gaps \subseteq c[map].gaps /\ (ses[map].active # 0 => Asr!Unsent(ses[map].active) \subseteq c[map].gaps)
  <2>1. CASE map = 0
    BY <1>2, <2>1 DEF CallInv, SessionsOK, AsrNumbers
  <2>2. CASE map # 0
    BY <1>2, <2>2, CancelledFacts DEF CallInv, SessionsOK
  <2> QED BY <2>1, <2>2
<1>6. old \in {0} \cup Attempts
  BY <1>2 DEF Adapters
<1> DEFINE G == Asr!Inherited(map)
<1>7. G \in SUBSET Int /\ (map # 0 => G = c[map].gaps)
  <2>1. map # 0 => G = c[map].gaps
    BY DEF Asr!Inherited, Asr!None
  <2>2. map = 0 => G = {}
    BY DEF Asr!Inherited, Asr!None
  <2> QED BY <1>2, <1>5, <2>1, <2>2 DEF Adapters
<1>8. opened \in Adapters /\ opened.closed = FALSE /\ opened.active = 0 /\ opened.gaps = G /\ opened.retry = "none"
  <2> DEFINE n == Asr!NoSession
             m == [n EXCEPT !.closed = FALSE]
  <2>1. n \in Adapters /\ n.active = 0 /\ n.retry = "none"
    BY DEF Asr!NoSession, Asr!None, Adapters
  <2>2. opened = [m EXCEPT !.gaps = G]
    OBVIOUS
  <2> HIDE DEF n, G
  <2>3. m \in Adapters /\ m.closed = FALSE /\ m.active = 0 /\ m.retry = "none"
    BY <2>1 DEF Adapters
  <2> HIDE DEF m, opened
  <2>4. [m EXCEPT !.gaps = G] \in Adapters /\ [m EXCEPT !.gaps = G].closed = FALSE /\ [m EXCEPT !.gaps = G].active = 0
        /\ [m EXCEPT !.gaps = G].gaps = G /\ [m EXCEPT !.gaps = G].retry = "none"
    BY <1>7, <2>3 DEF Adapters
  <2> QED BY <2>2, <2>4
<1> HIDE DEF G, opened
<1> DEFINE F == Asr!Fenced(old)
<1>9. F \in [Attempts -> Connections] /\ \A b \in Attempts : SamePcm(F[b], att[b])
  <2>1. CASE old = 0
    <3>1. F = att
      BY <2>1 DEF Asr!Fenced, Asr!None
    <3> QED BY <1>2, <3>1 DEF SamePcm
  <2>2. CASE old # 0
    <3>1. PICK d \in Attempts : d = old
      BY <1>6, <2>2
    <3> DEFINE r == [att[d] EXCEPT !.failed = TRUE, !.released = TRUE]
    <3>2. F = [att EXCEPT ![d] = r]
      BY <1>2, <3>1, FencedFacts
    <3>3. r \in Connections /\ SamePcm(r, att[d])
      <4>1. att[d] \in Connections
        BY <1>2
      <4> QED BY <4>1 DEF SamePcm, Connections
    <3> HIDE DEF r
    <3>4. \A b \in Attempts : F[b] = IF b = d THEN r ELSE att[b]
      BY <1>2, <3>2
    <3> QED BY <1>2, <3>2, <3>3, <3>4 DEF SamePcm
  <2> QED BY <2>1, <2>2
<1> HIDE DEF c, old, stream, F, lost
(* Every frame unaccounted for before is in the gaps the new session has.  *)
<1>10. \A b \in Attempts : att[b].of # 0 => \A n \in att[b].took \ 0 .. att[b].terminal : n \in G
  <2> SUFFICES ASSUME NEW b \in Attempts, att[b].of # 0, NEW n \in att[b].took \ 0 .. att[b].terminal PROVE n \in G
    OBVIOUS
  <2>1. CASE Asr!Current(b)
    <3>1. map # 0 /\ b = ses[map].active /\ b # 0
      BY <1>2, <2>1, CurrentFacts DEF AsrNumbers
    <3>2. n \in Asr!Unsent(b)
      BY <1>2, UnsentFacts
    <3> QED BY <1>5, <1>7, <3>1, <3>2
  <2>2. CASE ~Asr!Current(b)
    <3>1. Noted(n)
      BY <1>2, <2>2, OfAttempt DEF AccountedFor
    <3> QED BY <1>5, <1>7, <3>1 DEF Noted
  <2> QED BY <2>1, <2>2
(* The two ways an open ends.                                              *)
<1>11. PICK y, z, N :
         /\ y \in Adapters /\ y.closed = FALSE /\ y.gaps = G /\ y.retry = "none"
         /\ z \in [stream : Nat, bound : Nat]
         /\ ses' = [c EXCEPT ![o] = y] /\ rtm' = [rtm EXCEPT ![o] = z]
         /\ att' \in [Attempts -> Connections] /\ N \in SUBSET Attempts
         /\ \A b \in Attempts \ N : SamePcm(att'[b], att[b])
         /\ \A b \in Attempts : y.active = b <=> b \in N
         /\ y.active \in {0} \cup N
         /\ \A b \in N : FreshRecord(att'[b], o, z.stream) /\ z.bound = b /\ att[b].of = 0
  <2>1. CASE /\ ses' = [c EXCEPT ![o] = [opened EXCEPT !.active = a, !.lost = lost]]
             /\ att' = Asr!Begun(F, a, o, stream)
             /\ rtm' = [rtm EXCEPT ![o] = [stream |-> stream, bound |-> a]]
    <3> DEFINE x == [opened EXCEPT !.active = a]
               y == [x EXCEPT !.lost = lost]
               z == [stream |-> stream, bound |-> a]
               N == {a}
    <3>1. ses' = [c EXCEPT ![o] = y] /\ rtm' = [rtm EXCEPT ![o] = z]
      BY <2>1
    <3>2. x \in Adapters /\ x.closed = FALSE /\ x.active = a /\ x.gaps = G /\ x.retry = "none"
      BY <1>4, <1>8 DEF Adapters
    <3>3. lost \in BOOLEAN
      BY DEF lost
    <3> HIDE DEF x
    <3>4. y \in Adapters /\ y.closed = FALSE /\ y.active = a /\ y.gaps = G /\ y.retry = "none"
      BY <3>2, <3>3 DEF Adapters
    <3>5. z \in [stream : Nat, bound : Nat] /\ z.stream = stream /\ z.bound = a
      BY <1>2, <1>4 DEF AsrNumbers
    <3>6. att' \in [Attempts -> Connections] /\ FreshRecord(att'[a], o, stream) /\ \A b \in Attempts \ {a} : att'[b] = F[b]
      BY <1>2, <1>3, <1>4, <1>9, <2>1, BegunFacts
    <3> HIDE DEF y, z
    <3>7. N \in SUBSET Attempts /\ \A b : b \in N <=> b = a
      BY <1>4
    <3> HIDE DEF N
    <3>8. \A b \in Attempts \ N : SamePcm(att'[b], att[b])
      BY <1>9, <3>6, <3>7
    <3>9. \A b \in N : FreshRecord(att'[b], o, z.stream) /\ z.bound = b /\ att[b].of = 0
      BY <1>4, <3>5, <3>6, <3>7
    <3>10. y.active \in {0} \cup N /\ \A b \in Attempts : y.active = b <=> b \in N
      BY <3>4, <3>7
    <3>11. att' \in [Attempts -> Connections]
      BY <3>6
    <3> WITNESS y, z, N
    <3> QED BY <3>1, <3>4, <3>5, <3>7, <3>8, <3>9, <3>10, <3>11
  <2>2. CASE ses' = [c EXCEPT ![o] = opened] /\ att' = F /\ rtm' = [rtm EXCEPT ![o].stream = stream]
    <3> DEFINE z == [rtm[o] EXCEPT !.stream = stream]
               N == {}
    <3>1. rtm' = [rtm EXCEPT ![o] = z] /\ z \in [stream : Nat, bound : Nat]
      BY <1>2, <1>3, <2>2
    <3>2. N \in SUBSET Attempts /\ \A b : b \notin N
      OBVIOUS
    <3> HIDE DEF z, N
    <3> QED BY <1>8, <1>9, <2>2, <3>1, <3>2 DEF AsrNumbers
  <2> QED BY <1>1, <2>1, <2>2 DEF F, c, old, stream, lost
<1>12. /\ ses' \in [Opens -> Adapters] /\ \A x \in Opens : ses'[x] = IF x = o THEN y ELSE c[x]
       /\ rtm' \in [Opens -> [stream : Nat, bound : Nat]] /\ rtm'[o] = z
  BY <1>2, <1>3, <1>5, <1>11
<1>13. AsrTypeOK'
  BY <1>1, <1>2, <1>3, <1>11, <1>12 DEF CallInv, AsrTypeOK
<1>14. SessionsOK'
  <2> SUFFICES ASSUME NEW x \in Opens
               PROVE  (x # o => ses'[x].closed) /\ (ses'[x].active # 0 => att'[ses'[x].active].of = x)
    BY <1>1 DEF SessionsOK
  <2>1. CASE x = o
    BY <1>11, <1>12, <2>1 DEF FreshRecord
  <2>2. CASE x # o
    <3>1. ses'[x].closed /\ ses'[x].active = ses[x].active /\ (ses[x].active # 0 => att[ses[x].active].of = x)
      BY <1>2, <1>5, <1>12, <2>2 DEF CallInv, SessionsOK
    <3>2. ses[x].active \in {0} \cup Attempts
      BY <1>2 DEF Adapters
    <3>3. ses[x].active # 0 => ses[x].active \notin N
      BY <1>11, <3>1 DEF AsrNumbers
    <3> QED BY <1>11, <2>2, <3>1, <3>2, <3>3 DEF SamePcm
  <2> QED BY <2>1, <2>2
<1>15. ASSUME NEW b \in Attempts \ N PROVE ~Asr!Current(b)'
  <2>1. att'[b].of \in {0} \cup Opens
    BY <1>11 DEF Connections
  <2>2. ses'[o].active # b
    BY <1>3, <1>11, <1>12
  <2>3. att'[b].of \in Opens /\ att'[b].of # o => ses'[att'[b].of].closed
    BY <1>5, <1>12
  <2> QED BY <2>1, <2>2, <2>3 DEF Asr!Current, Asr!Made, Asr!None, Asr!Session
<1>16. \A b \in Attempts \ N : att[b].of # 0 => \A n \in att[b].took \ 0 .. att[b].terminal : Noted(n)'
  <2>1. ses'[o].gaps = G /\ o # 0
    BY <1>3, <1>11, <1>12 DEF AsrNumbers
  <2> QED BY <1>1, <1>10, <2>1 DEF Noted
<1>17. \A b \in N : FreshRecord(att'[b], map', rtm'[map'].stream) /\ rtm'[map'].bound = b /\ ses'[map'].retry = "none"
  BY <1>1, <1>3, <1>11, <1>12
<1>18. CallInv'
  BY <1>1, <1>2, <1>11, <1>13, <1>14, <1>15, <1>16, <1>17, BeginStep
<1>19. DrainedOK'
  BY <1>1 DEF DrainedOK
<1> QED BY <1>18, <1>19 DEF AsrInv

LEMMA AsrInitInv == ASSUME AsrNumbers, Asr!Init PROVE AsrInv
<1>1. /\ ses = [o \in Opens |-> Asr!NoSession] /\ att = [a \in Attempts |-> Asr!NoAttempt] /\ map = 0 /\ runtime = 0
      /\ rtm = [o \in Opens |-> [stream |-> 0, bound |-> 0]] /\ streams = [made |-> 0, active |-> 0]
      /\ recorded = 0 /\ drain = "no"
  BY DEF Asr!Init, Asr!None
<1>2. Asr!NoSession \in Adapters /\ Asr!NoSession.closed = TRUE /\ Asr!NoSession.active = 0
  BY DEF Asr!NoSession, Asr!None, Adapters
<1>3. BlankRecord(Asr!NoAttempt) /\ Asr!NoAttempt.of = 0
  BY BlankFacts DEF Asr!NoAttempt, Asr!None
<1> DEFINE r == Asr!NoAttempt
<1>4. /\ \A a \in Attempts : att[a] = r
      /\ r \in Connections /\ r.of = 0 /\ r.ending = FALSE /\ r.took = {} /\ r.terminal = -1 /\ r.accepted = -1
      /\ Len(r.queue) = 0 /\ Len(r.sending) = 0
  BY <1>1, <1>3 DEF BlankRecord
<1> HIDE DEF r
<1>5. AsrTypeOK
  <2>1. att \in [Attempts -> Connections]
    BY <1>1, <1>4
  <2>2. ses \in [Opens -> Adapters]
    BY <1>1, <1>2
  <2> QED BY <1>1, <2>1, <2>2 DEF AsrTypeOK
<1>6. SessionsOK
  BY <1>1, <1>2 DEF SessionsOK
<1>7. \A a \in Attempts : ~Asr!Current(a)
  BY <1>4 DEF Asr!Current, Asr!Made, Asr!None
<1>8. FramesOK(r, recorded)
  BY <1>1, <1>4 DEF FramesOK, Sorted
<1>9. AttemptsOK
  BY <1>1, <1>4, <1>7, <1>8 DEF AttemptsOK, CurrentOK, AccountedFor
<1>10. EndingOK /\ DrainedOK
  BY <1>1, <1>4, <1>7 DEF EndingOK, DrainedOK
<1> QED BY <1>5, <1>6, <1>9, <1>10 DEF AsrInv, CallInv

LEMMA AsrNextKeeps == ASSUME AsrNumbers, AsrInv, [Asr!Next]_(Asr!vars) PROVE AsrInv'
<1>1. CASE Asr!Open \/ Asr!Accept \/ Asr!Refuse \/ Asr!Drain \/ Asr!Revoke \/ Asr!Cancel \/ Asr!Restart
  BY <1>1, OpenKeeps, AcceptKeeps, RefuseKeeps, DrainKeeps, CancelKeeps, RestartKeeps
<1>2. ASSUME NEW o \in Opens, Asr!Rotate(o) \/ Asr!StartAgain(o) PROVE AsrInv'
  BY <1>2, RotateKeeps, StartAgainKeeps
<1>3. ASSUME NEW a \in Attempts,
             \/ Asr!Ready(a) \/ Asr!ConnectionFails(a) \/ Asr!Send(a) \/ Asr!SendDone(a) \/ Asr!SendFails(a)
             \/ Asr!SendEnd(a) \/ Asr!Final(a) \/ Asr!Drained(a) \/ Asr!DrainFails(a)
      PROVE  AsrInv'
  BY <1>3, AsrReadyKeeps, ConnectionFailsKeeps, SendKeeps, SendDoneKeeps, SendFailsKeeps, SendEndKeeps, FinalKeeps,
     DrainedKeepsAll, DrainFailsKeeps
<1>4. ASSUME NEW a \in Attempts, NEW s \in Sentences,
             Asr!Deliver(a, s) \/ Asr!Ingest(a, s) \/ Asr!IngestFails(a, s) \/ Asr!Publish(a, s)
      PROVE  AsrInv'
  BY <1>4, MovesOnKeeps, IngestFailsKeeps
<1>5. CASE UNCHANGED Asr!vars
  BY <1>5 DEF Asr!vars, AsrInv, CallInv, AsrTypeOK, SessionsOK, AttemptsOK, FramesOK, CurrentOK, ResultsOK, AccountedFor,
              Held, Noted, EndingOK, DrainedOK, Asr!Current, Asr!Made, Asr!Session
<1> QED BY <1>1, <1>2, <1>3, <1>4, <1>5 DEF Asr!Next

(* Every state of the adapter satisfies the invariant.                      *)
THEOREM AsrInvariance == ASSUME AsrNumbers PROVE Asr!Spec => []AsrInv
<1>1. Asr!Init => AsrInv
  BY AsrInitInv
<1>2. AsrInv /\ [Asr!Next]_(Asr!vars) => AsrInv'
  BY AsrNextKeeps
<1> QED BY <1>1, <1>2, PTL DEF Asr!Spec

(* A frame the adapter took waits in the current attempt, was sent, or is a *)
(* gap of the session the adapter holds.                                    *)
THEOREM AccountsForEveryFrame == ASSUME AsrNumbers PROVE Asr!Spec => []Asr!AccountedPcm
<1>1. AsrInv => Asr!AccountedPcm
  BY DEF AsrInv, CallInv, AttemptsOK, AccountedFor, Held, Noted, Asr!AccountedPcm, Asr!Made, Asr!None
<1> QED BY <1>1, AsrInvariance, PTL

(* What is called drained was ingested and published.                       *)
THEOREM DrainsWhatItIngested == ASSUME AsrNumbers PROVE Asr!Spec => []Asr!DrainedIsIngested
<1>1. AsrInv => Asr!DrainedIsIngested
  <2> SUFFICES ASSUME AsrInv, drain = "drained", NEW a \in Attempts, ses[map].active = a, NEW s \in Sentences
               PROVE  att[a].results[s] = "none" \/ <<a, s>> \in stored \cap published
    BY DEF Asr!DrainedIsIngested, Asr!Made
  <2> QED BY DEF AsrInv, DrainedOK, AsrNumbers
<1> QED BY <1>1, AsrInvariance, PTL

=============================================================================
