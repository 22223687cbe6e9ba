---------------------------- MODULE SpeakerRoles ----------------------------
(***************************************************************************)
(* Who said it: the speaker streams of a session, their calibration, the   *)
(* role an ingested segment gets, the corrections of the interviewer, one  *)
(* segment or a range of a label at a time, and the transcript pages the   *)
(* interviewer corrects from.                                              *)
(*                                                                         *)
(* Every operation is one transaction under the lock of the session, and   *)
(* the two calibration markers also run on the queue of the runtime, so    *)
(* that the audio boundary they store is exact.  Time is counted in        *)
(* frames.  A request sent again is answered from the idempotency record   *)
(* and changes nothing; it is left out, with the texts, the access checks, *)
(* which refuse without a change, and the results without a label, which   *)
(* have no role and are in no range.                                       *)
(***************************************************************************)
EXTENDS Integers, FiniteSets, FiniteSetsExt, Functions, Sequences

CONSTANTS Labels,     \* speaker labels of the provider
          Roles,      \* elder and interviewer
          Ids,        \* the ids of the transcript segments, random, in the order they are drawn
          MaxAudio,   \* frames
          MaxStreams, \* speaker streams
          MaxAttempts,\* calibration attempts
          MaxRevision,\* operations that count the role revision up
          Previews    \* remap previews

VARIABLES
  audio,    \* nextAudioSequence
  streams,  \* where every speaker stream began; the last one is active
  attempts, \* speaker_calibration_attempts
  mappings, \* the current mapping of every label of every stream
  segs,     \* transcript_segments
  revision, \* speakerRoleRevision of the session
  previews, \* speaker_remap_previews
  reader    \* a client that reads the transcript page by page
vars == <<audio, streams, attempts, mappings, segs, revision, previews, reader>>

NoRole == "unknown"
Segments == Range(Ids)
Open == -1
NoSegment == [stream |-> 0]
NoPreview == [st |-> "none"]
Never == -1
NoReader == [reading |-> FALSE, after |-> [start |-> Never, id |-> 0], due |-> {}, item |-> [id |-> 0]]

Init ==
  /\ audio = 0
  /\ streams = <<0>> /\ attempts = <<>>
  /\ mappings = [s \in 1 .. MaxStreams |-> [l \in Labels |-> NoRole]]
  /\ segs = [i \in Segments |-> NoSegment]
  /\ revision = 0
  /\ previews = [p \in Previews |-> NoPreview]
  /\ reader = NoReader

Stored == {i \in Segments : segs[i] # NoSegment}
Active == Len(streams)
OfStream(s) == {k \in DOMAIN attempts : attempts[k].stream = s}
Latest(s) == Max(OfStream(s))

\* projectTrustedSpeakerRole.
Effective(g) == IF g.corrected # "none" THEN g.corrected ELSE g.original

Stamped(g, role, rev) == [g EXCEPT !.corrected = role, !.revision = rev]

----------------------------------------------------------------------------
(* Audio, streams and ingestion.                                            *)

Frame ==
  /\ audio < MaxAudio
  /\ audio' = audio + 1
  /\ UNCHANGED <<streams, attempts, mappings, segs, revision, previews, reader>>

\* A new voice of the provider: the stream before it is closed, whatever its calibration is doing.
Rotate ==
  /\ Active < MaxStreams
  /\ streams' = Append(streams, audio)
  /\ UNCHANGED <<audio, attempts, mappings, segs, revision, previews, reader>>

\* The calibration attempts of the stream whose audio the result is of.
Overlaps(k, from, to) == attempts[k].start < to /\ (attempts[k].end = Open \/ attempts[k].end > from)
During(s, from, to) == {k \in OfStream(s) : Overlaps(k, from, to)}

\* The sentences of a voice follow one another, several of them in a frame at times, and are not
\* ahead of the audio.
Heard(s) == Max({segs[i].from : i \in {j \in Stored : segs[j].stream = s}} \cup {streams[s]})

\* A final of the active stream: its role is the mapping of its label, its revision the session's.
Ingest(label) ==
  LET s == Active
      i == Ids[Cardinality(Stored) + 1]
  IN  /\ Stored # Segments
      /\ \E from \in Heard(s) .. audio - 1 : \E to \in from + 1 .. audio :
           segs' = [segs EXCEPT ![i] =
             [stream |-> s, label |-> label, from |-> from, to |-> to,
              of |-> Max(During(s, from, to) \cup {0}),
              original |-> mappings[s][label],
              corrected |-> "none", revision |-> revision, single |-> Never]]
      /\ UNCHANGED <<audio, streams, attempts, mappings, revision, previews, reader>>

----------------------------------------------------------------------------
(* Calibration of the active stream.                                        *)

Boundary == audio

\* begin: a new attempt unless the stream's latest is collecting or confirmed.
BeginCalibration ==
  /\ Len(attempts) < MaxAttempts
  /\ OfStream(Active) # {} => attempts[Latest(Active)].st = "ended"
  /\ attempts' = Append(attempts, [stream |-> Active, start |-> Boundary, end |-> Open, st |-> "collecting"])
  /\ UNCHANGED <<audio, streams, mappings, segs, revision, previews, reader>>

Collecting(k) == k \in OfStream(Active) /\ attempts[k].st = "collecting"
Resolved(k, st) == [attempts EXCEPT ![k].st = st, ![k].end = audio]

\* resolve with fail or skip: the stream may be calibrated again.
EndCalibration(k) ==
  /\ Collecting(k)
  /\ attempts' = Resolved(k, "ended")
  /\ UNCHANGED <<audio, streams, mappings, segs, revision, previews, reader>>

\* resolve with confirm: two labels heard during the attempt, one for each role.
Observed(k) == {segs[i].label : i \in {j \in Stored : segs[j].of = k}}
ConfirmCalibration(k) ==
  /\ Collecting(k) /\ revision < MaxRevision
  /\ \E label \in Injection(Roles, Observed(k)) :
       mappings' = [mappings EXCEPT ![Active] =
         [l \in Labels |-> IF l \in Range(label) THEN AntiFunction(label)[l] ELSE @[l]]]
  /\ attempts' = Resolved(k, "confirmed")
  /\ revision' = revision + 1
  /\ UNCHANGED <<audio, streams, segs, previews, reader>>

----------------------------------------------------------------------------
(* Corrections.                                                             *)

\* isCurrentSingleCorrection.
Individual(g) == g.single = g.revision

\* correctOne: with the revision of the segment as the page on the screen showed it.
CorrectOne(role) ==
  LET item == reader.item IN
  /\ item.id # 0
  /\ revision < MaxRevision
  /\ segs[item.id].revision = item.revision
  /\ segs' = [segs EXCEPT ![item.id] =
       [@ EXCEPT !.corrected = role, !.revision = revision + 1, !.single = revision + 1]]
  /\ revision' = revision + 1
  /\ UNCHANGED <<audio, streams, attempts, mappings, previews, reader>>

Before(i, j) == segs[i].from < segs[j].from \/ (segs[i].from = segs[j].from /\ i <= j)
Matches(i, s, label) == segs[i].stream = s /\ segs[i].label = label
\* readCandidates: the segments of the label from the first to the last.
Candidates(q) == {i \in Stored : Matches(i, q.stream, q.label) /\ Before(q.first, i) /\ Before(i, q.last)}
Membership(q) == {[id |-> i, excluded |-> Individual(segs[i]), revision |-> segs[i].revision] : i \in Candidates(q)}
Included(members) == {mem.id : mem \in {x \in members : ~x.excluded}}

\* preview: neither end of the range is an individual correction.
Preview(p) ==
  /\ previews[p].st = "none"
  /\ \E i, j \in Stored, role \in Roles :
       LET q == [st |-> "active", stream |-> segs[i].stream, label |-> segs[i].label, first |-> i, last |-> j,
                 role |-> role, members |-> {}]
       IN  /\ Matches(j, q.stream, q.label) /\ Before(i, j)
           /\ ~Individual(segs[i]) /\ ~Individual(segs[j])
           /\ previews' = [previews EXCEPT ![p] = [q EXCEPT !.members = Membership(q)]]
  /\ UNCHANGED <<audio, streams, attempts, mappings, segs, revision, reader>>

\* The preview is executed as it was shown: same members, same exclusions, same revisions.
\* Fault: only the ids of the candidates are compared.
Fresh_Ids(q) == {mem.id : mem \in q.members} = Candidates(q)
Fresh(q) == q.members = Membership(q)

Execute(p) ==
  LET q == previews[p]
  IN  /\ q.st = "active" /\ Fresh(q) /\ revision < MaxRevision
      /\ segs' = [i \in Segments |-> IF i \in Included(q.members) THEN Stamped(segs[i], q.role, revision + 1) ELSE segs[i]]
      /\ revision' = revision + 1
      /\ previews' = [previews EXCEPT ![p] = [st |-> "executed"]]
      /\ UNCHANGED <<audio, streams, attempts, mappings, reader>>

----------------------------------------------------------------------------
(* listFinalSegments, a page at a time.                                     *)

Conversation(i) == i \in Stored /\ segs[i].of = 0
After(i, c) == segs[i].from > c.start \/ (segs[i].from = c.start /\ i > c.id)
Shown(i) == [id |-> i, revision |-> segs[i].revision, role |-> Effective(segs[i])]

\* The reader goes from page to page until there is no next cursor, and what the interviewer works
\* on is the page on the screen.
ReadPage ==
  LET rest == {i \in Stored : Conversation(i) /\ After(i, reader.after)}
      i == CHOOSE x \in rest : \A y \in rest : Before(x, y)
      due == IF reader = NoReader THEN rest ELSE reader.due
  IN  /\ rest # {} /\ (reader = NoReader \/ reader.reading)
      /\ reader' = [reading |-> rest # {i}, after |-> [start |-> segs[i].from, id |-> i],
                    due |-> due \ {i}, item |-> Shown(i)]
      /\ UNCHANGED <<audio, streams, attempts, mappings, segs, revision, previews>>

Next ==
  \/ Frame \/ Rotate \/ BeginCalibration \/ ReadPage
  \/ \E label \in Labels : Ingest(label)
  \/ \E k \in DOMAIN attempts : EndCalibration(k) \/ ConfirmCalibration(k)
  \/ \E role \in Roles : CorrectOne(role)
  \/ \E p \in Previews : Preview(p) \/ Execute(p)

Spec == Init /\ [][Next]_vars

----------------------------------------------------------------------------
TypeOK ==
  /\ audio \in 0 .. MaxAudio
  /\ Active \in 1 .. MaxStreams /\ Len(attempts) <= MaxAttempts
  /\ \A s \in 1 .. MaxStreams, l \in Labels : mappings[s][l] \in Roles \cup {NoRole}
  /\ \A i \in Stored : segs[i].revision <= revision /\ Effective(segs[i]) \in Roles \cup {NoRole}
  /\ revision \in 0 .. MaxRevision
  /\ \A p \in Previews : previews[p].st \in {"none", "active", "executed"}

\* A correction the interviewer made to one segment is only undone by another one: a range remap
\* previewed before or after it, and calibrations, leave it alone (exclude_individual_corrections).
SingleStandsStep ==
  \A i \in Stored : Individual(segs[i]) /\ Effective(segs'[i]) # Effective(segs[i]) => Individual(segs'[i])

\* A page on the screen with the revision the segment has now shows the role it has now, so the
\* revision alone tells correctOne that nobody changed what the interviewer looked at.
ShownIsCurrent ==
  LET item == reader.item IN
  item.id # 0 /\ segs[item.id].revision = item.revision => Effective(segs[item.id]) = item.role
=============================================================================
