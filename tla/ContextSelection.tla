---- MODULE ContextSelection ----
(***************************************************************************)
(* The P4 director context as a pure algorithm: members of the sections    *)
(* are put in one canonical order, a manifest of what the context holds is *)
(* frozen beside it, and a plan selects the entries that fit a capacity,   *)
(* class by class.  One step assembles an input, a second one selects.     *)
(***************************************************************************)
EXTENDS Integers, FiniteSets, SequencesExt

CONSTANTS
    Ids,            \* source ids, a set of naturals: the code compares them as strings
    UsedSections,   \* the sections an input fills besides the interview state
    Contents,       \* what two members with the same id may differ in
    Oversized,      \* the contents longer than any section admits
    MaxMembers,     \* bound: members of an input
    MaxOrder,       \* bound: input_order is 0..MaxOrder
    MaxCost,        \* bound: the cost of an entry
    MaxCapacity     \* bound: capacity_units

VARIABLES
    input,          \* the members in the order they were handed over
    context,        \* the assembled context, or why there is none
    selection       \* the plan, or why there is none

vars == <<input, context, selection>>

NotYet == [is |-> "not_yet"]
Refused(code) == [is |-> "refused", code |-> code]

-----------------------------------------------------------------------------
(* Assembly. *)

PolicySectionOrder ==
    <<"boundaries", "interview_state", "recent_transcript", "working_memory", "active_memory",
      "resumed_memory", "memory_candidates", "actual_asked", "displayed",
      "current_presentation", "question_bank">>

PriorityClass(section) ==
    CASE section \in {"boundaries", "interview_state"} -> "protected"
      [] section = "recent_transcript" -> "high"
      [] section \in {"working_memory", "active_memory", "resumed_memory", "memory_candidates"} -> "normal"
      [] OTHER -> "optional"

\* The sections whose source revision is null: their members share one revision.
Revision(section, revision) ==
    IF section \in {"interview_state", "actual_asked", "question_bank"} THEN 0 ELSE revision

Member(section, id, revision, order, content) ==
    [section |-> section, id |-> id, revision |-> Revision(section, revision),
     order |-> order, content |-> content]

InterviewState == Member("interview_state", 0, 0, 0, "state")

OrderingKey(m) == <<m.order, m.id, m.revision>>

KeyBefore(a, b) ==
    \/ a[1] < b[1]
    \/ a[1] = b[1] /\ (a[2] < b[2] \/ (a[2] = b[2] /\ a[3] < b[3]))

OrderingKeyCollision(members) ==
    \E i, j \in DOMAIN members :
        i # j /\ members[i].section = members[j].section
              /\ OrderingKey(members[i]) = OrderingKey(members[j])

\* A stable sort: equal keys keep the order they arrived in.
OrderedMembers(members) ==
    LET sorted == SetToSortSeq(DOMAIN members,
                     LAMBDA i, j : \/ KeyBefore(OrderingKey(members[i]), OrderingKey(members[j]))
                                   \/ OrderingKey(members[i]) = OrderingKey(members[j]) /\ i < j)
    IN  [i \in DOMAIN members |-> members[sorted[i]]]

InSection(members, section) == SelectSeq(members, LAMBDA m : m.section = section)

\* Every required section is in the manifest, the empty ones too.
CreateSectionMembership(members) ==
    [section \in ToSet(PolicySectionOrder) |->
        LET ordered == OrderedMembers(InSection(members, section))
        IN  [i \in DOMAIN ordered |->
               [id |-> ordered[i].id, revision |-> ordered[i].revision,
                order |-> ordered[i].order, digest |-> ordered[i].content]]]

\* Every value has the shape of its section: one that has not fails the whole input.
WellShaped(members) == \A i \in DOMAIN members : members[i].content \notin Oversized

SectionValues(members) ==
    [section \in ToSet(PolicySectionOrder) |->
        LET ordered == OrderedMembers(InSection(members, section))
        IN  [i \in DOMAIN ordered |->
               [id |-> ordered[i].id, revision |-> ordered[i].revision,
                content |-> ordered[i].content]]]

\* The manifest and the values agree entry by entry.
SectionParity(c) ==
    \A section \in ToSet(PolicySectionOrder) :
        /\ Len(c.membership[section]) = Len(c.values[section])
        /\ \A i \in DOMAIN c.values[section] :
             /\ c.membership[section][i].id = c.values[section][i].id
             /\ c.membership[section][i].revision = c.values[section][i].revision
             /\ c.membership[section][i].digest = c.values[section][i].content

AssembleP4ContextV2(members) ==
    LET all == members \o <<InterviewState>>
        c == [is |-> "context", values |-> SectionValues(all),
              membership |-> CreateSectionMembership(all)]
    IN  IF ~WellShaped(members) THEN Refused("P4_SHAPE_INVALID")
        ELSE IF OrderingKeyCollision(all) THEN Refused("P4_ORDERING_KEY_COLLISION")
        ELSE IF ~SectionParity(c) THEN Refused("P4_MEMBERSHIP_COUNT_MISMATCH")
        ELSE c

-----------------------------------------------------------------------------
(* Selection. *)

\* The entries in policy order, each with its class.
PolicyEntries(c) ==
    FlattenSeq([k \in DOMAIN PolicySectionOrder |->
        LET section == PolicySectionOrder[k] IN
        [i \in DOMAIN c.membership[section] |->
            [section |-> section, id |-> c.membership[section][i].id,
             revision |-> c.membership[section][i].revision, at |-> i,
             class |-> PriorityClass(section)]]])

\* Costs are looked up by source id alone.
SelectionCost(costs, e) == costs[e.id]

ProtectedCost(entries, costs) ==
    FoldLeft(LAMBDA sum, e : IF e.class = "protected" THEN sum + SelectionCost(costs, e) ELSE sum,
             0, entries)

\* (Fault.) A class that was clipped goes on with whatever still fits.
SelectEntry_Greedy(st, e, costs) ==
    LET cost == SelectionCost(costs, e)
        clip == e.class # "protected" /\ (st.lowerPriorityClipped \/ cost > st.remaining)
    IN  [class |-> e.class, lowerPriorityClipped |-> st.lowerPriorityClipped, classClipped |-> FALSE,
         remaining |-> IF clip THEN st.remaining ELSE st.remaining - cost,
         selected |-> IF clip THEN st.selected ELSE Append(st.selected, e),
         clipped |-> IF clip THEN Append(st.clipped, e) ELSE st.clipped]

\* One entry of the loop: state is what is left, what was taken, what was clipped,
\* whether this class was clipped and whether a higher one was.
SelectEntry(st, e, costs) ==
    LET cost == SelectionCost(costs, e)
        inClass == IF st.class = e.class THEN st.classClipped ELSE FALSE
        above == IF st.class = e.class THEN st.lowerPriorityClipped
                 ELSE st.lowerPriorityClipped \/ (st.class # "optional" /\ st.classClipped)
        clip == e.class # "protected" /\ (above \/ inClass \/ cost > st.remaining)
    IN  [class |-> e.class,
         lowerPriorityClipped |-> above,
         classClipped |-> inClass \/ clip,
         remaining |-> IF clip THEN st.remaining ELSE st.remaining - cost,
         selected |-> IF clip THEN st.selected ELSE Append(st.selected, e),
         clipped |-> IF clip THEN Append(st.clipped, e) ELSE st.clipped]

\* The plan must hold every protected entry and, with what it clips, the whole context.
ValidateP4SelectionPlan(entries, plan) ==
    /\ \A i \in DOMAIN entries :
         entries[i].class = "protected" => entries[i] \in ToSet(plan.selected)
    /\ \A i \in DOMAIN plan.clipped : plan.clipped[i].class # "protected"
    /\ Len(plan.selected) + Len(plan.clipped) = Len(entries)
    /\ ToSet(plan.selected) \cup ToSet(plan.clipped) = ToSet(entries)

SelectP4ContextV2(c, costs, capacity) ==
    LET entries == PolicyEntries(c)
        done == FoldLeft(LAMBDA st, e : SelectEntry(st, e, costs),
                   [class |-> "protected", lowerPriorityClipped |-> FALSE, classClipped |-> FALSE,
                    remaining |-> capacity, selected |-> <<>>, clipped |-> <<>>], entries)
        plan == [is |-> "plan", costs |-> costs, capacity |-> capacity,
                 selected |-> done.selected, clipped |-> done.clipped]
    IN  IF \E i \in DOMAIN entries : entries[i].id \notin DOMAIN costs
        THEN Refused("P4_CONFIGURATION_MISMATCH")
        ELSE IF ProtectedCost(entries, costs) > capacity THEN Refused("P4_PROTECTED_OVERFLOW")
        ELSE IF ~ValidateP4SelectionPlan(entries, plan)
        THEN Refused("P4_SELECTION_MEMBERSHIP_MISMATCH")
        ELSE plan

-----------------------------------------------------------------------------

Members ==
    {Member(section, id, revision, order, content) :
        section \in UsedSections, id \in Ids, revision \in {1}, order \in 0..MaxOrder,
        content \in Contents}

Init ==
    /\ \E n \in 0..MaxMembers : input \in [1..n -> Members]
    /\ context = NotYet
    /\ selection = NotYet

Assemble ==
    /\ context = NotYet
    /\ context' = AssembleP4ContextV2(input)
    /\ UNCHANGED <<input, selection>>

\* A configuration prices some ids and states a capacity.
Select ==
    /\ context.is = "context" /\ selection = NotYet
    /\ \E priced \in {Ids \cup {0}, Ids}, capacity \in 0..MaxCapacity :
         \E costs \in [priced -> 0..MaxCost] :
            selection' = SelectP4ContextV2(context, costs, capacity)
    /\ UNCHANGED <<input, context>>

Next == Assemble \/ Select

Spec == Init /\ [][Next]_vars

-----------------------------------------------------------------------------
(* Properties. *)

Cost(entries, n, costs) ==
    FoldLeft(LAMBDA sum, e : sum + costs[e.id], 0, SubSeq(entries, 1, n))

\* What is selected is the longest beginning of the policy order that fits the
\* capacity, cut after the protected entries at the earliest: nothing of a lower
\* class, and nothing later of the same class, slips in behind an entry that did
\* not fit, however cheap it is (selectP4ContextV2).
SelectedIsLongestPrefix ==
    selection.is = "plan" =>
        LET entries == PolicyEntries(context)
            n == Len(selection.selected)
        IN  /\ selection.selected = SubSeq(entries, 1, n)
            /\ selection.clipped = SubSeq(entries, n + 1, Len(entries))
            /\ Cost(entries, n, selection.costs) <= selection.capacity
            /\ n < Len(entries) => Cost(entries, n + 1, selection.costs) > selection.capacity

====
