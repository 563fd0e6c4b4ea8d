------------------------------ MODULE TeamMatch ------------------------------
(***************************************************************************)
(* The two requests with which a manager asks whom to put on a project.    *)
(* Team match has the language model turn a paragraph into a plan of slots *)
(* and fills the slots one seat at a time with engineers of the manager's  *)
(* team; skill match filters the team by free hours and has the model rank *)
(* it.  Either is one request: reads, and calls of the language model that *)
(* take up to two minutes.  It locks nothing, and every statement sees     *)
(* what others committed before it, so accounts, allocations and the       *)
(* project change between any two of its steps.                            *)
(*                                                                         *)
(* The module follows one request.  A text that the code compares without  *)
(* regard to case stands for all its spellings; names, labels and reasons  *)
(* in prose are left out.  An activity tag is the sequence of its words.   *)
(***************************************************************************)
EXTENDS Integers, SequencesExt

CONSTANTS
  Engineers,          \* user ids of engineers
  Managers,
  Manager,            \* the manager whose request this is
  Profile,            \* for each engineer: department, designation, skills, and the
                      \* activity tags of the recent timesheets
  Replies,            \* bound: what the language model can return for a plan
  Rankings,           \* bound: what it can return as a ranking
  Explanations,       \* bound: the seats and persons for which it can return reasons
  RequestedHours,     \* bound: the hours per week that requirements ask for
  Utilisations,       \* bound: the values of resource_status.utilisation_percent
  MaxWeeklyHours,     \* max_weekly_hours of the configuration
  MaxChanges,         \* bound: how often accounts, allocations and the project change
  Null                \* None

ASSUME EngineersAssumption ==
  Engineers \subseteq Nat /\ IsFiniteSet(Engineers) /\ Manager \in Managers
ASSUME HoursAssumption == MaxWeeklyHours \in Nat \ {0} /\ Utilisations \subseteq Nat
ASSUME NullAssumption == Null \notin Int
ASSUME RequestedAssumption == RequestedHours \subseteq Nat \cup {Null}
ASSUME ChangesAssumption == MaxChanges \in Nat

FilterFields == {"department", "designation", "skill_category", "skill_name",
                 "min_proficiency", "min_free_hours", "activity_tags", "work_status"}

\* The words of a member of ActivityTag.
IsTag(tag) == tag \in Seq(Range(tag)) /\ tag # << >>

\* What an entry of the language model's plan comes to, usable or not.
IsItem(item) ==
  /\ DOMAIN item = {"slot_id", "role_label", "headcount", "filters"}
  /\ item.headcount \in Int
  /\ item.filters # Null => /\ DOMAIN item.filters = FilterFields
                           /\ item.filters.min_free_hours \in Int \cup {Null}
                           /\ \A tag \in Range(item.filters.activity_tags) : IsTag(tag)

ASSUME ProfileAssumption == \A e \in Engineers : \A tag \in Profile[e].tags : IsTag(tag)
ASSUME RepliesAssumption ==
  \A reply \in Replies : /\ reply \in Seq(Range(reply))
                         /\ \A item \in Range(reply) : IsItem(item)
ASSUME RankingsAssumption == \A ranking \in Rankings : ranking \in Seq(Range(ranking))

VARIABLES
  project,            \* who owns the project, and whether it accepts allocations
  staff,              \* users and resource_status: manager, activity and utilisation
  phase,              \* how far the request is
  plan,               \* the usable slots of the plan
  counts,             \* how many candidates each slot had when they were counted
  answers,            \* an answer for each seat, in the order in which seats are filled
  requested,          \* the hours that the requirement asks for, or Null
  candidates,         \* the engineers whom the language model is to rank
  matches,            \* the ranking that the manager is shown
  changes             \* bounds the changes made by others

request == <<phase, plan, counts, answers, requested, candidates, matches>>
vars == <<project, staff, request, changes>>

MaxUtilisationPercent == 100
Final == {"done", "failed", "rejected"}

-----------------------------------------------------------------------------
(***************************************************************************)
(* Candidates of a slot.                                                   *)
(***************************************************************************)

Team == {e \in Engineers : staff[e].manager = Manager /\ staff[e].active}

FreeHours(e) ==
  (Max({0, MaxUtilisationPercent - staff[e].utilisation}) * MaxWeeklyHours)
    \div MaxUtilisationPercent

\* work_status is written with the utilisation, from the utilisation.
WorkStatus(e) == IF staff[e].utilisation = 0 THEN "BENCH" ELSE "ALLOCATED"

Asked(wanted, actual) == wanted \in {Null, actual}

NamedSkill(filters, skill) == /\ Asked(filters.skill_name, skill.name)
                              /\ Asked(filters.skill_category, skill.category)

SkillMatches(filters, e) ==
  \/ \A f \in {"skill_name", "skill_category", "min_proficiency"} : filters[f] = Null
  \/ \E i \in DOMAIN Profile[e].skills :
       /\ NamedSkill(filters, Profile[e].skills[i])
       /\ \/ filters.min_proficiency = Null
          \/ Profile[e].skills[i].proficiency >= filters.min_proficiency

\* A text: the words, with a mark between them.
Text(tag, mark) ==
  [n \in 1 .. 2 * Len(tag) - 1 |-> IF n % 2 = 1 THEN tag[(n + 1) \div 2] ELSE mark]

\* A slot names a tag by its value, BACKEND_API; timesheets report it by its label,
\* Backend Api.  Compared without regard to case, they differ in the mark.
Value(tag) == Text(tag, "_")
Label(tag) == Text(tag, " ")

RecentLabels(e) == {Label(tag) : tag \in Profile[e].tags}

TagOverlap(filters, e) ==
  {n \in DOMAIN filters.activity_tags : Value(filters.activity_tags[n]) \in RecentLabels(e)}

Matches(filters, e) ==
  /\ Asked(filters.department, Profile[e].department)
  /\ Asked(filters.designation, Profile[e].designation)
  /\ Asked(filters.work_status, WorkStatus(e))
  /\ filters.min_free_hours # Null => FreeHours(e) >= filters.min_free_hours
  /\ filters.activity_tags # << >> => TagOverlap(filters, e) # {}
  /\ SkillMatches(filters, e)

Search(filters, excluded) == {e \in Team \ excluded : Matches(filters, e)}

\* How far the first skill that the filter names, not the best one, is above the filter.
ProficiencyHeadroom(filters, e) ==
  LET named == SelectSeq(Profile[e].skills, LAMBDA s : NamedSkill(filters, s))
  IN IF filters.min_proficiency = Null \/ named = << >> THEN 0
     ELSE Head(named).proficiency - filters.min_proficiency

Score(filters, e) ==
  << FreeHours(e),
     IF filters.work_status = Null /\ WorkStatus(e) = "BENCH" THEN 1 ELSE 0,
     ProficiencyHeadroom(filters, e) + Cardinality(TagOverlap(filters, e)),
     MaxUtilisationPercent - staff[e].utilisation >>

Above(a, b) == \E k \in DOMAIN a : a[k] > b[k] /\ \A j \in 1 .. k - 1 : a[j] = b[j]

\* The highest score, and among equals the lowest user id.
Best(filters, eligible) ==
  {e \in eligible : \A o \in eligible \ {e} :
    \/ Above(Score(filters, e), Score(filters, o))
    \/ Score(filters, e) = Score(filters, o) /\ e < o}

\* Mutant: half of the week, whatever is left of it, when no hours are asked for.
SuggestedHalf(filters, e) ==
  IF filters.min_free_hours # Null
  THEN Max({1, (filters.min_free_hours * MaxUtilisationPercent) \div MaxWeeklyHours})
  ELSE 50

SuggestedPercent(filters, e) ==
  LET remaining == MaxUtilisationPercent - staff[e].utilisation
      Percent(hours) == (hours * MaxUtilisationPercent) \div MaxWeeklyHours
  IN IF filters.min_free_hours # Null
     THEN Min({remaining, Max({1, Percent(filters.min_free_hours)})})
     ELSE IF FreeHours(e) >= MaxWeeklyHours THEN Min({remaining, 50})
          ELSE Max({1, Min({Percent(FreeHours(e)), remaining})})

HasCapacity(filters, e) ==
  IF filters.min_free_hours # Null THEN FreeHours(e) >= filters.min_free_hours
  ELSE FreeHours(e) > 0

\* Mutant: the skill pool is searched with the capacity filter.
WithCapacity(filters) == filters

WithoutCapacity(filters) == [filters EXCEPT !.min_free_hours = Null]

-----------------------------------------------------------------------------
(***************************************************************************)
(* The plan, the seats and the answers.                                    *)
(***************************************************************************)

\* The loops that append what they keep: the elements of s at the places in K, in their
\* order.  (SelectSeq with a recursive function, which proofs can unfold.)
Kept(s, K) ==
  LET kept[i \in 0 .. Len(s)] == IF i = 0 THEN << >>
                                 ELSE IF i \in K THEN Append(kept[i - 1], s[i])
                                 ELSE kept[i - 1]
  IN  kept[Len(s)]

\* What the parser makes of filters: a number that is not positive asks for nothing.
Cleaned(filters) ==
  IF filters.min_free_hours # Null /\ filters.min_free_hours <= 0
  THEN WithoutCapacity(filters) ELSE filters

UsableSlot(item) == /\ item.slot_id > 0 /\ item.headcount > 0
                    /\ item.role_label # "" /\ item.filters # Null

ParsedPlan(reply) ==
  LET usable == Kept(reply, {n \in DOMAIN reply : UsableSlot(reply[n])})
  IN [i \in DOMAIN usable |-> [usable[i] EXCEPT !.filters = Cleaned(@)]]

Answered(i) == {n \in DOMAIN answers : answers[n].slot = i}
\* Mutant: positions are counted from 0 to the headcount.
OpenSlotsInclusive == {i \in DOMAIN plan : Cardinality(Answered(i)) <= plan[i].headcount}

OpenSlots == {i \in DOMAIN plan : Cardinality(Answered(i)) < plan[i].headcount}

\* Slots are filled in the order of their counts, and of the plan among equals.
NextSlot == CHOOSE i \in OpenSlots : \A j \in OpenSlots \ {i} :
              counts[i] < counts[j] \/ (counts[i] = counts[j] /\ i < j)

Filled == {n \in DOMAIN answers : answers[n].kind = "ASSIGNED"}
\* Mutant: only the engineers of the slot itself are excluded.
AssignedToSlot == {answers[n].user : n \in Filled \cap Answered(NextSlot)}

Assigned == {answers[n].user : n \in Filled}

\* The rows of the result: seat by seat as in the plan, and for each the last answer
\* that was stored under the seat's slot id and position.
\* Mutant: the positions of a slot start at 0.
SeatsFromZero ==
  FlattenSeq([i \in DOMAIN plan |-> [p \in 1 .. plan[i].headcount |-> <<i, p - 1>>]])

Seats == FlattenSeq([i \in DOMAIN plan |-> [p \in 1 .. plan[i].headcount |-> <<i, p>>]])

Listed(kinds) ==
  LET Under(seat) == {n \in DOMAIN answers :
                        /\ answers[n].kind \in kinds
                        /\ answers[n].position = seat[2]
                        /\ plan[answers[n].slot].slot_id = plan[seat[1]].slot_id}
      rows == Kept(Seats, {k \in DOMAIN Seats : Under(Seats[k]) # {}})
  IN [k \in DOMAIN rows |-> answers[Max(Under(rows[k]))]]

Gaps == {"SKILL_GAP", "AVAILABILITY_GAP"}

-----------------------------------------------------------------------------
(***************************************************************************)
(* The request.                                                            *)
(***************************************************************************)

MayAllocate == project.owner = Manager /\ project.open

Enter(next) == phase' = next /\ UNCHANGED <<project, staff, changes>>

SubmitTeamMatch(blank) ==
  /\ phase = "idle"
  /\ Enter(IF MayAllocate /\ ~blank THEN "parsing" ELSE "rejected")
  /\ UNCHANGED <<plan, counts, answers, requested, candidates, matches>>

\* The language model returned a plan that can be used, at least in part.
ParsePlan(reply) ==
  /\ phase = "parsing"
  /\ ParsedPlan(reply) # << >>
  /\ plan' = ParsedPlan(reply)
  /\ Enter("parsed")
  /\ UNCHANGED <<counts, answers, requested, candidates, matches>>

\* It timed out, was unreachable, or returned nothing that can be used.
LlmUnavailable ==
  /\ phase \in {"parsing", "ranking"}
  /\ Enter("failed")
  /\ UNCHANGED <<plan, counts, answers, requested, candidates, matches>>

AssertOwnerAgain ==
  /\ phase = "parsed"
  /\ Enter(IF MayAllocate THEN "counting" ELSE "rejected")
  /\ UNCHANGED <<plan, counts, answers, requested, candidates, matches>>

CountSlot ==
  /\ phase = "counting"
  /\ counts' = Append(counts,
                      Cardinality(Search(plan[Len(counts) + 1].filters, {})))
  /\ Enter(IF Len(counts') = Len(plan) THEN "filling" ELSE "counting")
  /\ UNCHANGED <<plan, answers, requested, candidates, matches>>

Answer(kind, e, percent) ==
  LET answer == [slot |-> NextSlot, position |-> Cardinality(Answered(NextSlot)) + 1,
                 kind |-> kind, user |-> e, percent |-> percent, reason |-> "template"]
  IN /\ answers' = Append(answers, answer)
     /\ UNCHANGED <<plan, counts, requested, candidates, matches>>
     /\ Enter(IF OpenSlots' # {} THEN "filling"
              ELSE IF Filled' # {} THEN "explaining" ELSE "done")

FillSeat ==
  LET filters == plan[NextSlot].filters
  IN /\ phase = "filling"
     /\ \E best \in Best(filters, Search(filters, Assigned)) :
          Answer("ASSIGNED", best, SuggestedPercent(filters, best))

\* Mutant: a slot that nobody fitted when the slots were counted is passed over.
NobodyLeft ==
  /\ phase = "filling"
  /\ counts[NextSlot] > 0
  /\ Search(plan[NextSlot].filters, Assigned) = {}
  /\ Enter("gap")
  /\ UNCHANGED <<plan, counts, answers, requested, candidates, matches>>

NobodyEligible ==
  /\ phase = "filling"
  /\ Search(plan[NextSlot].filters, Assigned) = {}
  /\ Enter("gap")
  /\ UNCHANGED <<plan, counts, answers, requested, candidates, matches>>

BuildGap ==
  /\ phase = "gap"
  /\ Answer(IF Search(WithoutCapacity(plan[NextSlot].filters), {}) = {}
            THEN "SKILL_GAP" ELSE "AVAILABILITY_GAP", Null, 0)

RowKey(n) == <<plan[answers[n].slot].slot_id, answers[n].position, answers[n].user>>

UsableReasons(keys) == keys \cap {RowKey(n) : n \in Filled}

\* Without a usable reason, or without an answer, every row keeps its template.
Explain(keys) ==
  /\ phase = "explaining"
  /\ answers' = [n \in DOMAIN answers |->
       IF RowKey(n) \in UsableReasons(keys) THEN [answers[n] EXCEPT !.reason = "llm"]
       ELSE answers[n]]
  /\ Enter("done")
  /\ UNCHANGED <<plan, counts, requested, candidates, matches>>

\* Mutant: the requested hours are left to the language model.
QualifiedAtAll(hours) == {e \in Team : FreeHours(e) > 0}

Qualified(hours) ==
  {e \in Team : IF hours # Null THEN FreeHours(e) >= hours ELSE FreeHours(e) > 0}

\* "0 hours a week" asks for nothing.  With nobody qualified no model is called.
SubmitSkillMatch(hours, blank) ==
  LET parsed == IF hours = 0 THEN Null ELSE hours
  IN /\ phase = "idle"
     /\ requested' = parsed
     /\ candidates' = IF MayAllocate /\ ~blank THEN Qualified(parsed) ELSE {}
     /\ Enter(IF ~MayAllocate \/ blank THEN "rejected"
              ELSE IF candidates' = {} THEN "done" ELSE "ranking")
     /\ UNCHANGED <<plan, counts, answers, matches>>

UsableMatches(ranking) ==
  Kept(ranking, {n \in DOMAIN ranking :
                   ranking[n].user \in candidates /\ ranking[n].complete})

RankCandidates(ranking) ==
  /\ phase = "ranking"
  /\ matches' = UsableMatches(ranking)
  /\ matches' # << >>
  /\ Enter("done")
  /\ UNCHANGED <<plan, counts, answers, requested, candidates>>

-----------------------------------------------------------------------------
(***************************************************************************)
(* What others commit meanwhile: allocations and the scheduler write the   *)
(* utilisation, admins move, deactivate and reactivate engineers and       *)
(* change the project.                                                     *)
(***************************************************************************)

ChangeStaff(e) ==
  /\ changes < MaxChanges
  /\ \E row \in [manager : Managers, active : BOOLEAN, utilisation : Utilisations] :
       staff[e] # row /\ staff' = [staff EXCEPT ![e] = row]
  /\ changes' = changes + 1
  /\ UNCHANGED <<project, request>>

ChangeProject ==
  /\ changes < MaxChanges
  /\ project' \in [owner : Managers, open : BOOLEAN]
  /\ project' # project
  /\ changes' = changes + 1
  /\ UNCHANGED <<staff, request>>

Init ==
  /\ project \in [owner : Managers, open : BOOLEAN]
  /\ staff \in [Engineers -> [manager : Managers, active : BOOLEAN,
                              utilisation : Utilisations]]
  /\ phase = "idle"
  /\ plan = << >> /\ counts = << >> /\ answers = << >>
  /\ requested = Null /\ candidates = {} /\ matches = << >>
  /\ changes = 0

Step ==
  \/ \E blank \in BOOLEAN : SubmitTeamMatch(blank)
  \/ \E reply \in Replies : ParsePlan(reply)
  \/ LlmUnavailable
  \/ AssertOwnerAgain
  \/ CountSlot
  \/ FillSeat
  \/ NobodyEligible
  \/ BuildGap
  \/ \E keys \in Explanations : Explain(keys)
  \/ \E hours \in RequestedHours, blank \in BOOLEAN : SubmitSkillMatch(hours, blank)
  \/ \E ranking \in Rankings : RankCandidates(ranking)

Next ==
  \/ Step
  \/ \E e \in Engineers : ChangeStaff(e)
  \/ ChangeProject

\* The server runs the request to its end, and a call of the language model that is
\* not answered times out.
Spec == Init /\ [][Next]_vars /\ WF_vars(Step)

-----------------------------------------------------------------------------
(***************************************************************************)
(* Properties.                                                             *)
(***************************************************************************)

\* The variables have values of their types.
TypeOK ==
  /\ project \in [owner : Managers, open : BOOLEAN]
  /\ staff \in [Engineers -> [manager : Managers, active : BOOLEAN,
                              utilisation : Utilisations]]
  /\ phase \in Final \cup {"idle", "parsing", "parsed", "counting", "filling", "gap",
                           "explaining", "ranking"}
  /\ Len(counts) <= Len(plan)
  /\ \A i \in DOMAIN plan : Cardinality(Answered(i)) <= plan[i].headcount
  /\ candidates \subseteq Engineers
  /\ changes \in 0 .. MaxChanges

\* No engineer is picked for two seats, although the engineers are searched again for
\* each seat and change meanwhile.
PickedOnce == \A n, m \in Filled : answers[n].user = answers[m].user => n = m

\* If the plan numbers its slots apart, the result has exactly one row for every seat,
\* a person or a gap.
EverySeatListed ==
  (phase = "done" /\ \A i, j \in DOMAIN plan : plan[i].slot_id = plan[j].slot_id => i = j)
    => Len(Listed({"ASSIGNED"})) + Len(Listed(Gaps)) = Len(Seats)

\* The engineer fits the slot, the hours aside: is in the department, has the designation,
\* the work status and the skill, and recently logged a tag that the slot asks for and
\* that is one word.  Tags of several words are never recognised.
Skilled(filters, e) ==
  /\ Asked(filters.department, Profile[e].department)
  /\ Asked(filters.designation, Profile[e].designation)
  /\ Asked(filters.work_status, WorkStatus(e))
  /\ SkillMatches(filters, e)
  /\ \/ filters.activity_tags = << >>
     \/ \E tag \in Range(filters.activity_tags) \cap Profile[e].tags : Len(tag) = 1

\* If nobody else changed anything, a gap says the truth at the end of the request too,
\* as far as tags are one word: a skill gap means that nobody on the team fits but for
\* the hours, an availability gap that somebody does, and whoever fits and was left over
\* has not the hours.
GapsAreHonest ==
  (phase = "done" /\ changes = 0) =>
    \A n \in DOMAIN answers \ Filled :
      LET filters == plan[answers[n].slot].filters
          skilled == {e \in Team : Skilled(filters, e)}
      IN /\ answers[n].kind = "SKILL_GAP" <=> skilled = {}
         /\ \A e \in skilled \ Assigned : ~HasCapacity(filters, e)

\* The level suggested for a pick can be allocated: it is at least 1 % and no more than
\* the engineer has left, unless nothing is left.
SuggestionsFit ==
  [][\A n \in Filled' \ Filled :
       LET left == MaxUtilisationPercent - staff[answers'[n].user].utilisation
       IN answers'[n].percent >= 1 /\ (left > 0 => answers'[n].percent <= left)]_vars

\* Nobody without the hours that the requirement asks for is shown as a match, whatever
\* the language model returned.
MatchesHaveTime ==
  changes = 0 => \A n \in DOMAIN matches :
    /\ matches[n].user \in Team
    /\ FreeHours(matches[n].user) >= IF requested = Null THEN 1 ELSE requested

\* Every request is answered.
RequestAnswered == phase # "idle" ~> phase \in Final

\* docs/README.md:25 has it that the best available people are assigned; the code
\* also picks an engineer of whom nothing is left.
PicksAreAvailable ==
  [][\A n \in Filled' \ Filled : FreeHours(answers'[n].user) > 0]_vars

\* The tests expect an engineer who logged BACKEND_API to be found by a slot that asks for
\* it (test_team_candidate_search_service.py:354-368, where a stand-in returns the values
\* of tags); the repository returns labels, and the slot becomes a skill gap.
TaggedAreFound ==
  (phase = "done" /\ changes = 0) =>
    \A n \in DOMAIN answers \ Filled :
      LET filters == plan[answers[n].slot].filters
      IN answers[n].kind = "SKILL_GAP" =>
           \A e \in Team :
             Range(filters.activity_tags) \cap Profile[e].tags # {} =>
               ~Skilled([filters EXCEPT !.activity_tags = << >>], e)

\* docs/README.md:33: unique user_id per slot.  In the result an engineer is shown for
\* every slot whose id the plan repeats.
ShownOnce ==
  phase = "done" =>
    \A k, l \in DOMAIN Listed({"ASSIGNED"}) :
      Listed({"ASSIGNED"})[k].user = Listed({"ASSIGNED"})[l].user => k = l
=============================================================================
