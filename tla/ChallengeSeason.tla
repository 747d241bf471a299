--------------------------- MODULE ChallengeSeason ---------------------------
(***************************************************************************)
(* One challenge and the verbs that run over it: start_challenge,          *)
(* close_challenge, reset_challenge and its turn in daily_challenge_check. *)
(* Each call is one READ COMMITTED transaction over four tables: the       *)
(* challenge, its memberships, its goals and the badges granted for it.    *)
(* A call holds the list of statements it has still to run; a statement    *)
(* may put the statements that its result calls for in front of the rest.  *)
(*                                                                         *)
(* start, close and reset read the challenge without a lock.  The daily    *)
(* check claims it FOR UPDATE SKIP LOCKED, which conflicts with the KEY    *)
(* SHARE lock the foreign keys of an INSERT take on it.                    *)
(*                                                                         *)
(* All lines have the target Target and the condition "higher".  A         *)
(* statement that writes several rows waits until it can have them all.    *)
(***************************************************************************)
EXTENDS Integers, FiniteSets, Sequences, SequencesExt

CONSTANTS
  Calls,          (* [id, verb]                                              *)
  Users,          (* members, and users who may become members               *)
  IdOrder,        (* per user, the place of its uuid in their order          *)
  RuleSets,       (* the sets of users the declarative rules may match       *)
  Lines,          (* the challenge's lines                                   *)
  Values,         (* values a metric computes                                *)
  Target,         (* the target of every line                                *)
  StartDate,      (* start_date, or None                                     *)
  EndDate,        (* end_date, or None                                       *)
  WindowEnd,      (* per day, the end of the period_window of that day       *)
  NextReport,     (* per day, the next_report_date of a report of that day,  *)
                  (* or None throughout, where report_frequency is never     *)
  Podium,         (* the first, second and third badge, None where not set   *)
  RewardBadge,    (* the badge every succeeding user gets, or None           *)
  RewardFailure,  (* whether the podium admits users who did not succeed     *)
  None,
  MaxDay          (* bound on the calendar                                   *)

Verbs == {"start", "close", "reset", "daily"}

Badges == (Range(Podium) \cup {RewardBadge}) \ {None}

ASSUME ChallengeAssumption ==
  /\ \A c \in Calls : c.verb \in Verbs
  /\ None \notin Calls
  /\ IsFiniteSet(Calls) /\ IsFiniteSet(Users) /\ IsFiniteSet(Lines)
  /\ IdOrder \in [Users -> Int]
  /\ \A u, v \in Users : IdOrder[u] = IdOrder[v] => u = v
  /\ RuleSets \subseteq SUBSET Users
  /\ Podium \in Seq(Badges \cup {None})
  /\ Values \subseteq Nat
  /\ Target \in Nat \ {0}
  /\ StartDate \in Nat \cup {None}
  /\ EndDate \in Nat \cup {None}
  /\ WindowEnd \in [0..MaxDay -> Nat \cup {None}]
  /\ NextReport \in [0..MaxDay -> Nat] \cup [0..MaxDay -> {None}]
  /\ RewardFailure \in BOOLEAN
  /\ MaxDay \in Nat

VARIABLES
  day,        (* today                                                       *)
  rules,      (* the users the declarative rules match now                   *)
  challenge,  (* the challenge's state, and who holds its row                *)
  report,     (* the challenge's next_report_date                            *)
  member,     (* per user, whether a live membership exists                  *)
  goal,       (* per goal, its row, or None before it is inserted            *)
  grant,      (* per badge and user, whether the grant_key is taken          *)
  share,      (* the calls that hold a KEY SHARE lock on the challenge       *)
  plan,       (* per call, the statements it has still to run                *)
  today,      (* per call, the day it takes for today                        *)
  target,     (* per call, the users its reconciliation wants as members     *)
  before,     (* per call, the members its reconciliation found              *)
  closings    (* how often the challenge was closed                          *)

tables == <<challenge, report, member, goal, grant>>
vars == <<day, rules, tables, share, plan, today, target, before, closings>>

-----------------------------------------------------------------------------
(* A row: the committed version, the latest one, and the call that wrote it *)
(* and has not ended.                                                       *)
Stored(x) == [now |-> x, new |-> x, by |-> None]
Sees(v, c) == IF v.by = c THEN v.new ELSE v.now
Free(v, c) == v.by \in {None, c}
Put(v, c, x) == [v EXCEPT !.new = x, !.by = c]
Undone(v, c) == IF v.by = c THEN Stored(v.now) ELSE v

(* Mutant of Kept: a commit does not give the row up.                          *)
KeptLocked(v, c) == IF v.by = c THEN [v EXCEPT !.now = v.new] ELSE v

Kept(v, c) == IF v.by = c THEN Stored(v.new) ELSE v

Settled(v, c, keep) == IF keep THEN Kept(v, c) ELSE Undone(v, c)

(* A goal is named by the call that inserts it, its line and its user.      *)
Goals == Calls \X Lines \X Users

GoalStates == {"draft", "inprogress", "reached", "failed", "canceled"}

GoalRow == [state : GoalStates, current : Nat, end : Nat \cup {None}]

ASSUME NoneIsNoRow == None \notin GoalRow

Covers(row, d) == row.end = None \/ row.end >= d

GoalsSeen(c) == {g \in Goals : Sees(goal[g], c) # None}

Ops == Verbs \cup
  {"rules", "before", "join", "retire", "sweep", "members", "look", "insert", "goals",
   "evaluate", "fail", "podium", "realtime", "grant", "check", "move", "stamp", "commit"}

Do(op) == [op |-> op, on |-> None]
On(op, x) == [op |-> op, on |-> x]

At(c, op) == plan[c] # <<>> /\ Head(plan[c]).op = op
Arg(c) == Head(plan[c]).on
Instead(c, statements) == plan' = [plan EXCEPT ![c] = statements \o Tail(@)]
Done(c) == Instead(c, <<>>)
Ended(c) == plan[c] = <<>>

(* Mutant of Fill: the goals are generated for the members of before.          *)
FillFirst ==
  <<Do("members"), Do("rules"), Do("before"), Do("retire"), Do("sweep")>>

(* reconcile_membership and generate_goals.                                 *)
Fill ==
  <<Do("rules"), Do("before"), Do("retire"), Do("sweep"), Do("members")>>

Finish(due) == IF due THEN <<Do("stamp"), Do("commit")>> ELSE <<Do("commit")>>

StartPlan(d) ==
  Fill \o <<On("move", "inprogress")>> \o Finish(NextReport[d] # None)
ClosePlan == <<Do("fail"), Do("podium"), On("move", "done"), Do("commit")>>
ResetPlan == <<Do("check"), On("move", "draft"), Do("commit")>>

StartEdge(s) == IF s = "draft" THEN Fill \o <<On("move", "inprogress")>> ELSE <<>>

Over(d) == EndDate # None /\ EndDate < d

CloseOrSweep(d) ==
  IF Over(d) THEN <<Do("fail"), Do("podium"), Do("realtime"), On("move", "done")>>
  ELSE Fill \o <<Do("goals"), Do("realtime")>>

ReportDue(next, d) == NextReport[d] # None /\ (next = None \/ next <= d)

(* Mutant of DailyPlan: a challenge that is done is closed again.              *)
DailyPlanAgain(s, next, d) ==
  StartEdge(s) \o CloseOrSweep(d) \o Finish(ReportDue(next, d))

(* A challenge's turn in the daily check: the start edge, the closing or    *)
(* the sweep of a challenge that is running by then, the report.            *)
DailyPlan(s, next, d) ==
  StartEdge(s) \o (IF s = "done" THEN <<>> ELSE CloseOrSweep(d))
  \o Finish(ReportDue(next, d))

-----------------------------------------------------------------------------
Init ==
  /\ day = 0
  /\ rules \in RuleSets
  /\ challenge = Stored("draft")
  /\ report = Stored(None)
  /\ member = [u \in Users |-> Stored(FALSE)]
  /\ goal = [g \in Goals |-> Stored(None)]
  /\ grant = [k \in Badges \X Users |-> Stored(FALSE)]
  /\ share = {}
  /\ plan = [c \in Calls |-> <<Do(c.verb)>>]
  /\ today = [c \in Calls |-> 0]
  /\ target = [c \in Calls |-> {}]
  /\ before = [c \in Calls |-> {}]
  /\ closings = 0

NextDay ==
  /\ day < MaxDay
  /\ day' = day + 1
  /\ UNCHANGED <<rules, tables, share, plan, today, target, before, closings>>

(* The lists of the challenge are edited, a badge is granted or revoked, or *)
(* the host's directory changes.                                            *)
RulesChange ==
  /\ rules' \in RuleSets \ {rules}
  /\ UNCHANGED <<day, tables, share, plan, today, target, before, closings>>

-----------------------------------------------------------------------------
(* find_challenge by a verb, its check of the state, and Utc::now().        *)
Find(c) ==
  /\ \E v \in {"start", "close", "reset"} :
       /\ At(c, v)
       /\ LET wanted == [start |-> "draft", close |-> "inprogress", reset |-> "done"]
              next == [start |-> StartPlan(day), close |-> ClosePlan, reset |-> ResetPlan]
          IN plan' = [plan EXCEPT ![c] =
                        IF challenge.now = wanted[v] THEN next[v] ELSE <<>>]
  /\ today' = [today EXCEPT ![c] = day]
  /\ UNCHANGED <<day, rules, tables, share, target, before, closings>>

(* The WHERE of claim_next_due_challenge.                                   *)
Due(s, next, d) ==
  \/ s = "draft" /\ StartDate # None /\ StartDate <= d
  \/ s = "inprogress"
  \/ s = "done" /\ next # None /\ next <= d

Locked(c) == challenge.by # None \/ share \ {c} # {}

(* claim_next_due_challenge picks the challenge up, on the day the          *)
(* scheduler started the run with.                                          *)
Claim(c) ==
  /\ At(c, "daily")
  /\ ~Locked(c)
  /\ \E d \in 0..day :
       /\ Due(challenge.now, report.now, d)
       /\ today' = [today EXCEPT ![c] = d]
       /\ plan' = [plan EXCEPT ![c] = DailyPlan(challenge.now, report.now, d)]
  /\ challenge' = Put(challenge, c, challenge.now)
  /\ UNCHANGED <<day, rules, report, member, goal, grant, share, target, before, closings>>

(* The challenge is locked, or it is not due: the run leaves it alone.      *)
PassOver(c) ==
  /\ At(c, "daily")
  /\ Locked(c) \/ \E d \in 0..day : ~Due(challenge.now, report.now, d)
  /\ Done(c)
  /\ UNCHANGED <<day, rules, tables, share, today, target, before, closings>>

-----------------------------------------------------------------------------
(* user_ids, badge_holders and the directory.                               *)
ReadRules(c) ==
  /\ At(c, "rules")
  /\ target' = [target EXCEPT ![c] = rules]
  /\ Done(c)
  /\ UNCHANGED <<day, rules, tables, share, today, before, closings>>

(* live_members: the baseline, and one insert per wanted user, in the order *)
(* of a HashSet.                                                            *)
ReadBefore(c) ==
  /\ At(c, "before")
  /\ before' = [before EXCEPT ![c] = {u \in Users : Sees(member[u], c)}]
  /\ \E us \in SetToSeqs(target[c]) :
       Instead(c, [i \in DOMAIN us |-> On("join", us[i])])
  /\ UNCHANGED <<day, rules, tables, share, today, target, closings>>

(* An INSERT that refers to the challenge locks its key: it waits for the   *)
(* daily check that claimed it, and for nobody else.                        *)
MayRefer(c) == ~Free(challenge, c) => challenge.by.verb # "daily"

(* insert_membership ON CONFLICT DO NOTHING: an uncommitted row of the user *)
(* is waited for, a live one is left alone.                                 *)
Join(c) ==
  /\ At(c, "join")
  /\ LET u == Arg(c) IN
       /\ Free(member[u], c)
       /\ \/ Sees(member[u], c) /\ UNCHANGED <<member, share>>
          \/ /\ ~Sees(member[u], c)
             /\ MayRefer(c)
             /\ member' = [member EXCEPT ![u] = Put(@, c, TRUE)]
             /\ share' = share \cup {c}
  /\ Done(c)
  /\ UNCHANGED <<day, rules, challenge, report, goal, grant, today, target, before, closings>>

(* retire_memberships: every live member who is not wanted.                 *)
Retire(c) ==
  /\ At(c, "retire")
  /\ LET leavers == {u \in Users \ target[c] : Sees(member[u], c)} IN
       /\ \A u \in leavers : Free(member[u], c)
       /\ member' = [u \in Users |->
                       IF u \in leavers THEN Put(member[u], c, FALSE) ELSE member[u]]
  /\ Done(c)
  /\ UNCHANGED <<day, rules, challenge, report, goal, grant, share, today, target, before, closings>>

(* Writes a state into the goals gs, once it can have them all.             *)
SetGoals(c, gs, s) ==
  /\ \A g \in gs : Free(goal[g], c)
  /\ goal' = [g \in Goals |->
                IF g \in gs THEN Put(goal[g], c, [Sees(goal[g], c) EXCEPT !.state = s])
                ELSE goal[g]]

(* Mutant of Swept: a reached goal survives its user's leaving.                *)
SweptUnfinished(row) == row.state \in {"draft", "inprogress"}

Swept(row) == row.state \in {"draft", "inprogress", "reached"}

(* cancel_goals_of_users: the members found before who are not wanted now.  *)
Sweep(c) ==
  /\ At(c, "sweep")
  /\ SetGoals(c, {g \in GoalsSeen(c) :
                    g[3] \in before[c] \ target[c] /\ Swept(Sees(goal[g], c))}, "canceled")
  /\ Done(c)
  /\ target' = [target EXCEPT ![c] = {}]
  /\ before' = [before EXCEPT ![c] = {}]
  /\ UNCHANGED <<day, rules, challenge, report, member, grant, share, today, closings>>

(* generate_goals: the live members, and one look per line and member.      *)
ReadMembers(c) ==
  /\ At(c, "members")
  /\ \E pairs \in SetToSeqs(Lines \X {u \in Users : Sees(member[u], c)}) :
       Instead(c, [i \in DOMAIN pairs |-> On("look", pairs[i])])
  /\ UNCHANGED <<day, rules, tables, share, today, target, before, closings>>

(* Mutant of Active: the last day of a window is outside of it.                *)
ActiveBeforeEnd(row, d) ==
  /\ row.state # "canceled"
  /\ row.end = None \/ row.end > d

(* find_active_goal_for_line.                                               *)
Active(row, d) == row.state # "canceled" /\ Covers(row, d)

Look(c) ==
  /\ At(c, "look")
  /\ IF \E g \in GoalsSeen(c) :
          <<g[2], g[3]>> = Arg(c) /\ Active(Sees(goal[g], c), today[c])
     THEN Done(c)
     ELSE Instead(c, <<On("insert", Arg(c))>>)
  /\ UNCHANGED <<day, rules, tables, share, today, target, before, closings>>

(* insert_goal, with the window of the call's day.                          *)
Insert(c) ==
  /\ At(c, "insert")
  /\ MayRefer(c)
  /\ goal' = [goal EXCEPT ![<<c, Arg(c)[1], Arg(c)[2]>>] =
                Put(@, c, [state |-> "draft", current |-> 0, end |-> WindowEnd[today[c]]])]
  /\ share' = share \cup {c}
  /\ Done(c)
  /\ UNCHANGED <<day, rules, challenge, report, member, grant, today, target, before, closings>>

-----------------------------------------------------------------------------
(* challenge_goals: one evaluation per goal that is not over.               *)
ReadGoals(c) ==
  /\ At(c, "goals")
  /\ LET unfinished ==
           {g \in GoalsSeen(c) : Sees(goal[g], c).state \in {"draft", "inprogress"}}
     IN \E gs \in SetToSeqs(unfinished) :
          Instead(c, [i \in DOMAIN gs |->
                        On("evaluate", <<gs[i], Sees(goal[gs[i]], c).state>>)])
  /\ UNCHANGED <<day, rules, tables, share, today, target, before, closings>>

(* evaluate_goal_row with the value v, over the latest row, by a caller who *)
(* read the state seen: the new row, or None where the trigger objects.     *)
Evaluated(row, seen, v) ==
  LET startable == row.state \in {"draft", "inprogress"}
      lands == v >= Target
  IN IF (seen = "draft" /\ ~startable) \/ (lands /\ ~(startable \/ row.state = "reached"))
     THEN None
     ELSE [row EXCEPT !.current = v,
                      !.state = IF lands THEN "reached"
                                ELSE IF seen = "draft" THEN "inprogress" ELSE @]

(* One goal of the sweep: its first UPDATE takes the row, so the others     *)
(* follow at once.  A metric that fails is skipped.                         *)
Evaluate(c) ==
  /\ At(c, "evaluate")
  /\ LET g == Arg(c)[1] seen == Arg(c)[2] IN
       \/ UNCHANGED goal
       \/ /\ Free(goal[g], c)
          /\ \E v \in Values :
               /\ Evaluated(Sees(goal[g], c), seen, v) # None
               /\ goal' = [goal EXCEPT ![g] = Put(@, c, Evaluated(Sees(@, c), seen, v))]
  /\ Done(c)
  /\ UNCHANGED <<day, rules, challenge, report, member, grant, share, today, target, before, closings>>

(* window_close_passed_goals.                                               *)
Fail(c) ==
  /\ At(c, "fail")
  /\ SetGoals(c, {g \in GoalsSeen(c) :
                    /\ Sees(goal[g], c).state = "inprogress"
                    /\ ~Covers(Sees(goal[g], c), today[c])}, "failed")
  /\ Done(c)
  /\ UNCHANGED <<day, rules, challenge, report, member, grant, share, today, target, before, closings>>

-----------------------------------------------------------------------------
GoalsOf(c, u) == {g \in GoalsSeen(c) : g[3] = u}

Contenders(c) == {u \in Users : GoalsOf(c, u) # {}}

AllReached(c, u) == \A g \in GoalsOf(c, u) : Sees(goal[g], c).state = "reached"

(* completeness, in units of the target.                                    *)
completeness(v) == IF v < Target THEN v ELSE Target

Total(c, u) ==
  MapThenSumSet(LAMBDA g : completeness(Sees(goal[g], c).current), GoalsOf(c, u))

(* The order of the podium: who succeeded, the average completeness, the id. *)
Outranks(c, u, v) ==
  LET a == Total(c, u) * Cardinality(GoalsOf(c, v))
      b == Total(c, v) * Cardinality(GoalsOf(c, u))
  IN IF AllReached(c, u) # AllReached(c, v) THEN AllReached(c, u)
     ELSE a > b \/ (a = b /\ IdOrder[u] < IdOrder[v])

(* podium_rewards: the place's badge to whoever has the place, up to the    *)
(* first place that nobody has earned.                                      *)
Earned(c, ranked, p) ==
  p <= Len(ranked) /\ (RewardFailure \/ AllReached(c, ranked[p]))

Awarded(c, ranked) ==
  {p \in DOMAIN Podium :
     /\ Podium[p] # None
     /\ \A q \in 1..p : Podium[q] = None \/ Earned(c, ranked, q)}

ReadPodium(c) ==
  /\ At(c, "podium")
  /\ \E ranked \in SetToSeqs(Contenders(c)) :
       /\ \A i, j \in DOMAIN ranked : i < j => Outranks(c, ranked[i], ranked[j])
       /\ \E places \in SetToSeqs(Awarded(c, ranked)) :
            /\ \A i, j \in DOMAIN places : i < j => places[i] < places[j]
            /\ Instead(c, [i \in DOMAIN places |->
                             On("grant", <<Podium[places[i]], ranked[places[i]]>>)])
  /\ UNCHANGED <<day, rules, tables, share, today, target, before, closings>>

(* realtime_rewards: every user all of whose goals are reached, in the      *)
(* order of a HashMap.                                                      *)
ReadRealtime(c) ==
  /\ At(c, "realtime")
  /\ LET succeeding == {u \in Contenders(c) : AllReached(c, u)} IN
       IF RewardBadge = None THEN Done(c)
       ELSE \E us \in SetToSeqs(succeeding) :
              Instead(c, [i \in DOMAIN us |-> On("grant", <<RewardBadge, us[i]>>)])
  /\ UNCHANGED <<day, rules, tables, share, today, target, before, closings>>

(* grant_system_on: the insert under the grant_key of challenge, badge and  *)
(* user waits for an uncommitted grant of that key and leaves a committed   *)
(* one alone.                                                               *)
Grant(c) ==
  /\ At(c, "grant")
  /\ Free(grant[Arg(c)], c)
  /\ \/ Sees(grant[Arg(c)], c) /\ UNCHANGED <<grant, share>>
     \/ /\ ~Sees(grant[Arg(c)], c)
        /\ MayRefer(c)
        /\ grant' = [grant EXCEPT ![Arg(c)] = Put(@, c, TRUE)]
        /\ share' = share \cup {c}
  /\ Done(c)
  /\ UNCHANGED <<day, rules, challenge, report, member, goal, today, target, before, closings>>

-----------------------------------------------------------------------------
(* has_inprogress_goals, and the refusal.                                   *)
Check(c) ==
  /\ At(c, "check")
  /\ ~\E g \in GoalsSeen(c) : Sees(goal[g], c).state = "inprogress"
  /\ Done(c)
  /\ UNCHANGED <<day, rules, tables, share, today, target, before, closings>>

Declared ==
  {<<"draft", "inprogress">>, <<"inprogress", "done">>, <<"done", "draft">>}

(* Mutant of Move: the table has no transition trigger.                        *)
MoveUnchecked(c) ==
  /\ At(c, "move")
  /\ Free(challenge, c)
  /\ challenge' = Put(challenge, c, Arg(c))
  /\ Done(c)
  /\ UNCHANGED <<day, rules, report, member, goal, grant, share, today, target, before, closings>>

(* set_challenge_state, over the latest state and under the trigger, which  *)
(* lets a state that does not change pass.                                  *)
Move(c) ==
  /\ At(c, "move")
  /\ Free(challenge, c)
  /\ Sees(challenge, c) = Arg(c) \/ <<Sees(challenge, c), Arg(c)>> \in Declared
  /\ challenge' = Put(challenge, c, Arg(c))
  /\ Done(c)
  /\ UNCHANGED <<day, rules, report, member, goal, grant, share, today, target, before, closings>>

(* stamp_report_dates, by a call that wrote or claimed the row before.      *)
StampReport(c) ==
  /\ At(c, "stamp")
  /\ Free(challenge, c)
  /\ report' = Put(report, c, NextReport[today[c]])
  /\ Done(c)
  /\ UNCHANGED <<day, rules, challenge, member, goal, grant, share, today, target, before, closings>>

(* The transaction ends, and what it wrote or locked is free again.         *)
End(c, keep) ==
  /\ challenge' = Settled(challenge, c, keep)
  /\ report' = Settled(report, c, keep)
  /\ member' = [u \in Users |-> Settled(member[u], c, keep)]
  /\ goal' = [g \in Goals |-> Settled(goal[g], c, keep)]
  /\ grant' = [k \in Badges \X Users |-> Settled(grant[k], c, keep)]
  /\ share' = share \ {c}
  /\ plan' = [plan EXCEPT ![c] = <<>>]
  /\ target' = [target EXCEPT ![c] = {}]
  /\ before' = [before EXCEPT ![c] = {}]
  /\ UNCHANGED <<day, rules, today>>

Commit(c) ==
  /\ At(c, "commit")
  /\ End(c, TRUE)
  /\ closings' = closings + (IF challenge'.now = "done" /\ challenge.now # "done" THEN 1 ELSE 0)

(* A refusal, an error, the trigger's exception, a deadlock that the        *)
(* database resolves, a lost connection: nothing is kept.                   *)
Rollback(c) ==
  /\ ~Ended(c)
  /\ \A v \in Verbs : ~At(c, v)
  /\ End(c, FALSE)
  /\ UNCHANGED closings

-----------------------------------------------------------------------------
(* A host evaluates a goal on its own, or cancels it.                       *)
EvaluateAlone(g) ==
  /\ goal[g].by = None /\ goal[g].now # None
  /\ goal[g].now.state \in {"draft", "inprogress"}
  /\ \E v \in Values :
       goal' = [goal EXCEPT ![g] = Stored(Evaluated(@.now, @.now.state, v))]
  /\ UNCHANGED <<day, rules, challenge, report, member, grant, share, plan, today, target, before, closings>>

CancelAlone(g) ==
  /\ goal[g].by = None /\ goal[g].now # None
  /\ goal[g].now.state \in {"inprogress", "reached"}
  /\ goal' = [goal EXCEPT ![g] = Stored([@.now EXCEPT !.state = "canceled"])]
  /\ UNCHANGED <<day, rules, challenge, report, member, grant, share, plan, today, target, before, closings>>

Statement(c) ==
  \/ Find(c) \/ Claim(c) \/ PassOver(c)
  \/ ReadRules(c) \/ ReadBefore(c) \/ Join(c) \/ Retire(c) \/ Sweep(c)
  \/ ReadMembers(c) \/ Look(c) \/ Insert(c) \/ ReadGoals(c) \/ Evaluate(c)
  \/ Fail(c) \/ ReadPodium(c) \/ ReadRealtime(c) \/ Grant(c)
  \/ Check(c) \/ Move(c) \/ StampReport(c) \/ Commit(c)

Next ==
  \/ NextDay \/ RulesChange
  \/ \E c \in Calls : Statement(c) \/ Rollback(c)
  \/ \E g \in Goals : EvaluateAlone(g) \/ CancelAlone(g)

Spec == Init /\ [][Next]_vars

-----------------------------------------------------------------------------
Version(v, values) ==
  /\ v.now \in values /\ v.new \in values
  /\ v.by \in Calls \cup {None}
  /\ v.by = None => v.new = v.now
  /\ v.by # None => ~Ended(v.by)

(* The variables keep their types, and a row with an uncommitted version is *)
(* held by a transaction that is still open.                                *)
TypeOK ==
  /\ day \in 0..MaxDay
  /\ rules \in RuleSets
  /\ Version(challenge, {"draft", "inprogress", "done"})
  /\ Version(report, Nat \cup {None})
  /\ \A u \in Users : Version(member[u], BOOLEAN)
  /\ \A g \in Goals : Version(goal[g], GoalRow \cup {None})
  /\ \A k \in Badges \X Users : Version(grant[k], BOOLEAN)
  /\ share \in SUBSET {c \in Calls : ~Ended(c)}
  /\ \A c \in Calls : \A i \in DOMAIN plan[c] : plan[c][i].op \in Ops
  /\ today \in [Calls -> 0..MaxDay]
  /\ target \in [Calls -> SUBSET Users]
  /\ before \in [Calls -> SUBSET Users]
  /\ closings \in Nat

Machine == INSTANCE ChallengeMachine WITH state <- challenge.now

(* "Both state machines move only through transition verbs": however the    *)
(* verbs and the daily check overlap, a committed challenge goes from       *)
(* draft to inprogress to done and back to draft.                           *)
FollowsTheMachine == Machine!MachineSpec

(* "materialize membership from the declarative rules and generate goals": *)
(* a live member has a goal on each line, whichever verb let him in and     *)
(* whatever ran beside it.                                                  *)
MembersHaveGoals ==
  \A u \in Users : member[u].now =>
    \A l \in Lines : \E c \in Calls : goal[<<c, l, u>>].now # None

(* "A member whose line-goal still covers today is skipped": nobody has two *)
(* goals that count for the same line on the same day.                      *)
OneActiveGoal ==
  \A g, h \in Goals :
    /\ g # h /\ <<g[2], g[3]>> = <<h[2], h[3]>>
    /\ goal[g].now # None /\ goal[h].now # None
    /\ goal[g].now.state # "canceled" /\ goal[h].now.state # "canceled"
    => ~(Covers(goal[g].now, day) /\ Covers(goal[h].now, day))

(* "The leaver sweep CANCELS the leaver's goals": a goal that counts belongs *)
(* to a live member.                                                        *)
NoOrphans ==
  \A g \in Goals :
    goal[g].now # None /\ goal[g].now.state \in {"draft", "inprogress", "reached"} =>
      member[g[3]].now

(* "A replay or a double-run converges": a place of the podium is awarded   *)
(* once per season, whatever the goals do between two closings of it, so    *)
(* that a badge has at most one holder for each place and season.           *)
PodiumOnce ==
  \A b \in Range(Podium) \ {None, RewardBadge} :
    Cardinality({u \in Users : grant[<<b, u>>].now})
      <= closings * Cardinality({p \in DOMAIN Podium : Podium[p] = b})
=============================================================================
