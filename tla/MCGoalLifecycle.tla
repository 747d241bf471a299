--------------------------- MODULE MCGoalLifecycle ---------------------------
(***************************************************************************)
(* Small instances of GoalLifecycle: one registered-metric goal (higher,   *)
(* target 1, a window that ends on day 0) and one manual goal (lower,      *)
(* target 0, an open window), and calls that meet on the same row.         *)
(***************************************************************************)
EXTENDS GoalLifecycle, TLC

CONSTANTS metric, manual, i1, i2, i3, i4, i5

MCMode == [g \in Goals |-> IF g = metric THEN "registered_metric" ELSE "manual"]
MCCondition == [g \in Goals |-> IF g = metric THEN "higher" ELSE "lower"]
MCTarget == [g \in Goals |-> IF g = metric THEN 1 ELSE 0]
MCEnd == [g \in Goals |-> IF g = metric THEN 0 ELSE Open]
MCValues == {0, 1}

Call(i, verb, g, v) == [id |-> i, verb |-> verb, goal |-> g, value |-> v]

OnMetric == {metric}
OnManual == {manual}

(* Two evaluations and a reach that meet on the goal, the window close and  *)
(* a leaver.                                                                *)
MetricCalls ==
  {Call(i1, "evaluate", metric, 0), Call(i2, "evaluate", metric, 0),
   Call(i3, "reach", metric, 0), Call(i4, "close", metric, 0),
   Call(i5, "leave", metric, 0)}

(* Three values entered beside a reach and a cancel.                        *)
ManualCalls ==
  {Call(i1, "enter", manual, 1), Call(i2, "enter", manual, 0),
   Call(i3, "enter", manual, 1), Call(i4, "reach", manual, 0),
   Call(i5, "cancel", manual, 0)}

MCCalls == MetricCalls \cup ManualCalls
MCGoals == {metric, manual}

(* The two goals share the calendar and nothing else, so the calls of one   *)
(* behaviour are those of one goal.                                         *)
MCNext == Next /\ \A c, d \in Calls : pc'[c] # "idle" /\ pc'[d] # "idle" => c.goal = d.goal
MCSpec == Init /\ [][MCNext]_vars /\ Fairness
=============================================================================
