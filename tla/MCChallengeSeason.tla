-------------------------- MODULE MCChallengeSeason --------------------------
(***************************************************************************)
(* Small instances of ChallengeSeason: one line, two users, and calls that *)
(* meet on the challenge, on its members or on its goals.                  *)
(***************************************************************************)
EXTENDS ChallengeSeason, TLC

CONSTANTS anna, bela, line, gold, silver, i1, i2, i3, i4, i5

MCUsers == {anna, bela}
MCIdOrder == [u \in MCUsers |-> IF u = anna THEN 1 ELSE 2]
MCLines == {line}
MCValues == {0, 1}
OnlyMet == {1}

(* Membership rules that lose a user, or that stay as they are.             *)
JustAnna == {{anna}}
Leaving == {{anna, bela}, {anna}}
Steady == {{anna, bela}}

Call(i, verb) == [id |-> i, verb |-> verb]

(* period_window for "daily", for "weekly" where day 0 is a Sunday, and for  *)
(* "once".                                                                  *)
DailyWindow == [d \in 0..MaxDay |-> d + 1]
WeeklyWindow == [d \in 0..MaxDay |-> IF d = 0 THEN 0 ELSE 7]
OnceWindow == [d \in 0..MaxDay |-> EndDate]

(* advance_report_date for "daily", and "never".                            *)
DailyReport == [d \in 0..MaxDay |-> d + 1]
NoReport == [d \in 0..MaxDay |-> None]

OnePlace == <<gold>>

(* Two turns of the daily check and a reset between or beside them.          *)
DailyOnly == {Call(i1, "daily"), Call(i2, "daily"), Call(i3, "reset")}

(* Every verb, and two starts.                                              *)
AllVerbs ==
  {Call(i1, "start"), Call(i2, "start"), Call(i3, "close"), Call(i4, "reset"),
   Call(i5, "daily")}

(* A season that is over and reset, and two starts of the next one.         *)
NextSeason ==
  {Call(i1, "start"), Call(i2, "start"), Call(i3, "daily"), Call(i4, "reset")}

(* A started challenge, closed twice.                                       *)
TwoCloses == {Call(i1, "daily"), Call(i2, "close"), Call(i3, "close")}

(* Two starts and the daily check reconcile the same challenge.             *)
StartAndDaily == {Call(i1, "start"), Call(i2, "start"), Call(i3, "daily")}

(* Calls of one verb differ by id alone.                                    *)
SameVerb == Permutations({i1, i2})
=============================================================================
