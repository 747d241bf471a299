# Verification of backbone-engagement

TLA+ models of the write services of this repository, the TLC runs that check
them on small instances, and TLAPS proofs of their main properties for every
instance. Paths below are relative to the root of the repository.

`GWS`, `EWS`, `RWS` are `src/application/service/{gamification,engagement,rating}_write_service.rs`
and `GR`, `ER`, `RR` are `src/infrastructure/persistence/{gamification,engagement,rating}_repository.rs`.

## 1. The system

A Rust library (axum, sqlx) over PostgreSQL. There are no threads, queues or
caches of its own: all state is rows, and **one verb is one READ COMMITTED
transaction** of several statements. What is hard about it is therefore what
happens between the statements of two transactions:

- a statement sees what is committed when *it* runs, not when the transaction
  began, plus its own writes; `now()` is the time the transaction began;
- an UPDATE waits for the row lock, then writes over the *latest* version;
- a unique index makes the second insert wait for the first to end;
- advisory locks, `FOR UPDATE SKIP LOCKED` and the KEY SHARE locks of foreign
  keys order some of the transactions and not others;
- a transaction may end without a commit at any statement (error, trigger
  exception, deadlock victim, lost connection, crash), and then leaves nothing;
- the caller may retry, or deliver the same call twice.

| Part | State | Operations | Interacts with | What makes it correct |
|---|---|---|---|---|
| Karma ledger (GWS 541-604, GR 47-103) | append-only rows `old_value`, `new_value`, `tracking_date` | `append_karma`, `balance` | per-user advisory lock | a row starts from the balance it follows; no movement is lost |
| Badge grants (GWS 645-852, GR 178-380) | badges, grants, `grant_key` index | `grant_peer`, `grant_system` | generic badge CRUD; called by challenges and certification | monthly cap, ladder, exactly one grant per key |
| Certification (GWS 853-905) | a badge's `survey_id` | `certification_passed` | badge grants | the survey that claims a badge first keeps it |
| Goals (GWS 1191-1341, GR 720-817) | goal state and current value, transition trigger | `evaluate_goal`, `set_goal_current`, `manual_reach`, `cancel_goal`, window close, leaver sweep | challenges, metrics of the host | declared transitions only; reached and value agree |
| Challenges (GWS 1010-1188, 1344-1623) | challenge, memberships, goals, grants | `start_challenge`, `close_challenge`, `reset_challenge`, one turn of `daily_challenge_check` | goals, badge grants, host directory | declared transitions; one live goal per member, line and window; leavers keep none; one podium per season |
| Daily loop, reports (GWS 457-477, 1483-1623) | report dates, the processed set of a run | `daily_challenge_check` | challenges, whose start stamps the same dates | a run that returns leaves nothing overdue; reports keep their cadence; every run ends |
| Goal definitions (GWS 952-1008) | definitions | `create_goal_definition` | goals | field validation |
| Ratings (RWS 371-640, RR) | rating rows with nonce, expiry, answer | `issue_rating`, `submit_rating`, `rotate_token`, `reset_rating`, `publisher_reply` | signed links held by raters | one live request per rater; a link answers once |
| Attribution (EWS 329-464) | campaigns, sources, media | `resolve_attribution`, `create_campaign` | trackers | a known name is reused in any spelling; an identifier is free when it is taken |
| Link tracker (EWS 466-707) | trackers, click ledger, pool of connections | `create_tracker`, `resolve_redirect` | attribution | one tracker per tuple and code; one click per visitor and day, under a cap; the target is kept |
| Generated CRUD, handlers, events, seeders | none of their own | generic CRUD | the tables above | out of scope, see section 8 |

The behaviours that are hard to test are listed with their lines under
`hazards` in `PROJECT.json`.

## 2. Modules

| Module | Role |
|---|---|
| `KarmaLedger` | the append verb, statement by statement |
| `BadgeGrants` | both grant verbs |
| `ExactlyOnceGrants` | abstract: a key is minted once, every answer names that row |
| `Certification` | completion facts over `BadgeGrants`: lookup, stamp, grant |
| `GoalLifecycle` | the six writers of a goal row |
| `GoalMachine`, `ChallengeMachine` | abstract: the declared state machines (`src/domain/state_machine/`) |
| `ChallengeSeason` | one challenge, its members, goals and grants under start, close, reset and the daily check |
| `DailyCheck` | the runs of the daily check over several challenges, and their reports |
| `RatingToken` | the five rating verbs over one rated record |
| `OneTimeLink` | abstract: what a rating request promises the holders of its links |
| `EngagementLinks` | attribution, authored campaigns, trackers and redirects |
| `ClickLedger` | abstract: one counted click per tracker, address and day, up to a cap |
| `RedirectTarget` | the address a redirect sends its visitor to |
| `MC*` | the instances TLC checks, one `.cfg` per run |
| `*Proofs` | the theorems of a component |

`Certification` EXTENDS `BadgeGrants`: a fact's grant is one of its system
calls, so every interleaving with other grants is there. `DailyCheck` abstracts
a turn or a verb to its effect on the challenge's state and report date, and
`ChallengeSeason` has them in full. The others share no table.

The correspondence, definition by definition with source lines, is `map` in
`PROJECT.json`. The conventions are the same in every module:

- A **call** is a record of the verb's arguments. A transaction is a call with
  a program counter `pc[c]` (in `ChallengeSeason`, a list `plan[c]` of the
  statements it has still to run). One action is one statement that reads or
  writes shared state. Checks between two statements belong to the action of
  the statement before them.
- **Rollback(c)** is possible wherever a transaction is open. It stands for
  errors, lost connections, crashes and deadlock victims. Where a verb is
  several transactions (`Certification`, `DailyCheck`, `create_tracker` of
  `EngagementLinks`) a failure leaves what the earlier ones have committed.
- A row that is locked while uncommitted is a version record
  `[now, new, by]` (`RatingToken`, `ChallengeSeason`), a pair of functions
  `row`, `work` with a `lock` (`GoalLifecycle`), or a row in state "pending"
  that blocks its equals under a unique index (`EngagementLinks`). Where a
  pending row blocks nobody (the karma INSERT) INSERT and COMMIT are one action.
- **Inputs** are the sets of the instance: `\E`, or the arguments of a call.
- Time is a bounded counter advanced by an action of its own between any two
  statements. Each transaction keeps the time it began, or the clock it read.

**KarmaLedger.** `Begin`, `LockUserLedger` (`pg_advisory_xact_lock(hashtext(user))`,
so two users may share a key), `ReadBalance` (newest row by date, then id),
`AppendRow`, `Rollback`. `AddI32` wraps, as a release build does.

**BadgeGrants.** `grant_peer`: `FindBadge`, `Admit` (self-grant, ladder),
`LockPeerGrants`, `CountPeerGrants`, `CapReached` or `InsertPeer`.
`grant_system`: `FindBadge`, `InsertKeyed`, `Conflict`, `CommitKeyed`,
`Converge`, `Answer`. A badge edited or deleted through the generic routes is
`EditBadge`, at any point between two statements.

**Certification.** `Resolve` (`find_badge_by_name`: *any* live badge of the
name), then `Stamp`, `StampRefused` (the unique arms of the lineage migration)
or `Keep`, then `Grant`, which begins the `grant_system` call of `BadgeGrants`,
and `Answered` or `Lost`. `Die` is the host stopping between two of its three
transactions. `EditSurvey` and `EditNamed` are the generic routes.

**GoalLifecycle.** `Find` reads without a lock. `WriteCurrent`, `Start`,
`Land`, `Cancel` and `Sweep` write over the latest version under the trigger,
which is `set_goal_state`. `Unmet` is the refusal of `manual_reach` that rolls
its value back.

**ChallengeSeason.** The plan of each verb is the list of statements of
`StartPlan`, `ClosePlan`, `ResetPlan` and `DailyPlan`; `Fill` is
`reconcile_membership` followed by `generate_goals`. A statement that yields
rows puts the statements over those rows in front of the rest. Verbs read the
challenge without a lock. Only the daily check claims it (`Claim`, `PassOver`):
a draft that may start, a running challenge, or one that is done and has a report
due (`report`, stamped by `StampReport` in start and in a turn). The turn of the
last kind has nothing in its plan but the report (`DailyPlan`). `MayRefer` is the
foreign key's KEY SHARE lock that waits for a claim. `generate_goals` looks at
every pair of a line and a member, in any order, and `Awarded` is the places of
the podium up to the first that nobody has earned.

**DailyCheck.** A run is `Begin`, then per challenge `Claim` (the smallest due
id that is not processed and not locked, FOR UPDATE SKIP LOCKED) and
`CommitReport`, `CommitSilent` or `Fail`, and at last `Return`. `Fail` is the
`?` of the loop: the error ends the run with what its earlier turns committed.
A challenge that is done is due when its report is, and its turn only reports.
A start, close or reset by hand is `BeginVerb` (the unlocked read, the check of
the state, the date), `ReferTo` (the first insert that refers to the challenge
waits for a turn that claimed it, and makes later claims skip the challenge),
`WriteState` (the UPDATE under the trigger, which lets a state that does not
change pass) and `CommitVerb`, where start stamps the report dates of the date it
took; or `AbandonVerb`. `Midnight` moves the calendar under runs and verbs that
lag. Months and years begin on the days of `Firsts` and `NewYears`.

**RatingToken.** `Probe`, `Insert`, `Reread`, `Answer` (issue); `Load`,
`Submit`, `Refuse`, `Commit` (submit); `Find`, `Rearm`, `Answer` (rotate and
reset); `Reply`, `Commit`. The MAC is modelled by what it does: a submit can
only come with a link some call has handed out.

**EngagementLinks.** `resolve_attribution` goes through campaign, source and
medium: `Seek` (case-insensitive), `Miss`, for campaigns `Name`
(`free_campaign_identifier`), `InsertMaster` or `InsertRefused` (the
case-sensitive unique index), `CommitMasters`; `create_campaign` adds `Check`
for an explicit identifier. `create_tracker` is three transactions: `Probe`;
`Draw` and `TryCode` (`mint_code`); `Reprobe`, `InsertTracker` or `CodeTaken`,
and `CommitTracker`. `resolve_redirect` is `Look`, `Count` (which also reads
the clock), `Click`, `Replay` or `Unkeyable`, and `CommitHit`. `Connection` is
the pool: `begin()` waits for a free one. `EditMaster` and `EditTracker` are
the generic routes. A name is a base, a spelling and a counter, and a code is
an atom of its length.

**RedirectTarget.** `inject_utm_params` over sequences of tokens: split at the
first `#`, then at the first `?`, then at every `&` and at the first `=` of a
parameter; drop the three utm keys in any spelling; append the percent-encoded
names of the masters. `Split` reads a query by position: a parameter begins at
the start and after every `&`. `Redirect` is a visitor passing one tracker of a
chain.

## 3. What the runs check

Twelve runs; the bounds are the constants of the `.cfg`.

| Run | Instance | Distinct states | Shows |
|---|---|---|---|
| `karma` | 3 appends, 2 users with keys of their own, balances modulo 8, 2 clock values, 3 ids | 296,456 | a row's `old_value` is the projection over the rows committed before it; while appends commit in start order nothing is lost; no append waits for ever |
| `badges` | one of four scenarios: 3 peer grants of one badge around a month's end while its cap is edited; a ladder whose prerequisite arrives meanwhile; one key delivered 3 times and another once, the badge deleted and restored; facts of 2 surveys, one redelivered, on 2 badges of one name | 77,911 | the rows of a month fit a cap one of them read; no peer row bypasses the ladder; one row per key and every answer names it (refinement of `ExactlyOnceGrants`); a badge keeps the survey that certified it first, and no answer names another; every grant ends |
| `goal` | a metric goal and a manual goal, 5 calls each, 2 days | 27,331 | the declared machine (refinement of `GoalMachine`), no running or failed goal whose value meets its condition, no answered reach undone, every call ends |
| `goal_stale` | the manual goal | | **violation**, section 6 |
| `daily` | 3 runs around 2 midnights, a challenge of two days with a daily report and an endless one with a monthly report, a start, close or reset by hand beside the first; any turn may fail | 942,373 | reports of a challenge are a whole cadence apart, but where a start stamped a date older than a report; a run that returns leaves nothing overdue but what another run held; every run ends |
| `season_daily` | 2 turns of the daily check and a reset, 2 users, daily windows and reports, 4 days of which the last two are after the end, while the rules lose and regain a member | 912,776 | behind the claim of the daily check: one active goal, no orphans, one podium per season; every member has a goal on each line |
| `season_verbs` | start twice, close, reset and the daily check, all overlapping | 311,214 | the declared machine (refinement of `ChallengeMachine`) |
| `season_twice`, `season_podium`, `season_orphan` | unlocked verbs beside each other | | **violations**, section 6 |
| `rating` | 2 issues of one rater, 2 submits, a rotate, a reset, a reply, at most 4 of them in one behaviour, 2 clock values | 36,215 | one live request per rater; refinement of `OneTimeLink`; every call ends |
| `engagement` | one of six scenarios: 3 resolves and authored campaigns at once, or 2 and 2 edits; 3 creates of 2 tuples over 3 codes of 2 lengths, or 2 and 2 edits; a tracker and 3 of 4 hits around midnight, at a cap of 1; a chain of trackers from every target of up to 3 tokens. 2 connections | 71,244 | no name known before a resolve began is minted again; only races duplicate a tuple; live trackers never share a code; the cap is passed by at most Connections - 1, where Connections counts those of all processes; refinement of `ClickLedger`; a redirect keeps its target; every call ends |

Each property has a mutant in `PROJECT.json`: a plausible bug in one mapped
definition (a lock not taken, a WHERE clause lost, a boundary off by one) under
which TLC finds the property violated in the same run.

### Bounds, and why they are enough

The hazards are orders of statements of two transactions on one row, with a
third that changes the row before or after. Three calls of a kind give a winner,
a loser and a bystander; the fourth and fifth calls are of the other verbs. Two
clock values distinguish "same instant" and "later", and two months or days give
one boundary. The karma balance is taken modulo 8 so that +3 overflows on the
second append. `MaxBegun = 4` in `MCRatingToken` admits every combination of
four of the seven calls, which includes each verb against each other and two of
a kind beside two others. In `goal`, the two goals share nothing but the
calendar, so a behaviour uses the calls of one of them.
Permutation symmetry is used only between calls whose arguments differ by id,
and only in the season runs.

The instances of the season runs use one line: lines do not interact except in
the average completeness of the podium's ranking, and `AllReached`. They have two
users, and so two contenders for a single podium place. `season_verbs` has
stable membership rules and `season_daily` has rules that lose a user and take
him back; the two together were too large for one run.

In `daily`, two challenges are what a run that fails on the smaller id leaves
behind, three runs are a winner, one that lags and one that retries, and the
month of two days ends once. One verb by hand is enough for a start that waits
for a turn of a later day. In `season_daily` the fourth day is the one on which
a challenge that closed on the third is due again, for its report alone. In
`badges` and `engagement` a behaviour takes its calls from one scenario, because
the scenarios share no row that another one's calls would change in a new way.
`MaxCounter = 1` makes the identifiers of a title run out; the cap of one click
is full after one visit, and two connections are the fewest that let two hits
pass it together. Targets of three tokens, with or without a `?` before them,
hold every pair of marks next to every kind of key; the chain composes them.

`CHECK_DEADLOCK FALSE` is set everywhere because calls are finite in number and
the calendar is bounded: a state in which all calls have ended is final. That
nobody waits for ever is what the liveness properties `EveryAppendEnds`,
`EveryGrantEnds`, `EveryRunEnds` and `EveryCallEnds` say instead.

### Fairness

Weak fairness of the statements of a call that has begun: the runtime drives a
future to its end and PostgreSQL wakes a waiter when the lock is released. It is
never assumed that anyone calls, that a transaction fails, or that a winner
survives until it has answered. `Rollback` and the clock are never fair.
In `Certification` (`CertFairness`) the statements of a fact that has begun are
part of that action; in `DailyCheck` it is the next step of some run, and in
`EngagementLinks` the next statement of some call: as long as one of them can
go on, one does.
`ChallengeSeason` states no liveness property: its waits can deadlock and the
database then resolves them by aborting one call (`Rollback`).

## 4. What is proved

TLAPS checks these for every value of the constants that satisfies the named
assumptions (`KarmaAssumption`, `BadgeAssumption`, `CertificationAssumption`,
`GoalAssumption`, `ChallengeAssumption`, `DailyAssumption`, `RatingAssumption`,
`EngagementAssumption`, `RedirectAssumption`, `NoneIsNoRow`). These say that the constants have the
types the comments give them and that the "no value" constants are no values.
Beyond that, `BadgeAssumption`, `ChallengeAssumption` and `EngagementAssumption`
ask for finitely many calls (and members and lines), since caps count rows and
plans list them, `DailyAssumption` asks that a month and a year begin after
every day of the calendar, and `RedirectAssumption` that no word of a name reads
as a percent code, because `percent_encode_query_value` encodes the percent sign
as well (EWS 226). TLC evaluates all of them in the runs.

| Module | Theorems | Argument |
|---|---|---|
| `KarmaLedgerProofs` | `TypeCorrect`, `AppendsReadTheProjection`, `NoDeltaLost` | `IInv` adds that a call between its lock and its commit holds its user's lock, and that the balance it has read is still the projection; a row of another user cannot disturb it |
| `GrantProofs` | `TypeCorrect`, `CapIsHeld`, `LadderIsHeld` | `PeerInv`: a call that has counted holds the lock of its badge and sender, and its count is still below the cap it read |
| | `KeyedGrantsAreUnique`, `KeyedGrantImplementsItsPromise` | `KeyInv`: a pending row is alone with its key, and a winner that has not answered has its row; then each step maps to a step of `ExactlyOnceGrants` or a stutter |
| | `CertTypeCorrect`, `LineageIsKept`, `FirstCertificationKeepsTheBadge` | `CertInv` adds `Carried`: a survey a fact found on its badge is still there, unless a generic edit moved it |
| | `CertificationsAreGrants`, `CertifiedOnce` | each step of `Certification` is a step of `BadgeGrants` or leaves it alone, so `CertSpec => Spec` and its refinement carries over |
| `GoalLifecycleProofs` | `TypeCorrect`, `RunningGoalsAreUnmet`, `AnsweredReachIsKept`, `GoalsFollowTheMachine` | `GoalInv`: what an open transaction has written so far (`Wrote`, `Landed`) follows from the row it locked |
| `ChallengeSeasonProofs` | `TypeCorrect` | `Types`: the plan of an open transaction has one commit, at its end, and the arguments its statements expect; every uncommitted row belongs to such a plan |
| | `ChallengesFollowTheMachine` | `MachineInv`: an uncommitted move is declared, or the draft to done of one turn, and what its plan has left can only close |
| | `MembersAlwaysHaveGoals` | `MembersInv`: for a member who is not committed yet, the call that let him in will still read the members, holds a look or an insert for each of his lines, or sees the goal |
| `ChallengeClaimProofs` | `OneTurnAtATime` | `ClaimInv`: every plan has its statements in the verb's order, a turn holds the challenge it claimed and has only a report left where that is done, and which verbs hold which rows |
| | `OneGoalBehindTheClaim`, `NoOrphansBehindTheClaim` | `GoalInv`, where nobody calls `start_challenge`: at each statement of a turn, the joins and looks it has left are of users it wants and members it sees, no goal it sees is live before it inserts one, and the only goals without an owner are those its next statement sweeps; and the committed goals are sound |
| | `PodiumOnceBehindTheClaim` | `PodiumInv`, where nobody calls `close_challenge`: who holds a badge or will, as a turn sees it, is within the limit of the seasons that have ended, or of one more if the turn will end one (`WillClose`), which no turn on a challenge that is done will: its plan only reports |
| `DailyCheckProofs` | `TypeCorrect`, `ReportsKeepTheirCadence`, `SweepsAreComplete` | `Turns`: the row a turn has read is still the row, and no verb has written it. `Clock`: a report leaves `next_report_date` a whole cadence after it, and so does a start, whose date is not before the report's unless the challenge is marked `rewound`. `Handled`: what a run has committed stays not overdue at its date, whatever other runs commit |
| `RatingTokenProofs` | `TypeCorrect`, `OneRequestPerRater`, `LinksKeepTheirPromise` | `IInv`: who holds a row and what it has written. `Exclusive`: two open index entries of a rater never coexist, committed or not. `OneTime`: the current nonce of an unanswered row is unused. Then the refinement of `OneTimeLink` |
| `EngagementLinksProofs` | `TypeCorrect` | `TypeInv`: what each program counter says of the call's rows, and that a call that has not inserted left its rows absent |
| | `KnownNamesAreReused` | `Unstarted`, `Sought`: a call that is past a kind has found no namesake among the masters that were there before it began |
| | `DuplicatesComeFromRaces`, `CodesHaveOneOwner` | `Earlier`, `Probed`: the second probe saw every tracker committed before the create began. `Inserted`, `CodesHeld`: rows that hold a code, committed or pending, differ in it |
| | `CapOverrunHasABound` | `Pooled`, `Crowded`: the clicks of a tracker and the hits that passed its count share the connections |
| | `ClicksImplementTheLedger` | `ClickInv`: dedup keys differ, committed or pending, and a hit sent on uncounted was at the cap; then the refinement of `ClickLedger` |
| | `RedirectsKeepTheirTarget` | `RedirectInv`: page, fragment and kept parameters of the address are those of the target after any number of trackers, and its parameters are these and then the last tracker's |
| | `AddressesRoundTrip` | an address put together from a base, a list of parameters and a fragment is taken apart into them |

The invariants the runs check are not inductive: they speak of committed rows,
while a step's effect depends on what open transactions have read or locked.
Each strengthening says precisely that.

The two theorems about redirects are about texts of any length, which are made
and read by `FlattenSeq`, a recursive function of the library. Induction over
its positions is done with sets: the positions at which a statement fails would
have a least one (`LeastNatural`, from the well-foundedness of `<`). From that
come `InductionOverSeq`, that `FlattenSeq` satisfies its equation
(`FlattenExists`, `FlattenIs`), and its values on appended and concatenated
sequences. `SplitConcat` (the parameters of two queries joined by `&` are those
of the one and then of the other) is the step of the induction that a query made
of parameters is read as these (`QueryRound`). The bound on targets that the run
needs (`MaxTokens`) is any natural number here, and a chain may have any length.

Three theorems of `ChallengeClaimProofs` have a hypothesis about the calls,
`NoStart` or `NoClose`, because the properties fail without one: the runs
`season_twice` and `season_orphan` need a start, `season_podium` a close, and in
each the unlocked verb overlaps another call (section 6). With the hypothesis
they hold for any number of turns of the daily check and of the other verbs, in
every overlap. `OneGoalBehindTheClaim` and `NoOrphansBehindTheClaim` allow
`close_challenge`, which fails goals and adds none; `PodiumOnceBehindTheClaim`
allows `start_challenge`, which grants nothing. The calls of `season_daily`
satisfy both hypotheses.

## 5. What is only model-checked

- All liveness (`EveryAppendEnds`, `EveryGrantEnds`, `EveryRunEnds`,
  `EveryCallEnds`): liveness under fairness and `ENABLED` are beyond the prover.

Every safety invariant and every action property the passing runs check is stated
by a theorem.

## 6. What disagrees with the documents

Four runs end in a violation of a sentence of the repository. Details and
quotations are under `findings` in `PROJECT.json`.

- `goal_stale` / `ReachedMeansMet`: `set_goal_current` (GR 741) has no condition
  on the state. An entry that read the goal in progress overwrites the value of
  a goal that has been reached in between, which stays reached below its target.
- `season_twice` / `OneActiveGoal`: goals are looked up and inserted in two
  statements, and nothing but the daily claim keeps two generations apart. The
  unique index on memberships serialises two *first* starts; in a second season,
  where the members are already there, two starts generate a goal each.
- `season_podium` / `PodiumOnce`: the trigger lets done → done pass, so a second
  `close_challenge` that read inprogress runs the podium again; if the ranking
  has changed in between the place goes to another user as well, since the
  grant key names the user.
- `season_orphan` / `NoOrphans`: the leaver sweep cancels the goals of the
  members its baseline saw, while the retirement removes every member who is
  not wanted, including those committed after the baseline.

The first is a stale read of a single row; the other three need an unlocked verb
beside another call. Behind the daily check's claim these properties hold
(`season_daily`, and the theorems of `ChallengeClaimProofs`).

One divergence is not a finding, because the repository records it itself
(`schema/hooks/engagement.hook.yaml:152`): the balance is ordered by
`tracking_date`, the *start* of a transaction, and the lock is taken later, so
an append that began first and locked second is invisible to the balance.
`NoDeltaLostInStartOrder` states what does hold. Others of that file are
modelled and not counted: the live row that is reused after its link expired
(`Probe`), and the reset that races an evaluation (`Check`, `Move`).

Other places where the code and a document or comment of it part, found while
modelling and stated here without a run of their own:

- **Certification.** The loser of a race to stamp a badge answers no lineage,
  although the badge carries the winner's survey (GWS 880). `find_badge_by_name`
  takes any live namesake; if one of them already carries the fact's survey and
  the lookup finds the other, the stamp fails on the unique index, at every
  redelivery. After a rename or a restore a redelivery may answer the row of one
  badge with the lineage of another.
- **Click cap.** "Hard ceiling" (EWS 48): the count and the insert are two
  statements, and as many hits as there are connections, less one, may pass it.
- **Click key.** An address of more than about 150 characters, which is the
  first hop of `X-Forwarded-For`, makes the dedup key longer than its CHECK
  (`migrations/20260929000004_add_declared_checks_c98a972e.up.sql:487`): the
  redirect fails (`Unkeyable`), although counting is never to stop it (EWS 31).
- **Names.** An absent `Foo [2]` is looked for as `Foo [2]` and minted as `Foo`,
  so resolving it again mints again. A title of 120 characters leaves no room
  for a counter: the insert fails on the name's CHECK.
- **Trackers.** Overlapping creates duplicate a tuple, which the code accepts
  (EWS 564); `OnlyRacesDuplicate` is what remains.
- **Redirects.** "Everything else is preserved verbatim" (EWS 256): a parameter
  `flag` comes out as `flag=`, empty ones are dropped, and a `utm_*` of the
  target goes even where the tracker has no such master. `TargetsAreKept` says
  what a reader of the query still finds.
- **Daily check.** Reports that earlier turns stamped are lost when a later
  turn fails (GWS 1486): the date has advanced and nobody is told. A challenge
  that always fails stops every run before the larger ids. "Closed challenges
  keep reporting until they run out" (GWS 1604): a challenge that is done is due
  whenever its report is (GR 482), each report sets the next date, and nothing
  ends that but a reset.
- **Report clock.** "Plain stored state the daily check owns" (GR 513):
  `start_challenge` stamps it as well, with the date it took when it began (GWS
  1132-1138). A start that read draft on one day and waits for a turn of the
  next day writes inprogress over inprogress, which the trigger lets pass, and
  sets `next_report_date` back to that next day; a second run of it then reports
  the same day again. `CadenceHolds` leaves out the challenges this happened to
  (`rewound`) and no others.
- **Issue.** An issue that lost the index to a request that was answered
  meanwhile finds no live row to converge on and answers 500 (RWS 465).

While modelling we also noticed that `manual_reach` of a manual goal can succeed
only if its definition was edited after its value was entered: entering a value
that meets the condition reaches the goal at once.

## 7. Plan

Done: every verb of the three write services that changes state has a module,
but for the one insert of `create_goal_definition`, and every module has its
theorems. Left:

1. **Rewards of a user who left and came back.** He keeps a canceled goal beside
   the new one and is never counted as fully succeeding again (GWS 1413). No
   document says what he is owed; with an answer it is an invariant of
   `ChallengeSeason`.
2. **`set_goal_current` and the hosts' evaluations inside a season.** They are
   `EvaluateAlone` and `CancelAlone`, one step each, in `ChallengeSeason`, and
   statement by statement in `GoalLifecycle` without a challenge around them.
3. **Re-reading after a lost index** in `RatingToken`: `Reread` has the outcome
   "failed"; whether the caller's retry always converges is not stated.

## 8. What is not modelled, and why

- **Generated CRUD, handlers, DTOs, entities, repositories, seeders, exports.**
  They are most of the repository's lines: declarations, mappings between
  types, and aliases of generic crates that are not in this repository. They
  hold no state and take no decision a property could be about. The edits that
  their routes allow on shared rows are actions for badges, masters, trackers
  and the membership rules of a challenge (`EditBadge`, `EditSurvey`,
  `EditNamed`, `EditMaster`, `EditTracker`, `RulesChange`), and for no other row:
  not for the lines of a challenge, goal definitions and clicks. The generated
  transition routes of goals and challenges are never mounted (`src/lib.rs`
  mounts those entities read-only). This is why the models, which follow the
  three write services and the SQL under them, cover a small part of all lines.
- **Domain events**: declared types; the verbs of the write services publish none.
- **Reads**: statistics, leaderboards, rank lookups, `tracker_detail`,
  `campaign_click_total` and the payload of a report are SELECTs that change no
  state and promise no more than the rows they read.
- **Goal definitions**: `create_goal_definition` is one insert after its
  validation. A goal's definition is a constant of `GoalLifecycle`.
- Within modelled verbs: validation of lengths and formats before the
  transaction begins, comments, levels, reminder flags, country codes, and the
  karma rank facts.
- In `ChallengeSeason`, every line has the same target and the condition
  "higher", manual goals are covered by `GoalLifecycle`, and a statement that
  writes several rows waits until it can have all of them. Revoking a grant, editing
  the challenge's lines, dates, cadence or reward columns during a season, and
  deleting the challenge are left out.
- **Clicks** are rows that `resolve_redirect` inserts and nobody else touches:
  what the generic routes could do to them is left out.
