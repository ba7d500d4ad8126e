# Eastern State KPI dashboard: TLA+ models, checks and proofs

The program is a Next.js application over one SQLite database (`node:sqlite`,
synchronous) run as exactly one Node process. Staff record monthly results for
the organisation's strategic plan, Admins configure the plan and the Board
report, and every few years a *successor* plan is drafted, checked and
activated. Source paths below are relative to `src/` of the checkout
(`src/features/plans/server.ts` is `src/src/features/plans/server.ts` in
`PROJECT.json`).

## 1. Inventory

| part | state it keeps | operations | talks to |
|---|---|---|---|
| plan lifecycle and activation (`features/plans/server.ts`, `app/api/strategy/plans/**`) | `strategic_plans`, `plan_activation_operations`, lifecycle events, the pause and integrity markers in `meta`, backup files | create, edit, cancel a Draft; `activateDraft`: pause, backup, switch, verify; retry answers | the markers and triggers of `lib/db.ts`; the filesystem |
| Draft preparation (same file) | section reviews, readiness overrides, lineage, draft questions, revisions | edit, review, override, evaluate readiness | whole-plan triggers |
| database (`lib/db.ts`) | schema, triggers, connection | open = migrate + reconcile; `transaction` | everyone |
| recovery command (`scripts/plan-activation-recovery.ts`) | the database file and its images | inspect, restore | markers, write counter |
| users, sessions, authority (`features/users`, `lib/session.ts`, `features/auth`) | `users`, `sessions_valid_after`, cookies | log in, out, change password, enable, disable, delete, change role | throttle, mutation guard |
| login throttle (`lib/login-throttle.ts`) | one in-memory map | record, clear, lock, budget, prune, evict | login and password routes |
| request guard (`lib/request-guard.ts`, `lib/plan-write-safety.ts`) | none | origin, size, pause checks before the body | every mutation route |
| result entry (`features/strategy/value-entry.ts`, `data-entry-server.ts`) | `kpi_observations`, component entries, distributions and their bands, entry drafts | enter, correct, delete; several months at a time | the definition in force, the Active plan's years |
| configuration (`features/strategy/configuration-editing.ts`, `mutations.ts`, `features/catalog`) | Priorities, KPIs, effective-dated definitions, Targets, components, goals, memberships | versioned edits, successors, archive, restore | results, whole-plan triggers |
| entry form (`app/data-entry/_components/StrategicDataEntryClient.tsx`, `strategic-data-entry-model.ts`) | typed drafts, the baseline they are compared with, hidden records | type, save, clear, leave, take a refresh | result entry, the router |
| plan settings (`features/installation/server.ts`) | the Active plan's years, the organisation | change the range, extending Goals and memberships | definitions, Targets, results; the Draft |
| calculations and periods (`calculations.ts`, `periods.ts`, `goal-completion.ts`, `target-policy.ts`, `reporting-cycle.ts`) | none | pure functions | reports |
| Board report (`features/board-reporting`, `features/reporting`) | scope, priorities, statements | edit scope, build report | plan, results |
| audit, health, exports, legacy import, seed and e2e scripts, UI | append-only audit rows | | |

How they interact: a mutation route checks the session, then the guard (origin,
pause, integrity), *awaits the request body*, and then runs one synchronous
transaction. SQLite triggers are the only protection after the await. Activation
is the one operation that spans several transactions: it pauses saving in the
first, awaits an online backup, switches plans in a third, verifies and reopens
in a fourth. Every opening of the database reconciles an interrupted activation.

What is hard here: the awaits between a check and the transaction that relies on
it; crashes between the transactions of an activation; cleanup transactions that
fail in turn; retries of an activation identity; an operator restoring an image
after the fact; a second process opening the database; revisions and reviews
kept current by triggers; caches and counters in memory (the throttle) at their
limits; pages and forms that were rendered from a state since edited, requests and
answers that are lost, refreshes that arrive late; rules written three times (in
the form, at the server, in the calculations) that have to agree. `PROJECT.json` lists each of them under `hazards` with its line.

### What makes each part correct

* Lifecycle: exactly one Active plan, at most one Draft prepared from it, closed
  plans frozen, the switch is one step, and nothing acknowledged is ever lost.
* Activation: saves are paused exactly while an operation is unresolved; what a
  client was told of an identity stays true; only an enabled Admin switches; a
  pause ends or calls the operator.
* Draft preparation: a revision stands for one state of the plan; an approval
  does not outlive the content it approved.
* Throttle: a lock is never shortened by eviction, pruning or other identities;
  memory is bounded; a lock admits only a bounded number of password comparisons.
* Sessions: after a revocation no earlier session acts; one enabled Admin remains.
* Results and definitions: a result is found under exactly one definition, the
  one its input was checked against; history is never reinterpreted; a Target
  means one thing; what may be entered can be calculated and edited again.
* Goals: each year of the plan is judged by one rule, over Measures that each
  count once; reported years keep both; a rule stays satisfiable.
* Board report: it shows what an Admin approved, as approved, and one approval does
  not replace another unseen; the catalog deletes nothing it was not asked about.
* Entry form: what it shows as saved the server has held, what it shows at rest
  is what the server holds.
* Calculations and periods: totals of the periods agree with their definition at
  every boundary (first and last month, zero, missing), and the dashboard, a Goal
  and the Board, which compute from the same rows on their own, agree with each other.

## 2. Modules

| module | what it is |
|---|---|
| `PlanSwitch` | abstract lifecycle: save, prepare, discard, switch, undo. No pauses, no backups, no crashes |
| `PlanActivation` | `activateDraft`, the markers and triggers, restart reconciliation, operator restore, and the ordinary mutations of the same process |
| `PlanActivationInv` | the inductive invariants of `PlanActivation` |
| `PlanActivation_proofs` | types, safety, history, that `PlanActivation` implements `PlanSwitch`, and what is left of it under `SecondProcess` |
| `SecondProcess` | `scripts/setup-admin.ts` opening the database of a running server |
| `PlanDraft` | the Plans guide on one Draft: items, reviews, overrides, lineage, Board scope, readiness, the whole-plan triggers |
| `PlanDraft_proofs` | its types, its optimistic lock, what its reviews, decisions and readiness mean |
| `MeasureHistory` | one Measure over the years: definitions, Targets, results, the plan's range |
| `Catalog` | Priorities and Measures as the catalog routes create, move, archive and delete them |
| `BoardEditor` | the Board reporting scope of each plan and the pages that replace it, with `Catalog` changing under them |
| `Configuration_proofs` | the types and the four properties of `MeasureHistory`; the invariants of `BoardEditor` and what a deletion spares |
| `SessionAuthority` | abstract sessions: prove, begin, end, revoke |
| `Accounts` | accounts, sign-in, password rotation, cookies, the operator script; implements `SessionAuthority` |
| `Accounts_proofs` | its types, its three properties, and the refinement |
| `LoginThrottle` | the throttle's store with locks, budgets, eviction and pruning, and the attempts of both routes |
| `LoginThrottle_proofs` | the store stays sound, locks hold |
| `Periods` | which period an entry names, which one a form opens on, how much of the year it closes |
| `Calculations` | the calculation kernel: results, aggregation, progress, Goal completion |
| `ResultRules` | one result as the form builds it, as the server accepts and stores it, and as the kernel is asked about it |
| `Summary` | stored rows to actuals, applicable Targets, year-to-date and plan figures, Goal completion, rollups |
| `BoardReport` | the Board's cells, what is sanitized away, the rows of its download |
| `ResultEntry` | a Measure of any type whose results are entered, corrected and removed |
| `DistributionEntry` | the same for a distribution, whose bands are edited under its entries |
| `DataEntryLaws` | laws of the pure parts, as assumptions TLC evaluates |
| `DataEntry_proofs` | of both: what is saved computes and saves again unchanged, one band of a slug per year, derived shares stand; headlines are the year to date, pacing is honest, Goals are earned |
| `GoalHistory` | one Goal over the years: versions of its rule, memberships, results, the plan's range |
| `GoalHistory_proofs` | its types and its four properties |
| `ComponentSet` | the components of a Measure, the Targets of the set, the results entered in it |
| `EntryForm` | the entry form of such a Measure: drafts, requests, refreshes, navigation, with `ComponentSet` under it |
| `EntryForm_proofs` | the types, coherence and Targets of a component set; what a form shows; that forms do to a set only what `ComponentSet` allows |
| `MCPlanActivation`, `MCSecondProcess`, `MCPlanDraft`, `MCConfiguration`, `MCAccounts`, `MCLoginThrottle`, `MCDataEntry`, `MCGoalHistory`, `MCEntryForm` | instances for TLC |

How they compose: `PlanActivation` implements `PlanSwitch` and is extended by
`SecondProcess`; `Accounts` implements `SessionAuthority`. `Calculations` <-
`ResultRules` (with `Periods`) <- `Summary` <- `BoardReport` <- `ResultEntry` <-
`DistributionEntry` <- `DataEntryLaws` is one chain from the kernel to the
machine that enters results and reads them everywhere. `EntryForm` runs
`ComponentSet` as the server its form talks to, and `BoardEditor` extends `Catalog`:
a save of the Board checks the catalog, and what the Board links may not be deleted.
`MCConfiguration` puts `MeasureHistory` and `BoardEditor` side by side: they share no
state, and a behaviour is one of either.

In every module about stored state one action is one SQLite transaction (a
handler with awaits is several); the database is synchronous and has one
connection per process, so nothing runs inside one. `ComponentSet` is without
history of the configuration, `MeasureHistory` without components: each leaves
to the other what it names in its header.

### PlanActivation

| code | model |
|---|---|
| row of `strategic_plans` | `plan[p]`: state, predecessor, whole-plan revision, activation id, results recorded in it |
| row of `plan_activation_operations` | `op[i]` |
| `meta` markers, `authoritative_write_counter` | `meta` |
| `evaluateDraftReadiness` | `readiness`: blocked, exceptions that need acknowledgement, or clear; any structure change may change it |
| backup file | `backup[i]`, an image of all of the above |
| `activateDraft` request | `req[r]`: `body`, `backup`, `copied`, `recorded`, `committed`; one action per transaction |
| the JavaScript thread | `thread`: after the backup the request runs to its end without an await |
| any other mutation request | `writer[w]`: admitted by the guard, then one transaction |
| a pause trigger aborting a statement | `TriggersAbort` in `Apply` |
| catch blocks | `FailBackup`, `RefuseCommit`, `FailVerification`; `FailCleanup` when the transaction of the catch block fails |
| process death and start | `Crash`, `Boot` |
| restore command | `Restore` |

The process may die between any two transactions. The flag
`plan_activation_internal_write` is set and reset within one transaction, so it
is never visible and not modelled. Actions that may happen for reasons the model
abstracts (a full disk, a failing foreign-key check) are nondeterministic.
`acknowledged` and `told` are ghosts: what clients were told.

Abstracted: names, dates, the copy of the plan's structure, the lifecycle event
rows (written with `activation_id` in one transaction and never deleted, so
`activation_id` stands for them), quick checks of the backup file.

### SecondProcess

`docs/operator-provisioning.md` directs an operator to run `setup-admin` on the
machine that serves. It opens the database with the same `getDb()`, hence
reconciles. The read of the pending operations and the write transaction are two
steps, as in `lib/db.ts`. Bounded to one command at a time, and the server does
not restart between these two steps.

### PlanDraft

| code | model |
|---|---|
| the successor's row of `strategic_plans` | `draft` |
| a copied or added Priority with its Goal, Measure, first-year definition, Target and Board entry, and the reviews of these | `item[b]`, a *bundle* |
| `plan_section_reviews`, `board_reporting_scopes.review_status`, `plan_readiness_overrides` | `review`, `scope`, `overrides` |
| the Active plan, as the Draft depends on it | `source`: revision, changes per section, final year, whether it is fully reported |
| `requireCurrentDraft` | the guard `RequireCurrentDraft`: the page's plan and whole-plan revision |
| a page of the guide | `page[a]`, loaded at any time by `LoadPage` |
| the requirements of `evaluateDraftReadiness` | `Requirements`, a record by key; `Warnings`; `CanActivate` |
| `*_whole_plan_*` triggers | `Changed` and `Propagate` inside every action that fires them |
| `initializePlanLifecycleTriggers` run by another process | `ReplaceTriggers`; while `installing` a statement may find its trigger missing |
| editors of the Active plan; the Goal and Measure editors that also accept a Draft item | `ChangeActive`, `ChangeActiveDetails`, `SaveResult`; `EditWithOrdinaryEditor` |

The guide's operations are the actions of the same name. `fresh` (pages that show
what is stored) and `since` (what changed since a decision) are ghosts.

Abstracted: a bundle has one Measure, which is required; the code's triggers
advance the revision once per changed row, the model once per transaction (no
comparison can tell them apart); row tokens (`updated_at`, plan and Board
revisions) are implied by the whole-plan revision, which the same calls check;
owners, year-over-year baselines and the activation date are left out;
activation is one step here. Of the ordinary editors, those that archive are
not in the model.

### MeasureHistory

| code | model |
|---|---|
| rows of `kpi_measurement_configs` | `config[v]`: years, meaning (the calculation fields), status; `to = Open` is an open end |
| full-plan rows of `kpi_targets` | `target[t]`: year and value; `"none"` is an unresolved placeholder |
| observations, component entries, distributions | `results`: version and year, with the meaning they were checked against as a ghost |
| `monthly_entries`, `breakdown_entries` | `LegacyYears`: years with such values, a constant since nothing writes them any more |
| `selectedFullPlanTarget` | `Selects`: the nearest future Target, else the latest past one |
| `assertFullPlanTargetConfigurationIntegrity` | `Integrity`, on the rows as they will be |
| `archived_at` of the Measure and its Priority | `lineage` |
| `updateActiveInstallation` | `ChangePlanRange`, guarded by `assertPlanRangeCanChange` |

A measurement type is assumed to be set: a definition without one cannot be
ready, takes no results, and counts for a Target as no definition at all.
Status is draft or ready (`needs_definition` behaves as draft, `active` as
ready). Components, bands, annual and external Targets, periods within a year
and `expected_revision` are left out: each action reads the rows it decides on
in its own transaction, so a stale form can only be refused more often.

### Catalog and BoardEditor

| code | model |
|---|---|
| `categories`, `strategic_priorities` | `priority[p]`: archived, whether it has Goals; its plan is `PlanOf[p]` |
| `kpis` | `kpi[k]`: Priority, `parent_id`, active, archived, the activity its archive event recorded, strategic (has a membership or a definition), values from before definitions |
| `board_reporting_scopes`, `board_reporting_priorities`, statements, links | `board[n]`: revision, and by Priority whether its row is live, the Measures it links, and those that archived statements still link |
| `meta.board_reporting_scope_initialized` | `initialized` |
| the editor's page (`BoardReportingEditorClient.tsx`) | `page[a]`: plan, `expectedRevision`, and as a ghost whether it is stale |
| `readScope` for the overview and for disclosure | `ReadScope` |
| `updateBoardReportingScope` | `SaveBoard`, its answer possibly lost |
| `createStrategicMeasure`, `updateKPI`, archive, restore, `retireOrDelete*`, category routes | the actions of the same names |
| `WITH RECURSIVE descendants` | `Below`, the smallest set closed under "hangs below" |
| activation of the successor | `ActivateSuccessor` |

`saved` and `overwritten` are ghosts: what an Admin approved last, and whether an
approval was replaced by a page that did not show it. How a scope's Measures are
divided among statements, titles and order are left out. A deletion is refused where a foreign key or a plan-state
trigger refuses it (`Cascades`).

### Accounts

| code | model |
|---|---|
| rows of `users` with `sessions_valid_after` | `user[i]`: state, email, role, whether enabled, hash, watermark, whether a rotation is asked for |
| the iron-session cookie | `cookie[b]`: account, `credentialVersion`, and as a ghost the hash that was compared |
| login, change-password and Admin routes | `req[r]`: one action up to each await (body, bcrypt), one for the answer reaching the browser |
| `getCurrentUser` | `Valid`, evaluated where the code evaluates it |
| `scripts/setup-admin.ts` | `operator`: the account between its two transactions |

The clock may stand still and step back (`Times`): watermarks come from
`Date.now()`. Legacy cookies without a version are stamped as the code does.
Emails stand for themselves; names and the wording of refusals are left out.

### LoginThrottle

`store` is the Map in its insertion order, `candidates` the eviction index, `now`
the clock in units of the constants; `attempt[r]` is one request of either route
between its awaits. `compared` is a ghost: comparisons admitted during a lock.
The comment at `login-throttle.ts:202` that nothing expired remains after a
prune is not relied on: a lock may expire between the prune of a route and the
failure it records.

### Calculations to BoardReport

Numbers are integers in units of one admitted precision, so the `EPSILON` nudge of
the rounding has no counterpart; `MaxNum` is where a magnitude stops being
finite. An answer keeps its state, value, percentage, progress and the *set* of
its issue codes. Blank ids and labels are not modelled. The parts that the code
writes separately are separate operators: the form's check, the request it
builds, the server's check and the row stored (`ResultRules`); the dashboard's
figures, the Goal's and the Board's (`Summary`, `BoardReport`).

### ResultEntry and DistributionEntry

| code | model |
|---|---|
| `kpi_observations`, `kpi_component_entries` | `stored`, found under component, year and period |
| the Measure being entered, with Targets and components | `measure`, fixed from the start |
| upsert and delete routes of results | `Save`, `SaveComponents`, `RemoveResult` |
| `kpi_distribution_bands` | `band[b]`: slug, label, order, class, years, live or archived |
| `kpi_distributions` with their values | `entered[y]`: total and counts by band |
| bands implied by an entry; create, update, reorder, archive, restore | `SaveDistribution` and the actions of the band routes |

A distribution has one period per year. The classes stand for unknown, declined
and the derived group. A request's order is stored only for a band it implies.
Any request the route accepts is considered, so forms filled from an old list of
bands are among them. Definitions do not change here; that is `MeasureHistory`.

### GoalHistory

| code | model |
|---|---|
| `strategic_goals` | `goal[g]`: years, rule, status, live or archived |
| `goal_kpis` | `members`: version, Measure, years, role |
| `kpis`, `strategic_priorities` | `measure[m]`, `priority` |
| results of a Measure in a year | `results` |
| `is_required`, `weight` | a role: 0 is informational |
| `assertThresholdCountSatisfiable` | `Satisfiable` |
| `extendPlanBoundaryCoverage` | part of `ChangePlanRange` |

Requests may carry any `expected_revision`, so every request is considered.
Narrowing the plan and widening it again leaves archived versions behind that
were not stretched (`installation/server.ts:424`, which contradicts the comment
at `configuration-editing.ts:2098`); with `Narrowing = TRUE` two versions can then
meet in a year and `OneCountPerYear` fails, so the run states the property for
plans that only grow.

### ComponentSet and EntryForm

| code | model |
|---|---|
| `kpi_components` | `components[c]`: order, name (label and whether the status is a defined one), rule (the other semantic fields), live or archived |
| `kpi_targets` of the Measure and of its components | `targets`, by subject; one per subject |
| `kpi_component_entries` of one period | `entries`, with the meaning they were recorded under as a ghost |
| props of the page | `page`: what was last rendered, and whether that is still what is stored |
| `drafts`, `baselineDrafts`, `removedRecordKeys` | `drafts`, `baseline`, `removed` |
| fetch in flight | `request`, which may be lost, refused, or answered and the answer lost |
| `router.refresh`, `router.push` | `queue`, `rendered`: the jobs of the router, the first of them rendered by the server some time before the client commits it (external: Next.js) |

The configuration is ready and covers the plan, its Measure is not archived, and
a component keeps its measurement type. `held`, `gone` and `uncovered` are
ghosts: values the server has held, records the user was told are removed, and
those removed while an older refresh was already waiting.

## 3. Runs

| run | instance | question |
|---|---|---|
| `activation` | 3 plans, 2 identities, 2 requests, 1 writer, 2 saves | is the database sound and does activation implement the one-step switch? |
| `activation_pause_resolves` | 2 plans, 1 request, `FairSpec` | does a pause end? |
| `second_process` | 2 plans, 2 identities, 1 request | what survives setup-admin on a live server? |
| `draft_guide` | 1 Admin, 1 bundle, 1 source Measure, revisions to 6 | do approvals, decisions and a green readiness stay true of what is stored? |
| `draft_shared` | 2 Admins, 2 Drafts in turn, ordinary editors, revisions to 4 | is an accepted save always from a current page? |
| `draft_structure` | 2 bundles, 2 sources, another process, revisions to 3 | do provenance and the Board review stay coherent? |
| `measure_history` | 3 years, 2 versions, 2 Targets, 2 meanings, a legacy year; 2 Measures, 2 Priorities and one of a successor, 2 pages, 2 catalog changes, 1 revision of a scope | are results ever orphaned or reinterpreted, does an edit give a Target two meanings? Does the Board see what was approved, does a deletion take more than it was asked for? |
| `accounts` | 3 accounts in turn, 2 emails, 1 browser, 2 requests, watermarks to 3 | does an enabled Admin remain, and does a session rest on the password and the proof it began with? |
| `login_throttle` | 2 accounts, 1 source, 2 attempts, a store of 2, lock after 2 failures for 2 units, budget 1, time to 6 | do locks run to their end in a full store, and how many comparisons does a lock admit? |
| `data_entry` | 14 single Measures, multi-component Measures of each aggregation, a distribution over 2 bands; 2 years | do form, server, kernel, dashboard, Goal and Board agree on what may be entered and what it comes to? |
| `goal_history` | 3 years, 2 versions, 2 Measures, 3 memberships, 1 result | is a reported year judged by one rule, over the Measures it was judged by? |
| `entry_form` | 2 components, 2 results, 2 values, 2 requests, 1 foreign edit, selections only while no router job waits | does the form show what the server holds, while components and Targets are edited under it? |

Bounds of the activation runs. Three plans give an Active plan, a successor, and
a successor's successor or a cancelled Draft. Two identities and two requests
give retries under the same identity and a rival activation. Two acknowledged
saves (the bound `MaxWrites`) let one land before the image and one after it;
revisions and the write counter advance only with them, with activations and with
repairs, so the state space is finite. One ordinary writer suffices: the
interesting interleavings are of a writer with activations, and successive
writers reuse the slot.

Bounds of the Draft runs. `MaxRev` bounds the saves of a Draft, `MaxSource` the
changes of the Active plan, `MaxDrafts` the Drafts in turn, `Overridable` the
requirements an Admin thinks of overriding. Six revisions take one bundle
through creation, definition, Target, review and approval to green readiness,
with a change and a second approval to spare; in `draft_shared` a stale page
needs one save of another page, and the second Draft makes a page of the first
one refer to a closed plan; in `draft_structure` three lineage or Board calls
after the items exist reach every pair of kinds. Each run has the actors its
question needs; the proofs lift the bounds.

Bounds of `measure_history`. Three years are a first, a middle and a last one:
a version can be split within, at the end of, or after its range, and the plan
can lose or gain a year at either end (`MinYears` keeps two). Two versions are a
predecessor and a successor, two Targets a boundary and its neighbour, and the
two meanings differ in what they can read. Year 1 has a legacy value; definitions of
the other two years meet only results, so either kind of history is met alone
and together. Of the catalog, one Measure that may hang below another in a second
Priority, with or without values, is the smallest hierarchy a cascade can go wrong in;
two changes are a move and a deletion, or an archive and a restore, before, between
and after the saves of two pages; one revision makes a page stale, as
a lost answer and a switch of plans do. The proofs lift these bounds.

Bounds of `accounts`. Ids are never reused, so three are two Admins that act on
each other and one created later under a freed email; two requests are the
smallest number that race; one browser suffices, since a cookie is compared
with its account only. A watermark of 3 is a login, a revocation and one more
under a clock that stands still (one reading, so every advance is by the code's
own increment).

Bounds of `login_throttle`. A store of two entries is full as soon as an account
and a source have failed once, so that eviction, its refusal to evict a lock, and
the order of its index all happen; six units of time are longer than a window
and a lock one after the other; the second account is the flood.

Bounds of `data_entry`. The values of a field hold what its checks tell apart:
blank, negative, zero, in range, above a fixed denominator, above `MaxNum` when
added up. Year 2 and 3 give a Target of the year, one of a later year, and a year
that follows another; periods 1 and 4 are looked at from January, when
the later one is not yet included, and from December. Up to three stored results let periods of two types meet in one year.
A Goal has this Measure and up to two peers: done, behind, without a result, without a
target, for information only, archived.
For distributions, two bands over at most one entered year, whose definitions
differ in slug and label, agree or (of one slug) differ in class, and start in either year and
end with the second or not at all.

Bounds of `goal_history`. A version can be split within, at the end of, or after
its range; three memberships are a predecessor's, its successor's and one more;
rules are manual and a threshold of one of two Measures, so that the second
membership can be the one that matters.

Bounds of `entry_form`. Two components are one that is edited and one that stays;
two requests are a save or removal and the one after it; one edit of another
Admin is what makes a page stale (a second one adds nothing that one of another
kind does not, and the proofs of `ComponentSet` hold for any number). The queue
bound holds back only selections: a save or removal answered meanwhile still puts
its refresh behind a navigation, or its navigation in the place of a refresh.

`DataEntryLaws` holds four assumptions that TLC evaluates when `data_entry`
starts: `PeriodLaws` (options of a frequency are exactly the periods the server
accepts, under either name of their index, and the last of them closes the
year), `DistributionLaws` (what the form lets pass the server accepts, what the
server accepts computes, shares of exclusive groups leave nobody out),
`RollupLaws` (the organisation's rollup is that of its Priorities and is 100 per
cent exactly when every counted Goal is shown complete) and `DownloadLaws` (one
row for every detail).

The longest runs take two to three minutes with two workers, the others between
some seconds and a minute and a half.

Symmetry is used only where no liveness is checked. Deadlock is not checked
where the bounds, or a finished activation, let the system stop.

Fairness (`FairSpec`, the activation run only). A request that has begun an
activation takes its next step or fails (the JavaScript runtime does not drop a
promise), and a stopped server is started again (the supervisor's restart
policy). Nothing obliges an operator to restore, nor a client to retry.
`PauseTracksOperation` and `BlockTracksIncident`, that saves are paused exactly while
one operation is unresolved, and `BackupIsCurrent` are parts of `IInv`, which `activation`
checks as it stands.
`PauseResolves` names the case in which a pause really stays: the cleanup
transaction failed and the process lives on (`Stranded`). Nobody has to finish a
Draft, enter a result, sign in or save a form, and answers and refreshes may be
lost, so the other modules state no liveness: their safety properties speak
about what is shown at rest instead.

## 4. Proofs

**Activation.** `PlanActivation_proofs!TypeCorrect`, and from it `Invariance`:
`IInv` is inductive. `OneActive` alone is not: a restart or a restore preserves
it only because the operation's row tells the truth about the plans
(`RowsMatchPlans`), because the image differs from the database by that operation
only (`ImagesMatchRows`), and because a request in flight has got exactly as far
as its row says (`RequestsMatchRows`). From `IInv`: one Active plan, the Draft's
predecessor, the justification of the pause, nothing lost, the currency of the
image, the authority of the activating Admin, and the refinement of `PlanSwitch`.
What concerns the past needs a second invariant on top of the first,
`HistorySound`: the database and every image each remember a line of plans in which
every plan that ever took over follows an Archived one nobody else follows, the
identity under which it did, and no answer that the identity's row does not
support. Each action then has to carry one memory, and a restore replaces
one by another. From it: `AlwaysSingleLine`, `AnswersStayTrue`;
`ClosedPlansStayFrozen` needs `IInv` only. Assumed: the sentinels are not members of the sets they extend
(`DistinctSentinels`, `BackupSentinel`), for any sets of plans, identities,
requests and writers.

With a second process (`SecondProcess`) `IInv` fails: the opening closes an operation
that the server goes on driving, so rows, images and requests no longer match the
plans. Still inductive is `ToolInv`, a weaker tie: whichever plan is Active in
an image, an image inside an image included, has not become a Draft since (`Precedes`),
and every operation that could restore has such an image. The
lifecycle transaction checks the two plans again under its own lock, so one Active
plan and the activating Admin's authority survive the wrong closing:
`OneActiveWithSecondProcess`, `ActivatedByAdminWithSecondProcess`.

**Draft.** `NoStaleSaveHolds` needs that no page is ahead of its Draft
(`PagesBehind`): only then does a save that advances the revision outdate every
page at once. It assumes `~Openers`, since a second process that replaces the
triggers lets an edit pass without a new revision. `ApprovalsCoverContent` and
`ReadyIsReviewed` rest on an invariant that ties each approval to what changed
since it was given, and the revision the Draft was cloned at to the changes of
the Active plan; they assume `~Openers` and `~Editors` (the ordinary editors
reset no review). `MustResolveHolds` assumes `~Editors`.
`BoardScopeStaysHonest` and `LineageStaysCoherent` assume nothing of other
editors and processes; the latter needs finitely many source Measures, to count
them.

**Measure history.** `IInv` joins the types, the disjointness of all versions'
years (archived ones included: this is why `ensureNoConfigurationOverlap` must
not ignore them), the place of every result in its version and in the plan, and
the meaning it keeps. Targets play no part in it. `LegacyIsReadOnce` follows
step by step from it; `TargetsKeepTheirMeaning` from every edit ending with
`Integrity`. For any years, versions, Targets, meanings and readings.

**Catalog and Board.** That `parent_id` makes a forest is proved without induction
over the hierarchy: `Below` is the smallest closed set, so a Measure that hangs
below itself after an edit would already lie in every closed set before it
(`ForestAfterMove`), and `MayHang` has looked there.
`BoardShowsWhatWasSaved` rests on `Kept`, that the stored rows are the last accepted
content and still link what is below the same Priority: an edit that moved a linked Measure
or removed it is the one `IsStrategicKPI` and `Cascades` stop.
`NoApprovalOverwritten` rests on `Pages`: a stale page of the Active plan names an
earlier revision. Assumed: the catalog found at the start is a forest
(`BoardAssumption`), as the code assumes it too.

**Accounts.** The argument is the watermark. Every change of an account comes with a
new one and it never goes back, whatever the clock does (`RowsChange`), so whatever a
request or a cookie read of an account compares as older ever after, and as long
as the watermark stands so does the password (`Sound`). With the uniqueness of
emails (`OneAccount`) this gives both invariants, that a rotation replaces the very password
it proved, and the refinement of `SessionAuthority`, each action one step of it or none.
`AdminRemains` needs the types only, since each route counts the remaining Admins in
the transaction that writes. Assumed (`AccountAssumption`): times are numbers, and there
is a browser.

**Login throttle.** A lock's budget binds only because the two entries live and die
together (`Budgets`): while a budget is kept its lock is, under the same end, and
it has counted at least the comparisons admitted under it. The rest is about the one store:
eviction and pruning only thin it out (`Thins`) and never take a lock that runs;
counting changes one entry; the eviction index is the store's order.
An eviction is followed by an insertion in one step, so each is a lemma about stores
and the actions combine them. For any limits the constants' assumption admits.

**Goals.** `OneCountHolds`: `IInv` joins the types; that a membership is one of a
version and a Measure that exist, so that a new version has none but those it
inherits; that every row is within the plan, archived ones included, so that none
can follow a boundary that moves; and that no two versions, and no two memberships
of one version and Measure, share a year. A successor is covered by one lemma
(`PartsOfMembers`): each row left or inherited stays within the years of one row
it comes from. The other three rest on it: an operation counts memberships
(`Satisfiable`) where the invariant counts Measures, and the two agree because
no Measure has two memberships in a year. So `ThresholdStaysReachable` holds though
most operations never check it; `ReportedYearsAlwaysStand` and `MembersAlwaysFollow`
because a split moves each year to the successor with its rule and its members.
Assumed: `~Narrowing`, since archived versions stay where a
narrowed plan left them; finitely many Measures.

**Components and their form.** `ComponentsAlwaysStand` and `TargetsReadOneSet` hold for any
bounds, meanings and values. The invariant has three parts that need each other:
the types; every recorded result carries the meaning of its component, which
holds because an edit of a rule first looks for results
(`EntriesAreReadAsRecorded`); and a Target with a value belongs to the Measure or
to a live component, no two of which share a place (`SetStaysCoherent`), because
archiving and restoring refuse while any Target is defined, and restoring looks
for a free place. `FormImplementsComponentSet`: whatever a form does is, of the
set below it, one of these actions or nothing, so the theorems hold of the server
under any form. What the form shows rests on four facts: component ids are never used
again (`Ids`), so a draft never turns into another component's; every value in a
baseline, a page or a job of the router has been the server's (`Held`); a record the
user removed is covered by a hidden key or by a page that has still to come
(`Covered`); and a form at rest with nobody interfering shows the last page, which is
what is stored (`Quiet`).

**Data Entry.** `ResavableAlways`: a stored row is what the form and the server made
of *some* draft (`Entered`), and from that alone it reads back. Three facts carry
it, each a lemma: the period read from a row resolves to the one it was written
under (`PeriodReadsBack`); the fields an average sends are told apart by which of
them are filled, so the method that was not stored is inferred
(`MethodIsSent`, `AverageReadsBack`); and every other field comes back into the input
it left (`ReadsBack`). `OneBandAlways`: every way a band gets its years - defined,
changed, implied by an entry, restored - looks for a live band of its slug first, and
`Apart` is what that look preserves; a reorder moves nothing. `SharesAlwaysStand`: a
step keeps an entry's counts and the class of every band they name, because a counted
band is never absent (`CountsKnown`), so no entry of another year can imply it anew, and
keeps its class otherwise (`ClassesStay`). Together these three are
`EntriesAlwaysStand`.

`PacingAlwaysHonest` goes the way a reading goes. The calculation behind a stored row
answers nothing or a finite number, whatever is summed, averaged or divided in it
(`Singles`, `Aggregates`); so does the actual of a year, the latest of finitely many
periods existing because their keys are bounded (`LatestIsOne`); the value and the baseline
of the annual Target are the configured ones (`TargetsAreReadings`). Where progress is
measured, the pacing target, rounded, lies between baseline and target and is the target
in December, and who reaches it has covered the elapsed share of the way to half a unit
(`PacingBetween`, from the inequalities of `Between`); so who has reached the
target has reached the pacing target, in both directions (`Paced`). The proof settled the
statement: a Measure that is far beyond a pacing target close to its
baseline may overflow the share it has covered, and is then not paced at all
(`NON_FINITE_RESULT`), although its annual progress is complete.

Sums have no recursive definition the prover could unfold. They are written as
`SumFunction` over the function of the summands, and what its definition, a choice,
stands for is proved once: there are sums over the subsets of a finite set
(`SumsExist`), a sum is that of the rest and any one element (`AnyFirst`), and two
ways of telling the same numbers apart come to the same (`SumsAlong`). With these,
`HeadlinesAlwaysYearToDate`: a scalar calculates to what was typed (`ScalarResults`), the
Board's headline is the actual its annual progress is measured from (`AnnualIsCurrent`),
and in December the months or quarters of the year add up to it
(`DecemberIsSum`), because a Measure of one input has one result for each period
(`Alone`). `GoalsAlwaysEarned` counts: the completed of the counted
Measures are all of them exactly when the two sets are equal (`AllOfThem`), for any number of
Measures, each with the progress that any target, baseline and status give it.

`EntriesAlwaysCompute` is the agreement of three independent sets of rules: what the
form lets pass, what the server accepts, and what the kernel asks for. What was
entered, typed or left blank, answers a question of its type each time the
kernel may refuse (`EnteredRows`, `SingleSays`: one step for each type); so a stored result of a Measure
of one input computes, or nobody answered, or last year is missing or zero, or the
number is too large. For a Measure of components each part computes, under the definition
of the component it was stored for, as a Measure with components that cannot be
entered stores nothing (`Together`); and what is wrong with the aggregate is that the
parts do not fit together, which the statement lists (`Misfits`). The entry of a
distribution replaces the counts of its year as a whole, so that a year lists the counts of
one accepted entry (`CountsInvariance`).

Assumed: `Null` and `NaN` are no numbers, `Null` no Boolean; a field holds a number within
bounds, one of these, or nothing, and a baseline, a Target or the previous value of
a component never `NaN`; a fixed denominator is positive, as the table's CHECK has
it; the ids of components differ; statuses are those of the schema and weights are not
negative (`NumberAssumption`, `EntryAssumption`, `PeerAssumption`, `MethodAssumption`,
`ReasonAssumption`); years, months and totals are numbers and bands finitely many
(`BandAssumption`, `EntryAssumption`).

**Only model-checked.** `PauseResolves`: liveness is out of the prover's reach. The laws of
`DataEntryLaws` and the Goals' rollup are evaluated by TLC over the instance's
inputs. Every other property a run checks is a theorem; the bound of a run and
what a theorem assumes of its environment (`~Openers`, `~Editors`) are named above.

## 5. Seen while modelling

Where the code and what is said about it differ. None is the subject of a run
today; each follows from the definitions of the module named.

*Activation, `SecondProcess`.* `reconcileInterruptedPlanActivation` cannot tell an
operation that is running from one that was interrupted. A console command that
opens the database during an activation closes the operation and reopens saves.
A retry is then told "before any plan change" of a plan that is Active
(`features/plans/server.ts:3932`, `lib/db.ts:194`,
`docs/operator-provisioning.md:117`), and a save can fall between backup and
verification (`lib/db.ts:289`, the activation runbook, lines 283-285). The switch itself
stays atomic, which is what `second_process` checks.

*Draft, `PlanDraft`.* `updateDraftItem` leaves the Board Priority of a renamed
Measure approved (`features/plans/server.ts:2173`; `CONTEXT.md:786-790` and
`docs/successor-plans-qa-acceptance.md:169` call it a Board Dependency Review). One
override of "The Active plan changed" covers every later change
(`features/plans/server.ts:3165`; `CONTEXT.md:478-484`). Another process that
replaces the triggers lets an edit advance no revision (`lib/db.ts:1614`;
`CONTEXT.md:495`), which is why the lock is checked with `Openers` FALSE. A
question that an ordinary editor opens again still counts as classified
(`features/plans/server.ts:3036`), hence `Editors` FALSE in `draft_guide`. A warning that
appears after the page was loaded is covered by the one acknowledgement flag
(`features/plans/server.ts:4188`).

*Years, `MeasureHistory`, `GoalHistory`.* A definition may be created beyond the end
of the plan; extending the plan over it carries the latest Target across the
boundary (`features/installation/server.ts:304`), which the comment at
`configuration-editing.ts:952-953` rules out. That is why `TargetsKeepMeaning` is
about steps that keep the range. Archived Goal versions are not stretched with the plan
(see `GoalHistory`); archived Measures still count among the members a threshold
needs; memberships that begin after a successor's start stay on the predecessor.

*Catalog and Board, `Catalog`, `BoardEditor`.* The editor offers no archived
Measure or Priority, and a save replaces the whole scope: saving for another reason drops
the link that disclosure would have kept. `expectedRevision` names no plan, so a page
of the plan before, emptied, empties the scope of its successor when the revisions
happen to agree. `isStrategicCategory` does not look for Board links of what hangs below in another
Priority; the deletion then fails at the foreign key with a bare 500. `updateKPI`
lets a Measure that is not strategic move to a Priority of a successor's Draft.

*Components.* Archiving or restoring a component looks at no history, adding
one does. Archiving the Targets, changing the set and restoring them is the
documented procedure (`docs/kpi-measurement-model.md:146`).

*Calculations.* The API accepts a denominator other than the fixed one, and the
kernel then answers `DENOMINATOR_CONFLICT`. A weighted Goal is complete by its
rounded progress. Annual Measures are prorated by `pacingElapsedFraction`
(`docs/strategic-dashboard-calculations.md:79`), and the progress of a component
always counts upwards (the same document, line 26). The Board's "exceeded" is its
own test of the percentage. A non-additive Board row may say that nobody answered beside an
annual actual. A change from a zero year has no percentage
(`calculations.ts:1269`). A distribution group that a definition derives cannot be
entered (`value-entry.ts:2352`; `docs/data-entry-workflow.md:30`). The form does
not mirror the server's refusal of negative counts, and every slot of a
component form has to be filled. A Goal without Measures has no row in the download.

*Entry form.* What is typed between a successful save and its refresh is replaced
by the refresh. A record removed while an older refresh is on its way reappears
until the next one (`StrategicDataEntryClient.tsx:180-182` says it does not;
`uncovered` in the model). A save answered after the user has left navigates again.
A stale form saves under a definition changed since, as the request carries no
revision of it. Two single-valued Measures of one page share the draft key `primary`.

## 6. Plan

Done: activation with its abstract specification and the second process; the
Draft; one Measure over the years; the catalog and the Board reporting editor;
accounts with their abstract specification; the login throttle; results, distributions,
calculations, summaries and the Board report; Goals and memberships; components of a
Measure and their entry form. Every property of these that a run checks is a theorem,
but for the liveness of activation (end of section 4).

Next, in this order:

1. *Annual Targets and definitions with components*: `MeasureHistory` and
   `ComponentSet` composed, so that a successor copies the set it replaces.
2. *Schema migration* with crashes between its steps, and the file steps of
   restore and seeding.

Not modelled and why: the rendering of the pages other than the entry form, and
the layout of exports (no state); audit history (rows appended in the transactions
that are modelled, then only listed); legacy import (once, at a version step);
health and metrics (stateless); the e2e and smoke scripts (test drivers);
dependency and security tooling (not part of the program). `PROJECT.json` lists
every part with its status.
