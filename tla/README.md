# Verification of jks

jks is a web application, in Go over SQLite, in which one person keeps tasks,
the activities (spans of time) spent on them and the plans made for them; and a
command, jks-rrule, that stores a task for every occurrence of recurring ones.
This directory holds TLA+ modules that model its core, the TLC
configurations that check them on small instances, and TLAPS proofs that hold
for every instance.

    tlc -config ServerReferences.cfg MCServer.tla
    tlapm ServerProofs.tla

## The system

| part | code | state | operations |
|---|---|---|---|
| storage | `database/database.go`, `tables.go`, `storage/storage.go` | tables `tasks`, `activity_log`, `plans` (and link tables) | INSERTs, UPDATEs and SELECTs; never a DELETE on these three tables |
| write handlers | POST handlers of `server/main.go` | local variables, one goroutine a request | new/edit task, new task with activity, new activity (with a plan it fulfils), edit/extend/resume activity, new plan |
| read views | GET handlers of `server/main.go`, `rdf/rdf.go` | local variables | undone tasks, task, activity, latest activities, day, RDF export, custom log |
| day layout | `layout/layout.go` | local variables | one function, from boxes to columns |
| generator | `cmd/jks-rrule/main.go` | cache file, local variables | one run of `main` |
| login | `server/login.go` | session files, the browser's cookies | login, callback, settings; the wrappers that look for a login |
| form times | `server/util.go`, `newDecoder`, format functions of `server/template.go` | none | show an instant in the session's zone; make an instant of a clock time, or a date and time, that a form posts |
| link data | `linkdata/`, `server/linkdata.go` | link table | replace and query links; only GET /linkdata reaches one of them |
| events | `server/events.go` | none | one query to an external seekback server |
| startup | `cmd/server/main.go`, `Migrate` | schema | flags, configuration, migrations |

How they interact. net/http runs every request on a goroutine of its own. The
handlers share nothing but the database, through a pool of connections; none of
them opens a transaction (only `ReplaceLinks` does). jks-rrule is a second
process over the same database file and shares only the `tasks` table with the
server. dayView hands the activities and plans of a day to `layout.Layout`.
Login sessions are files, each read and rewritten whole by requests that share
no lock; they hold the zone in which every other handler shows and reads times.

What is hard. The unit of atomicity is one SQL statement, so a handler of
two to four statements interleaves with others, acts on rows it read before
they changed, and stops half way when a statement fails, the client goes away
(`PlanEdit`, `Range` and the windows use the request's context) or the process
dies. Foreign keys are declared and not enforced. Queries compare times that are
often equal, since forms have whole minutes. The generator's cache and its
tasks are written by separate steps. The login callback holds a copy of two
sessions while it waits for GitHub. A form is read at another time than it was
shown, maybe on another day or in another zone. `PROJECT.json` lists each hazard
at its line, with the properties that watch it.

What makes each part correct: references between rows are sound and a plan's
activity is one that was spent on the plan's task, and on no other plan; a
handler changes what its form shows and nothing else; deadlines that handlers
check are kept; the undone list has exactly the unfinished tasks, once each;
boxes of a day do not overlap, and no column is wasted; the generator misses no
occurrence while it knows how far it got, and stores none twice when its runs complete; what one tab does logs nobody out and spoils
no login of another; a time comes back from a form as it was shown.

## Modules

| module | models | abstracts |
|---|---|---|
| `Store` | rows and SQL statements as operators on tables | free text, due dates, the order of results |
| `Ledger` | abstract specification: how rows may refer to each other | every column that is not a reference |
| `Atomic` | abstract specification: each request takes effect at one moment, on the rows as they are then | statements, copies, local variables |
| `Server` | the eight write handlers, one action per statement | parsing; requests rejected before their first write |
| `MCServer` | instances: forms, initial database | |
| `ServerProofs`, `AtomicProofs` | theorems about `Server`: its invariants and `Ledger`; when it implements `Atomic` | |
| `Views` | the GET handlers of several SELECTs, or that cut a result off, while `Server`'s handlers write | what a page shows of a row, beyond what the properties compare |
| `MCViews`, `ViewsProofs`, `ExportProofs` | instances and theorems of `Views` | |
| `Layout`, `MCLayout`, `LayoutProofs` | `layout.Layout`, its instances, its theorems | what a box is, beyond top and height |
| `RRuleGen`, `MCRRuleGen`, `RRuleProofs` | runs of jks-rrule, instances, theorems | how an RRULE expands to times |
| `Sessions`, `MCSessions`, `SessionsProofs` | login, callback and settings of one browser with several tabs, instances, theorems | cookies' signatures and ages, GitHub beyond what it promises about codes and verifiers |
| `FormTimes`, `MCFormTimes`, `FormTimesProofs` | the forms of one activity and the day's page, as instants turned into civil times and back; instances, theorems | text formats; zones with more than one change of the clock |

`Server` extends `Store`, and contains an instance of `Ledger` under the
refinement mapping that projects each table on its reference columns, and one of
`Atomic` under a mapping of the handlers: `AskedBy` takes a handler between two
statements to what its request has yet to do. `Views`
extends `Server`: its steps are those of the write handlers and those of a page.

### Server

A table is a sequence of rows, and a row's id is its index: ids are INTEGER
PRIMARY KEY without AUTOINCREMENT, rows are never deleted, so SQLite hands out
max(id) + 1. `req[r]` is the handler that runs in request slot `r`: the
statement it is about to issue (`pc`), and the Go variables it will use. Handler
and model correspond statement by statement:

| route | actions |
|---|---|
| POST /task/new | `taskNewPost` |
| POST /task/{id}/edit | `taskEditPost` |
| POST /task/new/activity/new | `taskNewActivityNewPost` (TaskAdd), `ActivityAdd` |
| POST /task/{id}/activity/new | `taskActivityNewPost` (TaskGet, deadline checks), `ActivityAdd`, `PlanGet`, `PlanEdit` |
| POST /activity/{id}/resume | `activityResume` (ActivityGet), `ActivityAdd` |
| POST /task/{id}/plan/new | `taskPlanNewPost` (TaskGet, deadline checks), `PlanAdd` |
| POST /activity/{id}/edit | `activityEditPost` (ActivityGet), `ActivityEditSelect`, `ActivityEditUpdate` |
| POST /activity/{id}/extend | `activityExtend` (ActivityGet), `ActivityEditSelect`, `ActivityEditUpdate` |

`StorageError` ends any handler between two statements, and leaves what it has
written. A request that is rejected before it writes (bad id, bad form, deadline
exceeded) changes nothing and is no step. Inputs are the ones the pages can
post: ids of rows that exist, since pages link to nothing else, and for PlanID
"None" or a plan of the same task. A plan may have been fulfilled since the
page was loaded, so the model does not require it to be free. A PlanID that is
not a number is rejected after ActivityAdd; to the tables that is a
`StorageError` after it.

Beside the Go variables, `req[r]` keeps the form that was posted (`form`) and,
for a resumption, the activity it repeats (`of`). No action reads them; they are
what `AskedBy` needs to tell what was asked for from what was made of it.

`Atomic` is what the pages lead a user to expect: adding, editing, extending or
resuming changes what the form shows, on the rows as they are at one moment, or
fails and changes nothing. Only a task with its first activity, and an activity
that fulfils a plan, are two effects, since the second may fail alone. The
handlers keep that promise as long as none is *overtaken*: `Overtaken(r)`
is a step of another handler that changes a row that the handler in slot `r`
has read and will write by (`TasksRead`, `ActivitiesRead`), which is the task
whose deadline was checked, or the activity that is repeated or written back.
`Unovertaken` is `Server` without such steps; requests still interleave in every
other way. The two race runs show what is lost otherwise.

The initial states have the rows an earlier version of the schema leaves
behind: tasks without activities, and activities whose status was given its
default, Unknown, by `3_status.up.sql`.

### Views

`page` is the page that is being built: the next SELECT (`pc`) and what the
earlier ones returned. It is empty, or one page of one of these:

| route | actions |
|---|---|
| GET /day/{date} | `dayView` (the activities of Range), `SelectPlans`, `SelectTasks` |
| GET /activity/{id} and /edit | `activityView`, `TaskGet` |
| GET /activity/latest | `activityLatest`, `TaskGet` for each activity |
| GET /task/{id} | `taskView`, `TaskGetActivities`, `TaskGetPlans` |
| GET /undone-tasks | `undoneTasks` |
| GET /rdf/all | `getRDF`, `mergeWindowToGraph` for each page of rows |

`Leave` ends a page, when it was sent or when a SELECT failed. One page at a
time is enough, since a reader changes nothing that another could see. `Write`
is any step of `Server`; all of them may happen between two SELECTs. A page is
kept until it is left so that the properties can look at it, and `tables` may
have moved on by then. In an export `had` and `still` are history variables: the
rows that were in the window when it began, and whether an edit has moved one of
the older rows into or out of it since. The tables are scanned in the order of
ids, having no index and the queries no ORDER BY; `PageOf` numbers rows so.

What a page promises is weaker than what one SELECT would:

- `DayTasksKnown` is what the comment on Range says, and an edit between the
  first and the last SELECT breaks it. `DayPlansKnown`, the half about plans,
  holds, because no handler moves a plan; and `DayLostByMove` says that nothing
  but such an edit can lose an activity its task: it is a step of
  `ActivityEditUpdate` that moves an activity out of the day (`DayCovered` is
  what the page may still count on).
- `TaskFound` and `TaskPageBehind` hold because rows are never removed, links
  lead to older rows and ids grow.
- `ExportExact` holds for plans whatever is written, and for activities unless
  an edit moves one across the window's end, which is when the export was begun.
- `PlansNotCut` and `UndoneComplete` are about the two limits. The task page
  refuses at the limit and never drops a plan silently. An undone page without the
  warning has every unfinished task, although a task with two last activities
  takes two of the rows. (The warning also appears when the rows are exactly as
  many as the limit and nothing was cut off, main.go:175.) Which rows LIMIT
  keeps is left open: the query orders them by deadlines as text, so that
  deadlines written in different zones are out of order.

### Layout

`boxes`, `columns`, `columnBottoms`, `nColumns`, `i` and `column` are the
function's variables. `SortByHeight` and `SortByTop` are the two calls of
`sort.SliceStable`; `NextColumn` is one turn of the inner loop; `PlaceBox` is
the rest of a turn of the outer one; `Panic` is the index out of range.
`PanicsBeforeEpoch` says when that happens: columns start with a bottom of 0,
and a box that begins before 1970 is above it, so no column ever takes it.
`FewestColumns` compares the result with every other way to put the same boxes
in fewer columns: each of them makes two boxes overlap.

### RRuleGen

The cache file is Empty, Corrupt or the time GenerateFrom. Every step of `main`
that can fail, or after which the process can be killed, is an action: `Open`,
`GenerateTo`, `createForTask` (the loop over rules), `TaskAdd`, `RuleDone`,
`Truncate`, `Encode`, and `PartialWrite` when Encode writes only part of the
file. `Tick` lets time pass between any two, and `Removed` is someone deleting
the file, which nothing but that gets out of the way once it is corrupt.

Occurrences can be missed: a run that finds no cache starts from its own
time.Now(). That is meant for the first run, and happens as well after a run
that stopped between Truncate and the end of Encode, after the file was
deleted, and after a first run that stopped. `NothingMissed` says that
nothing else is. It is about history variables that no failure takes
back: `reached`, the latest end of a window whose loop has completed; `lost`,
that the file was never written or has been lost; and `skipped`, the times from
`reached` to the start of a run when `lost` is true. Every occurrence up to
`reached` has its task or is at a skipped time, and the cache never names a
later time than `reached`. The skipped times are recorded by what
happened to the file, not by what a run finds in it: a program that emptied the
file before its loop, rather than after it, would violate the property, although
it starts from time.Now() in the same way.

`smooth` is history too: it is true as long as nothing went wrong and each window
began where the one before had ended, with no occurrence on the border. Outside
of it tasks are stored twice, since the program never looks for one it has
stored.

### Sessions

`files[n][id]` is the file of a session, `jar` the cookies that the tabs of one
browser share, and `req[r]` a request: its cookies as they were when it was
sent, the copies of the session values that its handler holds, and its answer.

| route | actions |
|---|---|
| GET /login | `login` (Get, new verifier), `LoginSave` |
| GET /login/callback | `loginCallback` (Get), `CallbackGet` (the second Get, the test for a verifier), `Exchange` or `ExchangeFails`, `CallbackSaveOauth`, `CallbackSaveLogin` |
| POST /login/settings | `loginSettings` (the wrapper's and the handler's Get), `SettingsSave` |

`StorageError` is a Save that fails, before it touches the file or half way through it.
`Receive` and `NoAnswer` deliver or lose an answer, at any point of a handler.
`Forget` is the browser dropping a cookie and `FileLost` someone clearing the
directory for temporary files. gorilla's FilesystemStore and GitHub are external:
a Save writes the whole file, a code works once and only with the verifier of
the login it came from.

`told`, `chosen` and `pending` are history variables for what the user may
expect: to be logged in, in the zone chosen last, and able to finish the login
begun last. `LoggedInStays` holds whatever the tabs do at once: handlers
overwrite each other's values, but none ever saves a login session without a
user in it. It says nothing of a file that cannot be read; `LogoutOnlyByLoss`
does, and names the four steps that log a user out: the browser drops the cookie,
the file is cleared, a Save of a login session fails half way, or an answer hands
out another login session whose file has been lost since it was saved. `ZoneKept` and `LatestLoginWorks` hold as long as the user waits for
each answer before sending the next request (`serial`). Otherwise a
callback overlapping a settings save brings the old zone back, a lost update of
the same kind as the one of `activityExtend`.

### FormTimes

The state is the clock, the zone of the session, one activity and the form about it that
a browser shows. Instants and civil times are seconds; a zone is an offset
before and one after an instant. `Date` returns the instants that Go's
time.Date may return: the one whose civil time is asked for, either of two when
clocks are set back, and either neighbour when they are put forward over it.

| code | definitions |
|---|---|
| `parseFormTime`, the decoder's time converter | `parseFormTime`, `Decoded` |
| `formatDatetimeLocalHTML`, `formatHM`, `formatDay` | the same names |
| GET and POST /activity/{id}/edit | `activityEdit`, `activityEditPost` |
| POST /activity/{id}/extend | `activityView` (its form), `activityExtend` |
| POST /activity/{id}/resume | `activityLatest` (its form), `activityResume` (end parsed), `ActivityAdd` (start parsed) |
| the Range of GET /day/{date} and its template | `dayView`, `OnPage`, `Top` |

The properties say what a form gives back and where it ceases to: an edit form
moves no time by a minute or more unless the zone was changed or the clock
repeats the time; a clock time lands on the day of the request, so a form posted
after midnight is a day off; a resumed activity ends before it starts when
midnight falls between the two readings of the clock; the day's page covers 24
hours, which is not the civil day when clocks change.

## Runs

| run | bounds | states | shows |
|---|---|---|---|
| `ServerReferences` | 3 requests, 2 rows a table, one instant | 1.3e5 (with symmetry) | references, links and the ledger, under interleaving and failures |
| `ServerUnovertaken` | 2 requests that do not overtake each other, 2 rows a table, 2 instants | 2.9e5 (with symmetry) | each request has the effect of one moment (`Atomic`); statuses, deadlines and the undone list |
| `ServerExtendRace` | 2 requests, 1 activity | violation | a lost update |
| `ServerDeadlineRace` | 2 requests, 2 rows | violation | a deadline set between check and insert |
| `ServerUndoneTie` | 1 request, 2 rows | violation | a task listed twice |
| `ServerRelink` | 2 requests, 2 rows | violation | a plan taken over |
| `Views` | 1 request, 2 rows a table, 2 instants; limits 1, 2, 2 and a window of 1 | 4.9e6 | what pages of several SELECTs, or with a limit, may rely on while rows are written |
| `ViewsDay` | the same | violation | an activity on a day's page without its task |
| `Layout` | every slice of up to 4 boxes; 4 tops, 3 heights | 4.8e4 | no overlap, fewest columns, when it panics, that it returns |
| `RRule` | 2 rules, 4 readings, 2 intervals, stops, partial writes and a deleted cache | 2.7e5 | what is missed, and that it is no more; nothing is stored twice in smooth runs, runs catch up after faults |
| `Sessions` | 2 requests, 2 sessions of each name, 2 logins, 2 users, 2 zones | 5.2e5 (with symmetry) | who stays logged in, keeps the zone and can finish a login |
| `FormTimes` | 6 readings, 4 zones, 2 activities, 2 forms posted | 1.9e6 | times through forms and day pages, at midnight and clock changes |

Why the bounds are enough. The reference properties relate at most two plans,
two activities and two handlers; a third request lets one interfere with two
others that are half done. They read no time, so one instant does. In
`ServerUnovertaken` two activities of one task suffice for a tie, for an order
of ends and for a done one before an unfinished one (the database starts with an
unfinished one that ends late); two instants put an end
at a deadline and after it, and two ends together. The plan that is posted ends
after the deadline. Overtaking is a matter of
two handlers. `MaxRows` makes an INSERT at the bound impossible;
a handler then still can fail, so no behaviour is cut off half way. The limits of
`Views` (7, 100, 100 and 100 in the code) are constants, so small that two rows
reach each: an export of two rows takes three pages, a task with two plans is
refused, the latest page leaves an activity out. One request is enough there, as
a write is one statement and a page sees whatever mix of them has been
executed; `ViewsProofs` has any number. Four boxes
are enough for three columns with one reused; heights lie below, at and above
the minimum, one negative (an activity that ends before it starts). In RRuleGen
a rule has three occurrences and another shares one of the times; `MaxCopies`
bounds the tasks stored for one occurrence. In Sessions, two requests make every
overlap of two handlers, two logins a newer one begun before the older
comes back, and two sessions of a name a cookie forgotten and a new session
after it. In FormTimes the zones are one east of UTC, one that
skips an hour, one that repeats one, at midnight, and one without a midnight; the
readings lie seconds before and after midnight in UTC and in some of them, and
two forms in a row are enough for one to show what another stored. The proofs
below remove the bounds for all of the properties but the two about liveness.

Deadlock is checked in all runs but `Sessions`, where the system may stop. In
`RRule` a corrupt cache stops the program (every run panics) until someone
deletes it. In `Sessions` there are only so many logins: a browser whose login
sessions are gone and whose verifiers are used up has nothing left to send.

The five violation runs are findings, listed in `PROJECT.json` with the text of
the code that they contradict. For three of them a passing run says what their
only cause is: `ExtendOnlyMovesEnd` and `DeadlineRespected` hold in
`ServerUnovertaken`, where no request is overtaken, and `DayLostByMove` in
`Views` names what makes an activity lose its task.

## Fairness

`Layout` has weak fairness of its steps, since a Go function that has been
called runs on; `Returns` needs it. `RRuleGen` has weak fairness of `Run`, the
steps of a run of jks-rrule that has begun, for the same reason. Nothing makes
anyone begin one, so `CaughtUp` has that as its antecedent: if the program is
always run again, and stops half way no more from some time on, then every
occurrence within reach gets its task, unless it was skipped. Nothing makes a user send a request, and any handler can
fail, so `Server`, `Views`, `Sessions` and `FormTimes` state safety only.

## Proofs

All for every value of the constants, under the named assumptions in `Store`
(times are integers), `Server` (forms are of their type, legacy activities
refer to legacy tasks), `Views` (limits are positive), `Layout` and `RRuleGen`
(types of the constants), `Sessions` (a missing value is none of the others)
and `FormTimes` (types, and `WholeMinutes`: clocks change by whole minutes, at whole minutes).

| theorem | statement |
|---|---|
| `ServerProofs!Invariance` | `Spec => []Consistent` |
| `ServerProofs!TypeCorrect`, `ReferencesHold`, `PlansFulfilled`, `LinksSound` | the parts of it that are about tables |
| `ServerProofs!UndoneListExact` | `Spec => []UndoneExact`: the query of the undone list |
| `ServerProofs!Refinement` | `Spec => KeepsLedger` |
| `ViewsProofs!PagesTyped`, `TasksFound`, `PlansOfDay`, `TaskPageCurrent` | `ViewsSpec => []PageOK` and likewise `TaskFound`, `DayPlansKnown`, `TaskPageBehind` |
| `ViewsProofs!PlansNeverCut`, `UndoneAllListed` | `ViewsSpec => PlansNotCut`, `ViewsSpec => UndoneComplete` |
| `ExportProofs!ExportsExact` | `ViewsSpec => []ExportExact` |
| `ViewsProofs!DayLostOnlyByMove` | `ViewsSpec => DayLostByMove` |
| `AtomicProofs!AtomicUnlessOvertaken` | `Unovertaken => KeepsAtomic`: refinement of `Atomic` |
| `AtomicProofs!ExtendUnlessOvertaken`, `DeadlineUnlessOvertaken` | `Unovertaken => ExtendOnlyMovesEnd`, `Unovertaken => DeadlineRespected` |
| `AtomicProofs!SerialAtomic` | with at most one element in `Req`, `Spec => KeepsAtomic` |
| `LayoutProofs!LayoutTypes`, `BoxesApart`, `SortsCompose`, `ColumnsAllDrawn`, `PanicCondition` | the other invariants of the `Layout` run |
| `LayoutProofs!ColumnsMinimal` | `Spec => []NoColumnWasted`: a box is in column *c* only if *c* boxes are beside it |
| `LayoutProofs!FirstFitBest` | with a positive `minHeight` (dayView passes 20 minutes), `Spec => []FewestColumns` |
| `LayoutProofs!SearchEnds`, `ReturnsAllPlaced` | every step decreases `StepsLeft`, a natural number; at the return every box is placed |
| `RRuleProofs!RunEnds` | a run that has its window decreases its `StepsLeft` with every step |
| `RRuleProofs!MissedOnlyIfSkipped` | `Spec => []NothingMissed` |
| `RRuleProofs!NeverTwice` | `Spec => []NothingTwice` |
| `SessionsProofs!TypesHold`, `CookiesHaveFiles`, `LoginsLast`, `ZonesKept`, `LatestLoginsWork` | the invariants of the `Sessions` run |
| `SessionsProofs!LoggedOutByLoss` | `Spec => LogoutOnlyByLoss` |
| `FormTimesProofs!TypesHold`, `DaysShown`, `HoursDrawn`, `EditsKeepTimes`, `ExtendsAsShown`, `ResumesOrdered` | the properties of the `FormTimes` run |

*Server.* `References`, `PlanFulfilledByOwnTask` and `OnePlanPerActivity` are
not inductive: a handler between two statements carries ids it will write.
`Consistent` adds `LocalsFresh` (a handler's copies still agree with the rows
they came from on the columns that never change: that an activity or a plan is
for a given task) and `PledgesExclusive` (an activity that is about to be linked
is in no plan, and in no other handler's hands: what LastInsertId being the
caller's own id buys). The proof has one step for each action. `QuietStep`
gathers the actions that touch no table, `TablesKept` and `OthersFresh` say
what a write by one handler leaves true for the others. `Refinement` follows
from the invariant: an INSERT is a ledger step because the task exists, PlanEdit is one because
of `LocalsFresh` and `PledgesExclusive`, everything else is a stutter.
`UndoneListExact` holds of any tables that have their types: a task with
activities has a last one (`LastExists`, from the well-foundedness of the
numbers by `LeastNumber`), so the join finds it and the union's other half does
not list it again.

*Views.* The invariant `ViewsInv` adds to `Consistent` that a handler about to
link a plan holds the plan's own times (`TimesFresh`: PlanEdit writes every
column back), and what a page between two SELECTs may still rely on
(`PageSound`): the tasks it will follow exist, its plans are still in the range,
the activities it lists are all but newer ones. `StepRows` shows what every
write leaves alone (`RowsStay`), and that is all the page needs of the writers.
For the limits, `PageFits` and `ShortPage` say that a page with fewer rows than
its limit has them all. For exports, `ExportSound` says that what has been read is
the first rows of the window, as many as the offset: consecutive pages are one page
(`NextPage`), and rows added behind all others leave a full page as it is
(`NewerRows`). New rows are behind, since ids grow and no row leaves the window.

An action property of a page, `DayLostByMove`, splits on who makes the step:
`WriteLoses` shows that a write leaves `DayCovered` true unless it is the UPDATE
of an activity in the day, `EditChanges` that this one then moves it out, and
`ReadCovers` that the page's own SELECTs lose nothing.

*Atomic.* `AtomicInv` adds `UpToDate` to `Consistent` and `TimesFresh`: what a
handler is about to write is what its form makes of the rows *as they are now*.
A handler's own statements establish it as they read; `OthersUpToDate` shows
that another handler's step keeps it unless the handler is `Overtaken`, which
is all that the hypothesis is needed for. Given `UpToDate`, each write is one
step of `Atomic` (`ActivityAddAtomic`, `PlanEditAtomic`, `PlanAddAtomic`,
`UpdateAtomic`), and everything else a stutter, an arrival or a failure of a
request. PlanEdit writes back a row from a copy too, and needs no hypothesis:
of its columns only the link ever changes, which is the one it means to set.
With one slot nothing can be overtaken, hence `SerialAtomic`.

*Layout.* The inductive invariant adds that the boxes stay ordered by drawn
height between the sorts, that each column's bottom is the bottom of its last
box (so that every earlier box of the column ends above it), and that the columns skipped
in the current search each hold a box that reaches below the current top. The
last gives `NoColumnWasted` by an injection from columns to boxes beside.
`FirstFitBest` follows from it: the box in the last column and those beside it
all cover one moment, the top of that box, and are one more than fewer columns
can hold apart, by the pigeonhole principle. `SearchEnds` counts the columns
that are still to be tried; its invariant adds that the search goes no further
than one past the slice.

*RRuleGen.* `MissedOnlyIfSkipped` rests on an invariant that says how the window
of a run and the history fit together: every time between `reached` and `from`
was skipped, and which occurrences of the window have their task already, those
of rules and times the loop has passed. At Truncate the two make `reached`
move on. An empty file means that it was lost, except in the run that has
emptied it: that is what makes Open record a start without a cache. `NeverTwice`
says, as long as runs are smooth, which ones may have a task at all: those
before `from`, and those the loop has passed; what is left to store has none.
`RunEnds` counts the rules and the occurrences of the window that are still to
be stored, which are finitely many: `cfg.Tasks` is a map, the window an
interval.

*Sessions.* `Typed` adds to the types that a handler which will save a login
session holds a user, and which code a request carries. `Stored` is the
invariant for `CookieHasFile` and `LoggedInStays`: every id in a cookie, a
request or an answer names a file that was written, and every login session
that was saved has a user. `LogoutOnlyByLoss` follows from it before and after
a step: a cookie that stays, with a file that can be read, is still a login
(`StaysLoggedIn`), and `LogoutSteps` goes through the actions that change either.
`Alone` says that under `serial` at most one request is under way; with it `ZoneSerial` and `VerifierSerial` say of each point of a
handler what its copy and its file hold of the zone and of the verifier. Each
has a step for every action.

*FormTimes.* The invariant is about types only, the content is in the
lemmas about conversions: `DateUnique` (a civil time that is neither skipped nor
repeated becomes an instant that shows as that time again), `DateOrder` (two such
times keep their order), `DayParts` and `MinuteParts` (division), `SinceMidnight`.

Model-checked only: `Returns` and `CaughtUp`, as liveness under fairness is out of
the prover's reach. What they rest on apart from fairness is proved:
`SearchEnds` and `ReturnsAllPlaced` for the one, `RunEnds` and `MissedOnlyIfSkipped` for
the other. What TLC adds is that the steps are enabled, for one that every
slice has a stable sort.

## Not modelled

- Link data. Nothing calls `NewLinkData`, `syncDatabase` or `ReplaceLinks`, so
  nothing ever stores a link. GET /linkdata calls `GetLinks`, which fails every time: the
  table `links` that its query names is created by no migration
  (`6_linkdata.up.sql` creates `linkdata`). `syncDatabase` would not end
  either: its two loops (`server/linkdata.go:44`, `:68`) have no exit at the
  last page. A model of it would be one of a program that nobody can run.
- RDF conversion and templates are presentation without state; the format
  functions that forms depend on are in `FormTimes`.
- The seekback query changes nothing here; when it fails, the activity's page is
  a 500.
- Startup is flags and configuration. Migrations are the golang-migrate
  library's; the rows they leave are initial states. jks-rrule drops the error of
  `Migrate` (`cmd/jks-rrule/main.go:120` tests the one of `Open` again) and would
  run over a schema that failed to migrate.
- Of the readers: the tasks of an export (paged in the order of due dates, which
  the model leaves out), the pages that read a single row, and the custom log.
  The text search of TaskSearch is passed an empty query by every caller.
- Of the forms: those of tasks and plans, which use the same conversions as the
  ones of activities, and the converter of durations.
- In `Server`, the browser sending a POST again after a lost answer is two
  requests with one form. It stores the activity twice, and nothing in the code
  promises otherwise.

## Plan

Done, in this order: `Store` and `Server` with their hazards; `Ledger` and the
refinement; `Layout`; `RRuleGen`; the proofs of all four; `Views` and its proofs;
`Sessions` and `FormTimes` with theirs; `Atomic` and when `Server` implements
it; the least number of columns; that `Layout` and a run of jks-rrule end.

Next:

1. jks-rrule beside the server: its TaskAdd is one more `taskNewPost`, which
   `Server` already interleaves with everything, so nothing new is expected of it.
2. The order of the undone list, once deadlines have zones in the model.
3. The tasks of an export, whose pages are in the order of due dates: an edit of a
   due date between two pages moves a row.
