# Verification of home-api

TLA+ models of the home API server (Go, `src/internal/api`, PostgreSQL through
sqlc), of the process around it and of the pages it serves (`src/app/assets`),
model-checked with TLC, and theorems about them checked with TLAPS.

The program keeps points, posts and sessions for a household. Almost all of its
correctness rests on what PostgreSQL does when request goroutines overlap, and on
the order in which answers reach a page: the Go code holds no lock around the
tables, retries nothing and mostly runs single statements. The models of the server are
therefore at the level of **statements**: a request is a record of what its
handler has done so far, and one action is one statement, one commit, one
failure or one answer. The models of the pages are at the level of **calls**: one
action starts a call, serves it or delivers its answer.

Contents

1. [The system](#1-the-system)
2. [Modules](#2-modules)
3. [Runs](#3-runs)
4. [Proofs](#4-proofs)
5. [Disagreements found](#5-disagreements-found)
6. [What is left out, and the plan](#6-what-is-left-out-and-the-plan)

## 1. The system

### Components

| Component | Source (under `src/`) | State | Operations | What makes it correct |
|---|---|---|---|---|
| Task handlers | `internal/api/task_handlers.go`, `db/queries/tasks.sql` | tables `tasks`, `task_assignments`, `task_completions`, column `users.points` | create, update, deactivate (administrators); complete for oneself or from the dashboard | one payment per task, user and day; balance = sum of what completions paid; row and assignment list of one request; every active task can come due |
| Task reads and dashboard | `task_handlers.go`, `app/assets/tasks-dashboard.js` | per load: what has been read; the page's lists | load, complete | no due task is missed although the queries read different moments; lists agree with the tables |
| Task pages | `app/assets/tasks.js` | an administrator's list of all tasks, everybody else's of the day, the balance | load, complete, create, deactivate | lists agree with the tables they were read from |
| Auth service | `internal/api/auth_service.go`, `auth_endpoints.go`, `auth_handlers.go` | tables `users`, `refresh_tokens` | register, login, refresh, logout, dev login | rotation is atomic; chains keep user and login; revocation is final; a grant needs the password |
| Request authentication | `internal/api/middleware.go`, `internal/auth` | none (tokens carry their own expiry) | bearer, API key and cookie precedence; administrator test | the first credential that is there decides, as documented |
| API keys | `internal/api/api_key_handlers.go`, `db/queries/api_keys.sql` | table `api_keys` | issue (up to three attempts when the hash is taken), stamp last use | one key per hash; a key belongs to who asked for it |
| Posts | `internal/api/post_handlers.go`, `db/queries/posts.sql` | table `posts` with two self references | create, reply, edit, delete, list | threads stay whole; nothing stored is unreachable; a post keeps author and place |
| Timeline | `app/assets/app.js` | lists of posts and replies, offset, flags of what is loading | load a page, reset, open a thread, post, reply | every post shown once, none skipped, counts right |
| Browser session | `app/assets/shared.js`, `app.js`, `login.js`, `tasks.js`, `tasks-dashboard.js` | two HttpOnly cookies, `localStorage`, the user each page shows | `apiFetch` with refresh and retry, init, login, dev login, logout | cookies belong to one user; a live session is not lost; the shown user is the one the cookies act for |
| Router and middleware | `internal/api/server.go`, `middleware.go` | status recorder and log context per request | log, recover, authenticate, dispatch | one access line per answer, saying what was sent |
| Process lifecycle | `cmd/api/main.go` | server, pool, signal, the channel of the listener | start, serve, shut down in ten seconds | no request is cut off before its ten seconds; the process ends |
| Logging | `internal/logging` | buffer and sticky error of `LOG_FILE` | write, flush, close | the file has every line |
| Users, profile, health, pages | `internal/api/*.go`, `app` | none | single reads, embedded files | - |
| Command line tools, build information | `cmd/*`, `internal/build` | none | one value per run | - |

### Interactions

- The handlers share nothing in memory but the pool, the logger and the configuration. They
  interact through rows: the unique index on `(task_id, user_id, completed_on)`,
  the row locks of `UPDATE`, the `KEY SHARE` locks of foreign keys, and
  snapshots taken at the start of each statement (READ COMMITTED).
- A task edit and a completion meet in the rows of `tasks` and
  `task_assignments`; two completions meet in the unique index and in the row of
  the user.
- Refresh and logout meet in the row of `refresh_tokens`.
- Replies and deletions meet in the rows of the posts a reply refers to.
- A page meets the tables in snapshots that are old when they arrive, and its own
  other calls in the lists their answers replace or extend.
- Tabs of one browser share the cookies and `localStorage` and nothing else;
  each tab's calls await their own answers.
- `run()`, the listening goroutine and the requests meet in `Shutdown`, in the pool,
  which `run()` closes when it returns, and in the buffer of the log file.

### Hard behaviours

Interleavings of statements, snapshots that are stale when used, a failure
between two statements, commits whose answer is lost and is asked for again, a
clock that passes midnight or an expiry between a check and a commit, integers
at their column's limit, requests that wait for each other's rows, answers
that reach a browser in any order, pages read by offset while the table moves, and
the end of the process under requests that run. `PROJECT.json` lists them at their
lines with the properties that cover them.

## 2. Modules

```
TaskRules -- TaskEditing -- TaskCompletion -- TaskDashboard -- DailyTasks
                  |               |  \-(implements)- PointsLedger   |
                  |-- TaskList    |                                 |
                  \------------ TaskProofs ------------------ DashboardProofs

PostThreads -(implements)- Threads -- Timeline -- TimelineProofs
PostThreadsProofs
AuthSessions -- AuthSessionsProofs
Credentials -- CredentialsProofs
BrowserSession -- BrowserProofs
Serving -- ServingProofs
```

A line is EXTENDS, from left to right and from top to bottom, except where it says implements. Each `MC*` module EXTENDS its
component and gives names to the values the `.cfg` files use; nothing is
redefined there. Mutated definitions (`\* Mutant: ...`) stand before the
definition they are a wrong form of and are used by no specification.

### Task rules (`TaskRules`)

The pure part: `parseTaskInput`, `parseAssigneeIDs`, the row a body is stored as
(`RowOf`) and the days a row is due (`Due`, the condition that `CompleteTask`,
`AvailableTasks` and `ListAvailableTaskAssignees` share). A title is an opaque
value; a UUID that does not parse is a value outside `UserIds`.

### Editing (`TaskEditing`)

| TLA+ | code |
|---|---|
| `tasks`, `assigned` | committed rows of `tasks` and `task_assignments` |
| `edit[e]` | what the transaction of request `e` has done: its stage, the assignees still to insert, the rows it deleted and inserted |
| `BeginCreate`, `BeginUpdate` | `createTask`, `updateTask` up to `BeginTx`: `requireAdmin`, `parseTaskInput`, `parseAssigneeIDs` |
| `CreateTask`, `UpdateTask`, `DeleteTaskAssignments`, `AssignTask`, `CommitEdit` | the statements |
| `AbortEdit` | an error of a statement or of the commit, a client that goes away, a crash: the deferred `Rollback` |
| `DeleteTask` | `deleteTask`, one `UPDATE` in autocommit |

Uncommitted work is in `edit` only, so an abort forgets it. `UpdateTask` waits
until no other transaction has written the row (`RowFree`).

### The list of an administrator (`TaskList`, over `TaskEditing`)

`list` is `state.tasks` of tasks.js, `calls` the fetches under way. A load
(`loadAllTasks`, `listTasks`) replaces the list by what one statement read; a create
(`handleCreateTask`, `createTask`, `workCreate`) is a transaction of `TaskEditing` that
the page has asked for and whose task is appended when the answer comes; a
deactivation (`deleteTask`, `serveDelete`) marks the rows of the list that is there
then. `Refuse` is a body the server does not take, or an answer that is lost;
`Receive` delivers. `company` says who else is there: nobody (`waits`, one call at a time),
others who create and deactivate while calls overlap and get lost (`adds`), or others
who update, too, without the page (`edits`; this is `TaskEditing` by itself).

### Completing (`TaskCompletion`, over `TaskEditing`)

`CompleteTask` is one SQL statement and two steps of the model: its CTE reads
the task and the assignment in the statement's snapshot (`FindTask`), and the
`INSERT ... ON CONFLICT DO NOTHING` may then wait for another transaction that
has inserted the same key (`InsertCompletion`, guard `KeyFree`). `AddUserPoints`
waits for the user's row (`UserRowFree`) and then computes from the newest
committed balance; a result beyond the column is an error that rolls the
completion back. `CommitCompletion` makes both visible. The date is read when
the request begins (`completeTaskForUser`), and `NextDay` may pass in between.

`PointsLedger` is the promise: a completion and its payment appear in one step,
once per task, user and day. `ImplementsLedger` states that `TaskCompletion`
implements it under the mapping `paid <- completions`, `points <- points`.
`award`, the points a row's transaction paid, is not a column; it records what
the mapping needs.

### The dashboard (`TaskDashboard`, over `TaskCompletion`)

| TLA+ | code |
|---|---|
| `loads[l]` | a running `loadDashboard`: what `taskDashboardData` has read so far, or the answer on its way |
| `clicks[c]` | a running `completeDashboardTask` of the page, around the transaction of `TaskCompletion` |
| `shown` | `state.assignees` and `state.date` of the page |
| `loadDashboard`, `ListAssignees`, `ListAvailable`, `ListCompleted` | the day, then `ListAvailableTaskAssignees`, then two queries per user, each a snapshot of its own |
| `endLoad`, `endClick`, `failLoad`, `failClick` | an answer, or none, arrives |

`taskDashboardData` opens no transaction, so completions and edits come in between
any two of its queries. A click keeps the assignee object it was made on, and
a load that ends meanwhile replaces that object: `current` says whether it did.
`world` says who else acts: a page alone that waits for each answer (`waits`), a page
alone with overlapping clicks (`hurries`), or anything (`shared`).

### The page of the day (`DailyTasks`, over `TaskDashboard`)

`daily` is what tasks.js keeps for a user who is no administrator: the open tasks
of a day and the balance in the header. It is opened after a dashboard has been used,
and as often as one likes (`init`): `readSession` gives it the balance that localStorage
has, the one this page left there, however old, or the present one. `/api/me` may then
fail, and the page goes on with that copy; `daily.heard`, history, says that the
balance has come from the server since the page was opened. `me` and `listMyDailyTasks` are the two statements it
asks for, `hydrateCurrentUser`, `loadTaskView` and `loadDailyTasks` what it does with them,
`clickTask`, `serveTask` and `endTask` a completion. The transaction, its failures and
the other users are those of `TaskDashboard`.

### Sessions on the server (`AuthSessions`)

Register and Login run statements in autocommit; only Refresh has a transaction
(`GetRefreshToken`, a plain read that locks nothing, then `RevokeRefreshToken`,
`IssueForRefresh`, `CommitRefresh`). The `UPDATE` of the revocation waits for the row and looks at
`revoked_at` again, and the code does not look at how many rows it changed:
`stamps` keeps that. `Answer` puts the new token among those a client holds,
`Fail` loses it. A token stands for the hash stored; `parent` and `session` are
not columns, they record which token a row replaces and the login its chain began
with. The clients of the accounts in `Patient` wait for their answers, those of the
others overlap and retry; the properties that need the former say so, and one run
has both.

### Who a request acts for (`Credentials`)

`authenticateRequest`, `GetBearerToken` and `GetAPIKey` are operators over the headers
of a request: which scheme `Authorization` names and with what value, `X-API-Key`,
the cookie. `Authenticate` and `AuthenticateAPIKey` decide about one
value, by `config` (the environments and modes `NewAuthenticator` lets
the process start in), the clock and the rows of `api_keys`. `MakeJWT` and `ValidateJWT` cut
a finer clock to whole seconds, as the claims do, and `CookieDies` does what a browser
does with `Max-Age` and `Expires`. The actions issue keys: `createAPIKey`, up to
three times `CreateAPIKey` (a value that is taken is drawn anew), then
`AnswerKey` or `FailKey`. The properties compare `authenticateRequest` with
`Entitles`, which says what one credential is good for without any order.

### Posts (`PostThreads`, `Threads`)

A reply is a snapshot read of its parent (`createReply`), the insert with the
first foreign key (`LinkParent`), the second foreign key (`LinkRoot`) and the
commit. A deletion locks its row (`deletePost`) and then looks for references:
none (`CommitDelete`), a committed one (`RefuseDelete`, an error and a 500), or
one that is itself being deleted, for which it waits. `parsePostBody` counts
bytes, the column counts characters. `listPosts` and `listPostReplies` are the
sets the two lists hold, without paging.

`Threads` is the promise: a post, a reply, an edit or a deletion takes effect in one
step, a reply hangs on a stored post of its thread, and only a post that nothing
hangs on goes. `ImplementsThreads` states that `PostThreads` implements it.

### The timeline (`Timeline`, over `Threads`)

| TLA+ | code |
|---|---|
| `shown`, `offset`, `hasMore`, `loadingPosts` | `state.posts` and its paging |
| `replies[p]` | `state.replies[p]`: expanded, loading, loaded, error, items |
| `calls[c]` | a fetch, served at one moment and delivered at a later one, or never |
| `loadPosts`, `EndPost` | Refresh, scrolling, the reload after a post; returns at once while a load runs |
| `ServeLoad`, `ServeReplies`, `ServeWrite`, `Refuse` | the server: `LIMIT`/`OFFSET` over the order of `created_at`, the oldest replies, a write, a refusal |
| `EndLoad`, `EndReplies`, `EndReply`, `EndWriteFailed` | what the page does with the answer |
| `toggleReplies`, `SendPost`, `SendReply` | the buttons |

An id is a place in the order of `created_at`, and posts may appear in another order.
`Ordered` is `ORDER BY`: at place `i` stands the row before which `i - 1` others come.
A reset drops the objects of the threads: a fetch that is under way keeps one
nobody shows (`current`). `base` is history, the posts that were there when the
timeline was last read from its start. `world`: the page alone, one call at a time
(`waits`); others write (`creates`); others delete and this page only reads (`deletes`).
`Timeline` stands on `Threads` rather than on `PostThreads`: that the handlers implement
`Threads` is what makes the smaller table enough.

### Session in the browser (`BrowserSession`)

| TLA+ | code |
|---|---|
| `jar` | the cookies set by `setAuthCookies`; an access token is the user it names |
| `local` | `localStorage["home-api-session"]` |
| `shown[tab]` | `state.session.user` of the page |
| `call[c]` | a running `apiFetch`: which request of it is out (first, refresh, retry), sent or answered |
| `tokens` | `refresh_tokens`, as far as anybody can still send them |
| `init`, `handleWrite`, `handleLogin`, `handleLogout` | what people do; `handleLogin` is the form, registration and the selection of a dev user |
| `authenticate`, `login`, `devLogin`, `checkRefresh`, `commitRefresh`, `logout` | the server |
| `refresh`, `retry`, `endRefused`, `endAccepted`, `endLogin`, `endLogout`, `fail` | an answer, or none, arrives |
| `expireAccess`, `expireRefresh` | `Max-Age`; the access token lives no longer than the refresh token (main.go:51-58 asks only that both times are positive, the documented values satisfy it) |

`world` is chosen at the start: whether calls overlap, whether anything is
lost, and whether the server runs in mode `jwt` or `dev` (where a refresh is answered 503, which is
no authentication error for the page). Each property says under which of the worlds it holds, so one run
covers them. Abstractions: the server handles a request in one step, except
for a refresh, whose check and commit are apart (`AuthSessions` has every
statement); a page that is left during a call is the call whose answer is lost; a request the browser gave up
on is not handled later; a token value nobody can send any more is drawn again, which
keeps the state space finite without bounding the number of refreshes.

### The process and its requests (`Serving`)

| TLA+ | code |
|---|---|
| `stage`, `code` | where `run()` is, with what the process ends |
| `listener`, `signalled`, `waited` | `serverErr`, the context of `NotifyContext`, the time of `Shutdown` |
| `pool` | the database handle, closed by a `defer` |
| `request[r]` | a request in the chain of middlewares, with its `statusRecorder` and `LogContext` |
| `stderr`, `buffer`, `file`, `disk` | the two sinks of the logger; `disk` is the sticky error of `bufferedFile` |
| `Start`, `ListenError`, `BeginShutdown`, `ShutdownDone`, `ShutdownTimesOut`, `AwaitListener`, `ClosePool`, `FlushLogs` | `run()` |
| `Listen`, `ListenEnds` | the goroutine of `ListenAndServe` |
| `Connect`, `Route`, `Authenticate`, `Respond`, `Return`, `Panic`, `ServedRequest` | a request from `loggingMiddleware` inwards and out again |
| `Signal`, `Kill` | SIGINT/SIGTERM and SIGKILL |

What a handler does to the tables is in the other modules; here it answers, panics, returns
without having written, or never ends. `Shutdown` itself is net/http's: it waits
until every connection is idle, counts one that has sent nothing for five seconds as
idle (`CloseNew`), and gives up after its context's ten seconds (`Grace` ticks). Lines have no order
and no size: the buffer takes `Room` of them, a line that is split when the buffer
fills counts as still in it, and the flush at the end, which takes no lock, may lose any
buffered lines if a request still logs.

## 3. Runs

`expect: pass` means that TLC explores every reachable state of the instance.

| Run | Instance | Shows |
|---|---|---|
| `TaskEditing` (`TaskList`) | 2 editors, 2 tasks, 3 users of which one does not exist, ten bodies, one for each way `parseTaskInput` tells bodies apart; a page with 2 calls; three worlds | rows and assignment lists of one request (`AssignmentsMatchRow`), active rows come due (`RowsComeDue`), the list agrees (`ListAgrees`), every request answers (`EditsFinish`) |
| `CompletionRace` (`TaskCompletion`) | 2 completers, 1 editor, 2 users, a task that an edit takes from its user and another makes worth 2 points instead of 1, `MaxInt` 3, two days | `PointsMatchCompletions`, `CompletedOncePerDay`, `ImplementsLedger`; a second day's round overflows; requests that queue for one user's row all end (`CompletionsFinish`) |
| `TaskDashboard` (`DailyTasks`) | a user with 2 tasks due on the first of two days and an administrator without any, 2 requests, 1 load, the dashboard and then the user's own page, opened again and again, three worlds | no due task is in neither list although the queries read different moments (`NothingMissed`); what either page says is true, and up to date where it can be (`PageAgrees`, `DailyAgrees`), with a stale copy of the balance to begin with; completions are dated by due days (`CompletedOnDueDay`) |
| `AuthOverlap` | 2 requests, 2 accounts of which one's clients wait, 3 tokens, right and wrong password, one tick of the clock | `RotationAtomic`, `SuccessorsSound`, `RevokedForGood` for both; `OneLiveTokenPerSession`, `LogoutEndsSession` for the one that waits |
| `AuthRotationForks` | one account, overlapping, 3 tokens | violation of `RotatedOnce` |
| `Credentials` | 2 users and an unknown subject, 2 keys, 2 requests for keys, a JWT of each kind, headers with at most two credentials, all configurations | `ActsForOwner`, `HeadersDecide`, `FormsAccepted`, `KeysGiven`, `AccessWindow` |
| `Posts` (`PostThreads`) | 3 posts, 2 users, 3 writers, bodies of 0, 3 and 7 bytes against a limit of 4 | `ThreadsIntact`, `EveryPostListed`, `ImplementsThreads`, `WritesFinish` |
| `PostLength` | 1 writer | violation of `BodiesOfLengthAccepted` |
| `Timeline` | 4 ids, 3 tables to begin with, pages of 1 post, threads of 1 reply, 2 calls, three worlds | `TimelineAgrees`, `NothingSkipped`, `NoneTwice`, `RepliesHonest` |
| `BrowserTabs` (`BrowserSession`) | 2 people, 2 tabs, 2 calls, 4 tokens, all eight worlds | `CookiesAgree`, `JarUsable`, `LocalMatchesJar`, `RequestsInTurn` |
| `BrowserLogout` | 1 person, 1 tab, 1 call | violation of `LogoutClearsCredentials` |
| `Serving` | 2 requests, 1 user, `Grace` 2, `Room` 2, both log levels | `CutShortOnlyLate`, `LogsComplete`, `LinesTellAnswers`, `Stops` |

**Why the bounds are enough.** Two transactions are the smallest number that
meet in a row, and every lock here is between two; three are used where a third
may be starved or close a circle (`Posts`). Two users are needed for payments that must not
mix, three posts for a root, a parent and a reply that are different. In `CompletionRace` one task suffices:
two requests for one user with different keys are those of two days, and an edit takes the task
from its user or changes what it is worth while they are under way (no body hands it to the
other user: the task would then be two users' in turn, and the space too large for the liveness
property), and `MaxInt` is so small that the overflow is reached. Three refresh tokens give a fork (one
old, two successors), or a chain of two rotations, or two logins and a rotation.
In the browser two calls hold at most three tokens (the cookie and one on
its way to each call), so a fourth is always free and the number of
refreshes is not bounded. A dashboard needs two requests, one for a click and one for
somebody else, and a second day on which nothing is due; the user without tasks is
the one whose absence `NothingMissed` must not confuse, and requests of users for tasks they have not got
are refused and left out. A second load would meet the
first only in `shown`, which each replaces as a whole. `authenticateRequest`
looks at three headers and its answer depends on two of them at most, so two credentials
per request tell its branches apart. A second of two ticks is enough for a token made in the middle of one
(`AccessTTL` 3, a second and a half). A timeline needs a page that ends inside the
table, a post that appears behind it and one that appears before, and a thread
with more replies than are read; two calls are what it takes for a load and a
toggle, a reset or a reply to cross. `TaskList` needs one create and one deactivation that
overlap a load; when the ids are used up nothing more is created. In `Serving`, two requests let one be
cut short while the other is answered, two ticks separate "before" from "at" the
deadline, and a buffer of two lines is filled by three.
Symmetry is declared only for runs without liveness
properties, over sets that no initial value or assignment tells apart.

**Bounds by name.** `LastDay` (days of the clock), `EndOfTime` (clock of the
tokens), `Second` and `AccessTTL` (in ticks), `Tokens` and `PostIds` (values that may be drawn), `MaxInt`, `MaxBody`
(code: 280), `Limit`, `RepliesLimit` and `MaxLimit` (code: 20, 50 and 100), `Grace` (code: ten seconds), `Room` (code: 8192 bytes),
and the sets of requests (`Editors`, `Completers`, `Handlers`,
`Writers`, `Calls`, `Loads`, `Requests`). `Posts`, `PostLength`, `Credentials` and `Serving` do not look for
deadlock: when every id is drawn and the posts are deleted again, the model
stops because its ids run out; when the clock ends no credential may be left
that a request could be made with; and a process ends.

**Fairness.** Weak fairness of a request's own statements is what the Go
scheduler and PostgreSQL give to a goroutine that is neither blocked nor cancelled;
failing, beginning a request and the passing of days are not fair. A statement
that waits for a row is enabled again and again rather than continuously, since
others may take the row first. PostgreSQL queues waiters in order, hence strong
fairness for exactly the statements that wait: `UpdateTask`; `InsertCompletion`
and `AddUserPoints`; the foreign keys and the end of a deletion (`Linking`, `Ending`). The
liveness properties are about requests that have begun, never about people
making them; `TaskList` adds none for its calls, only `EditFairness`. `FairServingSpec` is fair to `run()`, to the
listening goroutine and to time, and not to handlers, which may hang: `Stops` holds all the
same because `Shutdown` has a deadline. The other modules state no fairness and no liveness: whether an answer
reaches a client depends on a network about which the code promises nothing.

Every property has a mutant in `PROJECT.json`: a wrong form of a definition (an index
that is missing, a statement outside its transaction, a cookie that is not set,
...) under which the same run finds the property violated.

## 4. Proofs

The theorems hold for any number of users, tasks, tokens, posts, tabs, calls and requests.
They rest on the named assumptions on the constants (`RulesAssumption`,
`SeedAssumption`, `CompletionAssumption`, `DailyAssumption`, `AuthAssumption`, `CredAssumption`,
`PostAssumption`, `BrowserAssumption`, `ServingAssumption`, `ListAssumption`, `TimelineAssumption`), which TLC evaluates
in the runs, and on nothing else. The last two say that a table a page finds has finitely many rows,
that ids are ordered as numbers are, and that `Limit + 1` is not above `MaxLimit` (21 and 100 in the code).

| Module | Theorem | States |
|---|---|---|
| `TaskProofs` | `EditsIsolated` | `EditSpec => [](EditTypeOK /\ AssignmentsMatchRow /\ TransactionsFit)` |
| | `TasksComeDue` | `EditSpec => []RowsComeDue` |
| | `TypeCorrect` | `Spec => []TypeOK` |
| | `PaidOnce` | one completion per task, user and day, locks held by one transaction |
| | `Monotonic` | `Spec => NothingTakenBack` |
| | `Refinement` | `Spec => ImplementsLedger` |
| | `DueDaysOnly` | `Spec => []CompletedOnDueDay` |
| | `BalancesRight` | `Spec => []PointsMatchCompletions` |
| | `ListRight` | `ListSpec => []ListAgrees` |
| | `ListsEdit` | `ListSpec => EditSpec`: pages that keep lists take nothing from the theorems about editors |
| `DashboardProofs` | `PagesTyped` | `DailySpec => [](IInv /\ DailyTypeOK)` |
| | `PagesServe` | `DailySpec => Spec`: both pages in front of the tables take nothing from the theorems about them |
| | `PagesDueDays` | `DailySpec => []CompletedOnDueDay` |
| | `NothingIsMissed` | `DailySpec => []NothingMissed` |
| | `NothingInvented` | balances and completions of both pages, of their loads and of answered clicks are past or present ones, in every world |
| | `DashboardHonest` | `DailySpec => []PageAgrees` |
| | `DailyPageHonest` | `DailySpec => []DailyAgrees` |
| `AuthSessionsProofs` | `RequestsAgree` | `AuthSpec => []AuthInv` |
| | `RotationSafe`, `ChainsSound` | held tokens stored, rotation atomic, chains sound |
| | `SingleFlightSafe`, `OnePairPerLogin` | one live token per login, none after a logout, for accounts whose clients wait |
| | `RevocationFinal` | `AuthSpec => RevokedForGood` |
| | `GrantsGenuine` | `AuthSpec => []GrantsAuthentic` |
| `CredentialsProofs` | `KeysStay` | `CredSpec => [](CredTypeOK /\ KeysGiven)` |
| | `ActsForOwnerAlways` | nobody is let in whom no credential of the request entitles |
| | `CookieComesLast` | `CredSpec => []HeadersDecide` |
| | `EveryFormWorks` | `CredSpec => []FormsAccepted` |
| | `TokensKeepTime` | `CredSpec => []AccessWindow`, for seconds of any length and any time to live |
| `PostThreadsProofs` | `ThreadsHold`, `NothingHidden` | types, whole threads, everything listed |
| | `LinksStay` | `PostSpec => []LinksHeld` |
| | `PlacesStay` | `PostSpec => PlacesKept` |
| | `PostsRefine` | `PostSpec => ImplementsThreads` |
| `TimelineProofs` | `TimelineTyped` | types, and which calls may be under way together |
| | `RepliesRight` | `TimelineSpec => []RepliesHonest` |
| | `NothingLost` | `TimelineSpec => []NothingSkipped` |
| | `NoDoubles` | `TimelineSpec => []NoneTwice` |
| | `TimelineRight` | `TimelineSpec => []TimelineAgrees` |
| | `TimelineServes` | `TimelineSpec => [][ThreadsNext]_posts`: to the table the page is a user of `Threads` |
| `BrowserProofs` | `BrowserTypes` | `BrowserSpec => []BrowserTypeOK` |
| | `CookiesBelongTogether` | `BrowserSpec => []CookiesAgree` |
| | `RefreshStaysUsable` | `BrowserSpec => []JarUsable` |
| | `LocalFollowsCookies` | `BrowserSpec => []LocalMatchesJar` |
| | `FetchEnds` | `BrowserSpec => RequestsInTurn` |
| `ServingProofs` | `ServingTypes` | `ServingSpec => []ServingTypeOK` |
| | `CutShortSafe`, `LogsSafe`, `LinesSafe` | the three invariants of the run `Serving` |

**Inductive invariants.** Hardly one of these properties is inductive: each is about
committed rows, and what a commit does depends on what the transaction read
before. The strengthening is the same idea each time, *what an open request
has read and written still fits the committed rows*:

- `EditInv` adds `TransactionsFit`: what a transaction has deleted and inserted
  is what turns the committed assignments into those it was asked for, and no
  two transactions have written one row.
- `CompletionInv` adds `LocksHeld`: requests past their `INSERT` have different keys,
  none of them completed yet, and a written balance is the committed one plus the
  award, with nobody else on that user. The commit is then a `Pay` of the ledger,
  and every other step a stutter, which is the refinement. `DaysRight` adds, for tasks
  nobody edits, that what a request has found is about a day its task is due on.
- `SumsRight` says that a user's balance is the `Total` of the rows of `completions`. With `IInv` a step pays
  one new completion or leaves both tables alone (`PaysOrStutters`, from the refinement), and then it is a
  fact about sums: a set with one more row has a total greater by its award (`TotalWith`). `Total` is
  a fold of the community modules, a recursive function on sets whose value `Picked` states as a condition on any
  function of the subsets; the induction over the size of a finite set is carried out in the module, since the
  library's induction theorem takes an operator.
- `ListInv` says of every call what its answer will make of the list, whatever the moment it comes
  (`CallFits`, `ListHonest`): rows that were read, and a create that is answered, are stored and never
  more active than the table says (`ShownRight`); a create at work is what its editor's transaction will commit; and a
  task whose deactivation is answered is inactive. For a page alone it adds `ListWhole`: the list is whole at rest, and with the
  answer under way applied to it (`After`).
- `MissingNone` says what a load can no longer miss: of a user whose open tasks are read, every due
  task is there or was completed before; and then the second query, which comes after,
  finds it. It stays true because completions only grow and, without edits, a task only
  ceases to be due.
- `PageAgrees` and `DailyAgrees` rest on two invariants. `PagesTrue` holds in every world: no request is
  dated in the future, and whatever a load has read, an answer brings or a page shows was so
  when it was read, which stays true because completions and balances only grow. `LoneInv` is about a page alone:
  while a click is under way nothing is loaded (`ClickFits`), so what loads have read is what the
  tables say (`LoadsFit`, `FetchesFit`), and a page of today differs from them for a task only if
  the answer that will move that task is there (`OpenFits`, `DoneFits`: the commit breaks the
  agreement of page and tables at the moment `OkClick` comes to hold, and the answer mends it). A
  page that waits, and has heard its balance (`daily.heard`), differs from it for the same reason only (`PointsFit`).
  `init` begins a new page with nothing of today, at a moment when no call is under way (`LoneOpens`). A completion may be served
  after midnight; it is then dated later than the page, which is why `PageDate` is a
  lower bound of the day.
- `AuthInv` adds `RequestsFit` (`Fits` for one request against the rows, `Apart`
  for two against each other) and `RowsSound`. `stamps <=> Live(old)` past the
  `UPDATE` is the heart: a row that was matched stays locked and live until the
  commit, and one that was not matched is revoked for good.
- `PostInv` adds `WritesFit`: while the parent of a reply is stored, the root read from
  it is still the right one, and ids are never shared. A commit is then the step of
  `Threads` of the same name.
- `TimelineProofs` first turns the lists into arithmetic: the place of a post is the number of newer ones
  (`Rank`; `OrderedPlaces`, `PageIs`), and a post that is written or deleted moves the places by one at most
  (`RanksGrow`). `BaseInv` is types, `CallsFit` (one load at a time, a reset begins with nothing shown) and `RepliesHonest`.
  A step then reads a page, ends one, begins one, or leaves rows and answers as they are (`StepKinds`), and each
  of two invariants is proved for these four kinds, about the rows shown and the rows an answer will have
  shown (`Coming`). `InReach`, while nobody deletes: a post of `base` is among them or stands behind as many. `InOrder`,
  while nobody else writes: they descend, and none stands before its place in the table, until the page's own post
  is answered, after which it reads nothing before it begins again. `WaitRight`, for a page that
  waits, says for each kind of call what is right already (`CallRight`); after a reply
  is served the page is wrong in one count, and `ReplyLands` says that counting it will make it right,
  which needs that the row is shown in one place only (`CountedOnce`).
- `CredInv` adds that the row a request has stored is the one of the key it will
  answer. The theorems about headers hold in every state whatever the order of the
  branches, from what each alternative of `authenticateRequest` comes to
  (`Alternatives`); those about time rest on three lemmas on `Unix`.
- `BrowserProofs` adds to `CookiesAgree` that an answer on its way brings a token of its
  own user (`CallsFit`), that what anybody may still send is stored (`HeldStored`) and
  that a token on its way is nobody else's (`TokensNew`). `JarUsable` needs `Usable`: on a
  network that loses nothing, whoever ended a token is about to replace the cookie.
  `LocalMatchesJar` needs `Follows`, what a single call may have changed of the cookies so far.
- `ServingProofs` adds `Order` (which stages of `run()`, of the listener and of the
  pool go together), `Kept` (every line of stderr is in the file or the buffer) and
  `Told` (which lines a request has left at each of its stages).

Each is proved as three facts: it holds initially, every step keeps it (one
lemma or step per action), and it implies the property.

`TransactionsFit`, `LocksHeld`, `NothingTakenBack`, `GrantsAuthentic`, `HeldTokensStored`, `LinksHeld` and
`PlacesKept`, and most type invariants,
are proved for all values and are therefore in no run.

**Only model-checked.** Liveness (`EditsFinish`, `CompletionsFinish`,
`WritesFinish`, `Stops`), since the provers handle neither fairness nor ENABLED.
All safety invariants of the passing runs, both refinements and both action properties are proved.

## 5. Disagreements found

- **A refresh token can be used twice** (`AuthRotationForks`, `RotatedOnce`;
  `auth_service.go:178`). `Refresh` reads the row without a lock and ignores how many rows
  the revocation changed, so two requests that read it before either commits
  are both answered with a successor, of which a later logout revokes one.
  Nothing worse follows: both belong to the same user and login, and expire
  no later than a refresh would have allowed (`SuccessorsSound` holds in the same
  state space), and clients that wait for their answers never meet it
  (`SingleFlightSafe`).
- **280 bytes are not 280 characters** (`PostLength`, `BodiesOfLengthAccepted`;
  `post_handlers.go:240`). The message and the schema speak of characters, the code measures
  bytes and refuses bodies that both would accept. The converse cannot
  happen: what the handler accepts meets the `CHECK` (`PostTypeOK`, proved).
- **A failed logout leaves the cookies** (`BrowserLogout`,
  `LogoutClearsCredentials`; `app.js:91`). The comment says that credentials are cleared all the same, but
  they are HttpOnly cookies that a script cannot clear.

Where no text of the repository promises otherwise, behaviour a user might not
expect is a condition of a property and not a finding: with overlapping calls a
page keeps a list that was read before its own change until the next Refresh (tasks.js:135,
tasks-dashboard.js:125), counts a reply twice (app.js:378), leaves a new post out
(app.js:161), shows a post twice or passes one over while others write or delete
(app.js:177), and shows an older balance (tasks-dashboard.js:304). A page
whose `/api/me` fails for another reason than the credentials shows the balance localStorage has, however old
(tasks.js:95), until a reload or a completion brings the present one; `DailyAgrees` promises no more than
that the user had it. A client whose refresh was answered into the void has to log in again (auth_service.go:187), and a refresh
that overlaps a logout leaves a successor (auth_service.go:202).

## 6. What is left out, and the plan

`partly` modelled components lack: in auth, the syntax of addresses, handles and
passwords and the cookie attributes besides their lifetime; in request authentication, lookups that
fail; of the router, request ids and the strictness of `decodeJSON`; in logging, how a record is formatted;
of the query layer, scanning and queries no handler calls; of users and profile,
everything but `/api/me`.

Hazards that are seen and have no property yet: a scroll load that fails ends the timeline
(app.js:187) and replies beyond the fiftieth cannot be reached (app.js:406), both single assignments;
a second signal kills the process at once (main.go:126), which is `Kill`; in mode dev an
expired cookie whose refresh is answered 503 leaves the page with its user (shared.js:47), which
`LocalMatchesJar` allows; and those `PROJECT.json` lists without a property, with the reason.

Next, in this order:

1. **`PointsLedger` and `Threads` themselves**: theorems about the promises alone (a balance never falls, a
   thread's root is a top level post) carried over by the refinements, instead of proved on the detailed modules.
2. **Hazards without a property**: the balance after two completions that are answered in the other order
   needs a page that shows a balance per answer; an update that brings back a deactivated task needs the form of the editor.
3. **Input syntax** of registration and login in `AuthSessions`, if a property comes to need it.

Left out for good: stateless reads of users, health and
build information, embedded files (they change no state); the command line
tools (one value from flags); appearance (no property is about
it); code generated by sqlc (the statements are modelled where they are called).
Also assumed rather than modelled: PostgreSQL's own
behaviour at READ COMMITTED (row locks, unique index, foreign keys) and net/http's `Shutdown` as described in
the modules, bcrypt and HMAC as perfect, and random values as never repeating.
