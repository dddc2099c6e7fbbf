# Verification of the chatbot's session, confirmation and tool-execution logic

TLA+ models of the program under `src/`, TLC configurations that check them on
small instances, and TLAPS proofs for all instances. Paths below are relative to
`src/chatbot/` unless they say otherwise; line numbers are those of this commit.

## The system

A FastAPI process answers chat messages about facility bookings. Everything it
remembers is in Redis and Postgres; the process itself keeps no state between
requests, so any number of coroutines (and of processes) work on the same keys.

`POST /chat/message` writes `request:{id} = processing`, schedules a background
task and returns. The background task, `_process_message`, reads the session,
has an LLM classify the message into one of ten intents, and dispatches: it
starts, corrects, suspends, stashes or restores a task, runs the planner (an LLM
loop that calls tools through the harness), or releases and executes a tool call
that was waiting for the user's confirmation. It ends by appending to the
history and storing the result the page polls for.

| component | state it keeps | operations | talks to |
|---|---|---|---|
| chat pipeline, `routers/chat.py` | `request:{id}` in Redis; locals across awaits | `post_message`, `_process_message`, `get_status` | all of the following |
| session state, `state/state_manager.py`, `state/schemas.py` | `session:{id}`: active, stashed and suspended tasks, each with slots, planner memory and at most one pending confirmation; `pending_confirmation:{user}` | one method per change, each a modifier passed to `_atomic_session_write` | Redis |
| planner, `agents/planners/` | the task's `planner_memory`, through the session | `run`: LLM, tool, confirmation, persist | LLM, harness, session state |
| router agent, `agents/router/` | none | `classify` | LLM |
| harness, `agents/harness/harness.py` | `cb:{tool}`: the circuit breaker's state and counters | `execute`: breaker, policy, retries, audit | policy engine, tools, audit log, Redis |
| policy engine and store, `agents/harness/policy_*.py` | `policy_rules`, `policy_change_log` in Postgres; `policy:{capability}:{tool}` and `rate_booking:{user}:{hour}` in Redis | `evaluate`, `get_active_rules`, `update_rule` | Postgres, Redis |
| audit log, `agents/harness/audit_logger.py` | `audit_logs` in Postgres, append only | `log`, which swallows its failures | Postgres |
| preferences and facility cache, `memory/preferences.py`, `routers/chat.py:442` | `user_preferences` in Postgres, read-through caches in Redis | `upsert`, `get_all`, `_get_cached_facilities` | Postgres, Redis, adapter |
| API adapter, `services/api_adapter.py`, `services/mock_server_auth.py` | one upstream cookie, in Redis and in the shared HTTP client | `_request` with one re-login on 401 | booking server |
| login and tokens, `routers/auth.py`, `middleware/auth_middleware.py` | recovery marker (read and deleted), `rate_ip:*` counters | `login`, `verify_hmac_token` | session state, booking server |
| booking server, `src/mock-server/server.js` | bookings and cookies in memory | book, cancel, list | - |
| page, `routers/ui.py` | one in-flight flag in the browser | send, poll | chat pipeline |

Health, session and status endpoints, response wording, UI hints, metrics,
logging, wiring, migrations and deployment files hold no behaviour that the
models would distinguish.

### What is hard, and what correct means

* **Interleaving.** The page sends one message at a time, but it stops waiting
  after its polls run out while the request goes on, a user may have two tabs,
  and the API allows any number of concurrent messages. Every await is a point
  where another request may rewrite the session. Correct means: whatever the
  interleaving, no task is in two places, a confirmed call runs at most once,
  it is the call its user was looking at, and a dead confirmation stays dead.
* **Optimistic writes.** A session write is WATCH, GET, a Python function,
  MULTI/EXEC, repeated up to three times. Correct means: each call is one atomic
  step or an exception without effect, and only rivals cost attempts.
* **Context that must follow.** The pending call, its slots, its turn counter,
  its recovery marker and the planner's memory belong to one task, and are
  written by code that addresses "the active task". Correct means: for one
  message at a time they never part.
* **Shared counters.** The circuit breaker of a tool is a hash that concurrent
  executions read, decide on and write in separate steps. Correct means: without
  overlap it is an ordinary breaker.
* **Effects without answers.** A booking may be made although its answer is late,
  is an error, or is lost when something fails afterwards. Correct means: a write
  is sent once, and an error that the server reported is not turned into a false
  one.
* **Copies of the rules and preferences.** Policy rules and preferences are read
  through caches that writers delete, and nothing locks the rows: a reader may
  store what it loaded before a change, a writer may merge into a row that is
  already outdated, and a deletion may fail. Correct means: only these hide a
  change, and no confirmation is lost with them.
* **One cookie for all.** Every upstream request shares one cookie jar, and every
  401 logs in anew. Correct means: a request acts as the service account, once,
  and is refused only because of a restart or a rival's dead cookie.
* **The page's lock.** One flag in the browser keeps messages serial, while
  sign-ins, failed fetches and exhausted polls come between. Correct means: one
  holder, always released, and the button says so.
* **Memory that grows.** The planner's memory is pruned on two of its ways out and
  not on the others. Correct means: it is bounded by the runs since the last
  pruning.
* **Failure.** Any await may raise, the process may die, the session may expire
  between any two steps. Correct means: at most one execution, and, unless the
  process dies, an answer to every message.

`PROJECT.json` lists the hazards line by line with the property that watches each.

## Modules

| module | models | extends |
|---|---|---|
| `SessionState` | the session record and every `StateManager` modifier, as operators from session to session | - |
| `SessionStateProofs` | lemmas about the modifiers: types, what each does to the active task, where each task and token comes from | `SessionState` |
| `Confirmation` | the promise about a confirmation: asked for once, released or withdrawn, executed at most once | - |
| `ChatPipeline` | `_process_message`, `post_message`, the recovery marker, the login after an expiry | `SessionState`, instantiates `Confirmation` |
| `ChatPipelineProofs` | theorems about `ChatPipeline`, its refinement of `Confirmation` among them | `ChatPipeline`, `SessionStateProofs` |
| `AtomicSession` | the promise of a session write: one atomic step per call | - |
| `SessionWrite` | the loop of `_atomic_session_write`, attempt by attempt | `SessionState` |
| `SessionWriteProofs` | theorems about `SessionWrite`, its refinement of `AtomicSession` among them | `SessionWrite` |
| `Breaker` | the promise of a circuit breaker whose operations are atomic | - |
| `Harness` | `AgentHarness.execute` for the calls of one tool, with the breaker's hash | instantiates `Breaker` |
| `HarnessProofs` | theorems about `Harness` | `Harness` |
| `Policy` | `PolicyEngine.evaluate`, `PolicyStore.get_active_rules` and `update_rule` | - |
| `PolicyProofs` | theorems about `Policy` | `Policy` |
| `Ledger` | the promise of the booking server's client: a request takes effect at most once | - |
| `Upstream` | `ApiAdapter._request`, `MockServerAuth` and the booking server | instantiates `Ledger` |
| `UpstreamProofs` | theorems about `Upstream`, its refinement of `Ledger` among them | `Upstream` |
| `Page` | the script of the chat page, and the result key it polls | - |
| `PageProofs` | theorems about `Page` | `Page` |
| `Preferences` | `PreferencesManager.upsert` and `get_all` | - |
| `Planner` | `BasePlanner.run` and the task's planner memory | - |
| `MemoryProofs` | theorems about `Preferences` and `Planner` | both |
| `MCChat`, `MCWrite`, `MCHarness`, `MCPolicy` | symmetry sets for TLC | the four models |
| `MCStores` | one behaviour space for two models, one of them moving, with their symmetry | `SessionWrite`, `Upstream` |
| `MCServices` | one behaviour space for four models, one of them moving, with the liveness properties | `ChatPipeline`, `Page`, `Preferences`, `Planner` |

### SessionState

A task has an id, its slots (`booking`: facility, date, start and duration;
`other`: the remaining fields), the owner of its planner memory, and one `pending` field for `awaiting_confirmation`,
`pending_tool_call` and `confirmation_token`: the code sets the three together
(`state_manager.py:308-311`) and clears them together (`:108-112`). A pending
call remembers the task and the booking slots the planner worked from, which is
what a user sees in its summary. Tasks and tokens are uuid4 values, and one request
makes at most one of each, so both carry the name of the request that made
them. Each operator is the body of one modifier; `UpdateSlots` is
`_apply_slot_cascade` reduced to its effect on the confirmation: a changed
booking slot drops it; the others (`facility_id`, `end_time`, opening hours) are
set, or reset with a booking slot, and drop nothing (`state_manager.py:157-166`).

### ChatPipeline

`session`, `marker` and `result` are the Redis keys; `pc`, `intent`, `view` and
`call` are a request's place in `_process_message` and its locals (`decision`,
`task` or the session's active task after a write, `pending_call`); `ran`,
`ignored`, `lapsed` and `prompt` are history variables for the properties. A
program point is named after the step that comes next.

One action is one access to Redis: what a coroutine does between two accesses
touches nothing shared and is part of the step that follows. So the LLM calls of
`classify` are in `Begin`, those of the planner in `Propose` and `Answer`, and
`_answer_side_question` in `Unstash`. `StateManager` methods that write the
session and then the marker are two actions, as in the code: `Release`,
`Reject`, `Update`, `Bump` and `Clear` are followed by `Unmark`, `Propose` by
`Mark`. `harness.execute` of a confirmed call is `Execute`; its outcome decides
whether `Clear` follows.

| action | code | action | code |
|---|---|---|---|
| `Post` | `chat.py:560-585` | `Stash`, `Unstash` | `:226-234` |
| `Begin` | `:65-134` | `Restore` | `:277-287` |
| `Bump` | `:109-134` | `Propose`, `Mark` | `base_planner.py:208-219`, `state_manager.py:299-333` |
| `Unclear` | `:139-148` | `Answer`, `Persist` | `base_planner.py:229-252`, `263-272` |
| `Release`, `ReleaseRefused`, `Refetch`, `Execute` | `:157-191` | `AppendTurn`, `Reply` | `chat.py:292-306` |
| `Clear` | `:184`, `:274` | `Raise`, `Error` | `:308-311` |
| `Reject` | `:198-205` | `Crash` | the process dies, or `:311` fails |
| `Create`, `Suspend` | `:207-222`, `:255-271` | `Expire` | both TTLs of a session |
| `Update`, `Read` | `:235-253` | `Login` | `auth.py:44-69` |

`Raise` holds the exceptions that are the code's own (the session is gone, no
active task); `Error` is an await that fails for reasons outside the program, at
any point; `ReleaseRefused` is the inner handler at `:189`, which also catches
the `SessionNotFoundError` (a `KeyError`) of the steps inside its `try`.
`Faults` says which of error, crash and expiry an instance admits.

`Confirmation` is the abstract promise of the whole: a token may be asked for
(`unasked`), then waits for the user (`pending`), is taken by a request
(`released`) and run (`executed`); it leaves a set for good. `Withdraw` stands for
rejection, expiry, correction, replacement and the loss of the task, its session
or the request that would have asked; `Abandon` for a request that ends with a
released call it did not run. The refinement mapping reads the four sets off the
program points (`BeforePlan`), the tokens in the session, the requests' `call` and
the history `ran`.

### SessionWrite and AtomicSession

`AtomicSession` is the abstract promise, generic in the operations: `Apply`,
`Refuse` (the modifier raised), `NotFound`, `GiveUp` (`ConcurrentWriteError`).
`SessionWrite` is the loop: `Watch`, then `Get` (read, check both TTLs, run the
modifier on the copy), then `Exec`, then `Retry` when a rival wrote or the key
expired in between (`dirty`). The modifier runs on every attempt and the locals
it assigns by `nonlocal` survive them; `expired` is such a local. Its operations
are the modifiers that `_process_message` passes with no argument but the
session, and `release`.

### Harness and Breaker

`Harness` follows any number of executions of one tool. `idempotent` is the
tool's flag; `pc`, `sent`, `heard` and `status` are an execution's place, its
attempts, its last answer and its result; `logged` says that the audit log was
handed a record, and `applied`, a history variable, that a write took effect
upstream. `cb` is the hash `cb:{tool}`, with `lapsed` for `time.time() >
open_until`; `success_count` is never read and is left out. `ideal` is chosen at
the start: it restricts a behaviour to executions that do not overlap and a Redis
that does not fail, and does not restrict the others.

| action | code (`agents/harness/harness.py`) |
|---|---|
| `Start` | lookup, domain, parameters, `:185-203` |
| `ReadState`, `ReadUntil`, `HalfOpen` | `is_open`, `:64-73` |
| `Evaluate` | the policy's verdict, `:218-275` |
| `Send` | one attempt of `_execute_tool`, `:133-165` |
| `ReadSuccess`, `Close`, `CountSuccess` | `record_success`, `:75-85` |
| `CountFailure`, `CountFailureTotal`, `ReadFailure`, `Open` | `record_failure`, `:87-101` |
| `Gauge` | `get_state` for the metrics, then the status, `:286-334` |
| `Audit` | `audit_logger.py:16-60` |
| `Unrecorded` | Redis raises inside the `try` at `:283`, and `:323` takes it for the tool's failure |
| `Raise` | it raises elsewhere, and the exception leaves `execute` |

The verdict of the policy engine and the server's answers are arbitrary: an
answer is success, 429, another 4xx, 5xx, a timeout or another exception, and
`Effects` says which of them a write that took effect can meet. A 4xx means that
it did not; a 5xx and a timeout leave it open. The circuit breaker of `Breaker`
counts and decides in one step. The refinement mapping hides the increments of a
failure that is still being recorded (`Half`), so that the abstract failure
happens at the step that decides.

### Policy

`rules` is the table, `cached` the lists `policy:{capability}:{tool}`. A tool call is evaluated when it is proposed and again, with
`pre_confirmed`, when the user says yes; `list` is what its evaluation uses, and
`todo` and `found` are the loop's place. An update holds its row, its patch and
its approval. `overlapped`, `doubtful` and `stale` are history: they name exactly
the excuses that the properties grant.

A list is selected and cached by a capability and a tool (`Keys`), both of which an
update may change. Every evaluated call runs under `facility_booking`: the harness
refuses a tool outside its domain first (`harness.py:188`).

`conditions_json` does not survive the store: `db/connection.py` registers no JSON
codec, so asyncpg returns the column's text, `list(...)` of it
(`policy_store.py:66`) is a list of characters, not empty even for `[]`, and
`condition.get` (`policy_engine.py:68`) raises on the first. `Entry` does that to
every rule that is read, `Matches` raises on it, and only the default rules, whose
conditions are a real empty list, can be evaluated. The exception leaves
`evaluate`, `execute` and the planner and ends the message with the internal
error. The `hourly_limit` branch with its counter and the verdict `DENY` are
therefore never reached from the stores; the counter is not modelled.

| action | code (`agents/harness/`) |
|---|---|
| `Propose`, `Confirm` | `harness.py:219-245`, with the cache read of `policy_store.py:36-41` |
| `Load`, `Fill` | `policy_store.py:43-80`; a failure makes the engine use its defaults, `policy_engine.py:55-62`, `86-108` |
| `Visit` | one rule of the loop, `policy_engine.py:37-47`, `64-84` |
| `Decide` | `policy_engine.py:49-53` and what the harness does with it |
| `Start` | role check and reading the row, `policy_store.py:82-148` |
| `Reject` | `_record_rejected_attempt`, `:214-238`, over a second connection |
| `WriteRow`, `LogChange`, `DropOld`, `DropMoved` | `:150-188`, each with its failure |
| `Expire` | the TTL of a list |

### Upstream and Ledger

`Ledger` is the promise: a request that books or cancels settles once. `Upstream`
has the server's clock, sessions and bookings, the jar of the one shared HTTP
client, the cookie kept in Redis, and each request's place. A token and a booking
id are the millisecond they were made in, as in the server
(`src/mock-server/server.js:135`, `:217-233`), so two of them may be equal.

| action | code (`services/`) |
|---|---|
| `Begin`, `UseCached` | `get_cookie` with its Redis read, `mock_server_auth.py:57-61`, and building the message, `api_adapter.py:51-57` |
| `Grant`, `LoggedIn`, `Store` | `login` at the server, in the jar, in Redis, `mock_server_auth.py:30-46` |
| `Send`, `Answer`, `GiveUp` | `api_adapter.py:46-69`: one refresh on a 401, every other error raised |
| `Serve` | `authMiddleware` and the handler, `server.js:96-107`, `206-269` |
| `UserLogin` | `authenticate_user` over a client of its own, `mock_server_auth.py:69-79` |
| `Tick`, `Restart`, `CookieExpires` | time, a restart that loses the server's memory, a TTL |

The refinement maps a request to *owed* until its message was answered with
success; a 401 and a 404 changed nothing, and a request that gave up may still be
served.

### Page

`inFlight` and `sendOn` are the lock and the button; `flight` is where
`sendChatMessage` stands, `result` the Redis key, and `running` the pipeline's
side. `SignIn` and `SignInEnds` are the login form (`routers/ui.py:675-718`),
`Submit`, `Posted`, `FetchFails` and `Poll` the message (`:651-759`, with its
`finally` in `Land`), `Accept`, `Respond` and `ResultExpires` the server.

### Preferences

The table is the number of upserts it has seen, so that *older* is a comparison.
`Insert` and `DeleteEntry` are the two steps of `upsert`, `Get`, `Fetch` and
`SetEntry` the three of `get_all` (`memory/preferences.py:11-71`); each may fail,
and the code swallows the failure.

### Planner

`memory` counts the entries of the task, `draft` those of the run's copy.
`Think`, `UseTool` and `ReachCap` are the iterations (`base_planner.py:169-252`),
`PruneAndPersist` the ways out that summarise, `StoreMemory` those that do not, and
`RejectCall`, `EndWaiting` and `TaskReplaced` what the session's modifiers do to it
between runs. `ChatPipeline` has what a run does beside concurrent messages;
here the task is the run's own.

## Runs

| run | instance | question |
|---|---|---|
| `Concurrent` | 3 messages, 2 in flight, errors and crashes anywhere | `TypeOK`, `TokensFlow`, `OneHome`, `ExecutedOnce`, `ExecutedAsSeen`, `DeadTokensStayDead`, `ImplementsConfirmation` |
| `Serial` | 5 messages one at a time, the session expiring anywhere, 2 values of the booking slots and 2 of the others, stack of 2, timeout of 2 turns | `PendingBelongsToTask`, `PendingFollowsSlots`, `MemoryBelongsToTask`, `SideQuestionTransparent`, `NothingStashedAtRest`, `UnansweredExpires` |
| `Stores` | 3 concurrent session writes, 2 attempts each, both TTLs; the upstream client with 2 requests, 2 instants and a restart | `TypeOK`, `RetriesHaveRivals`, `ImplementsAtomic`; `UpstreamTypeOK`, `RefusedNeedsRival`, `ServedAsService`, `CancelHitsTarget`, `ImplementsLedger` |
| `Harness` | 4 executions, 2 in flight, 2 attempts, a sample of 2, Redis failing anywhere | `TypeOK`, `WriteSentOnce`, `ErrorsAreTruthful`, `BreakerIsAtomic` |
| `Policy` | 2 tool calls and 2 updates, 3 of the 4 in any interleaving, 2 connections, every failure | `PolicyTypeOK`, `NoRuleOverlooked`, `BookingsStayConfirmed`, `CacheFollowsStore`, `CriticalChangesApproved` |
| `Services` | 2 chat messages in flight, errors and expiry, weak fairness; the page with 2 messages of 2 polls; 2 upserts and 2 readings; planner runs of 3 iterations | `Answered`; `PageTypeOK`, `LockHeldByOne`, `ButtonFollowsLock`, `OverlapNeedsGivingUp`, `LockReleased`; `PreferencesNotOutdated`; `MemoryBounded` |
| `SideQuestionActive`, `Recovery`, `ExpiredConfirmation`, `AuditGap`, `UnapprovedChange`, `UnreadableRules` | the smallest instance that shows the finding | one violated property each |

**Bounds.** `Requests` bounds the messages of a session's life: a message is
posted once. Two requests in flight are enough to race, and the third message
comes before, between or after them, so that the two meet a session with a task,
a suspended task and a pending confirmation. Five serial messages suffice to
propose, switch, propose again, and resume, correct, or ignore twice.
`SuspendedDepth` is 3 in the code; 1 and 2 make the cut happen within the
messages there are. `ConfirmationTimeoutTurns` is the code's 2 except in
`Services`. `MaxRetries` is 3 in the code; with three writers two attempts can
already both be lost. In `SessionWrite` each call is made once and the session
ages and expires at most once, after which the system stops: its configurations
do not check for deadlock. In `Harness` the code's 3 attempts and sample of 10
are 2 and 2: one attempt more than a write has, and few enough calls that the
breaker opens, lapses, admits a call and closes again within the 4 executions.
In `Policy` a patch changes at most one field (`MaxPatched`), the capability and
the tool among them; with one rule of each seeded kind and any 3 of 2 calls and
2 updates (`MaxStarted`), two updates meet at a row, and a call at either end of
an update. `PoolSize` is 10 in the code; 2 rejections already exhaust 2
connections. `UnreadableRules` needs one call. In `Upstream` the clock
(`MaxInstant`) has an instant before and one after what it separates, and stands
still long enough for two tokens or bookings to share a millisecond; a second
restart would only repeat the first. In `Page` 2 polls stand for 120: one that
waits, one that is the last. In `Planner` 3 iterations, a maximum of 3 entries
and 3 unpruned runs (`MaxUnpruned`) let a run overrun the maximum with and
without pruning. `Policy`, `UnapprovedChange`, `UnreadableRules`, `Stores` and
`Services` end when every call, request, message or reading is used up, and do
not check for deadlock; that of the connection pool is described below. Two
models share a run where they share nothing else: `part` picks the one that
moves. Symmetry is over requests, executions, slot values, calls and updates,
which nothing orders; the runs with liveness properties have none.

**Fairness.** `Fairness` of `ChatPipeline` is weak fairness of each request's own steps: the event
loop resumes a coroutine whose await has completed. That every await completes
is an assumption where the code sets no timeout (`agents/llm/ollama_client.py`
constructs its client without one, and `Redis.from_url` in `main.py` has none).
Nothing is assumed of faults, of `Post` or of `Login`. `Answered` excludes
crashes: nothing restarts a background task. `PageFairness` is weak fairness of
what the page does with a fetch it has started: it is answered or it fails, and the
script handles either. Nothing is assumed of the pipeline, the user or the
TTLs: `LockReleased` holds because the polls run out.

**Excused cases.** Some properties name, in a history variable, the ways in which the
code fails to give what one would like, and show that there are no others. They
say nothing against the excused case itself: the late fill and the half-failed
update (`stale`, in `CacheFollowsStore`), overlapping updates of one rule
(`overlapped`, in `CriticalChangesApproved`; `UnapprovedChange` shows it), updates of
a confirmation rule that are approved or move it (`doubtful`, in
`BookingsStayConfirmed`), a write whose answer is lost or whose success cannot be
recorded (in `ErrorsAreTruthful`; `AuditGap` shows it), overlap and Redis faults
(`ideal`, in `BreakerIsAtomic`), two logins in one millisecond (`mixed`, in
`ServedAsService`), the late fill of the preferences (`hidden`, in
`PreferencesNotOutdated`), and runs that end without pruning (`unpruned`, in
`MemoryBounded`).

**Serial properties** are exactly that: they fail for overlapping messages.
`OverlapNeedsGivingUp` says when messages overlap: one page sends the next message
only when the pipeline is through with the one before, unless it gave up on it.
Overlap therefore takes a lost fetch or 120 polls, a second tab, or another client
of the API, and a correction that overlaps a planner run may then be followed by a
confirmation of the call planned from the old slots.

## Findings

* `SideQuestionActive`: `chat.py:234` restores the latest task after a side
  question even when none was stashed, so a suspended task becomes active. The
  router defines a side question as one asked "without changing the active task"
  (`router_agent.py:62`).
* `Recovery`: there is one recovery marker per user, and `clear_task` deletes it
  whatever task it speaks of (`state_manager.py:403`). Propose a booking, switch,
  cancel the second task, resume the first: its confirmation is pending, its
  marker gone, and if the session expires now the login promised by
  `src/README.md:72` is silent.
* `ExpiredConfirmation`: `bump_confirmation_turns` keeps `expired = True` from an
  attempt that lost its EXEC to a release, and the user is told that the
  confirmation was cancelled while the call runs (`state_manager.py:388`,
  `chat.py:117`).
* `AuditGap`: a booking that times out after it was made is answered with ERROR and
  leaves no record (`harness.py:323`), against "every tool execution logged"
  (`src/README.md:75`).
* `UnapprovedChange`: `update_rule` writes all fields of the row it read
  (`agents/harness/policy_store.py:150`). An update of an uncritical field that
  read the row before an approved critical change undoes that change without an
  approval, against "Critical policy changes require a second super_admin
  approval" (`:148`).
* `UnreadableRules`: the conditions of a rule arrive as characters
  (`agents/harness/policy_store.py:66`) and the evaluation raises on them
  (`policy_engine.py:68`), outside the `try` that would fall back to the default
  rules. With the stores up a booking ends in the internal error and is not asked
  about, against "Bookings always require explicit user confirmation."
  (`db/migrations/versions/0005_policy_rules.py:32`) and the booking "with
  human-in-the-loop confirmation" of `src/README.md:62`. The unit tests hand the
  store rows that hold lists.

Not stated as findings, because no document speaks of them, but visible in the
models: as many overlapping unapproved critical changes as there are connections
hold all of them while each waits for a second one (`Held`, `Reject`); moving a
confirmation rule to another capability or tool is not critical, needs no approval
and ends the confirmation of bookings (`IsCritical`, `Merged`); a correction of
`facility_id` or `end_time` keeps the pending call of the old value
(`UpdateSlots`); an update that fails after its
row was written leaves the old list in the cache for its TTL (`Break`); a
cancellation reaches the first booking with its millisecond (`ServeCancel`); a
message that is in flight when a sign-in fails enables the button although nobody
is signed in (`Land`).

## Proofs

All theorems hold for every set of requests and slot values, every depth, timeout,
number in flight and retry limit that satisfies the `ASSUME`s, and every subset of
the faults, unless they say otherwise: the six about messages that do not overlap,
or about a system at rest, name their hypothesis (below). The `ASSUME`s of
`SessionState` are that there is a slot value, that the depth and the timeout are
positive, and that Python's `None` is no request, session, task or call.

**Chat pipeline** (`ChatPipelineProofs`). `OneHome`, `ExecutedOnce` and
`DeadTokensStayDead` are not inductive: that a token runs once depends on where
every copy of it is. `TokensFlow` is the inductive invariant (with `TypeOK` and
`Located`, which says what a request holds at the program points that use it). It
says:
a request that has not yet made its task or token occurs nowhere (*fresh*); no
task and no token is in two places of the session; a token that a request
released or executed is pending nowhere and held by no other request. The session
operators are treated once, in `SessionStateProofs`: each modifier maps every
place of the new session to a place of the old one, injectively, and what sits
there is unchanged or has lost its token (`Comes`), except for the one task or
token it creates. From that, freshness and distinctness carry over uniformly, and
the step lemma (`FlowStep`) distinguishes only those moves. `ExecutedAsSeen` needs only that
`Release` compares tokens and that no step between it and `Execute` touches
`view` or `call`. `DeadTokensStayDead` is the action property that comes with the
same lemmas: only `Propose` makes a token pending, and only its own, fresh, one.

`ConfirmationImplemented` is the refinement of `Confirmation`. It needs, beside
`TokensFlow`, that a request releases one call and runs one (`Unspent`): a request
that is about to release has released and run nothing, or its `call` would be
overwritten and a released token lost twice over; one that holds a call has run
none. There is one lemma per kind of step: `TakeStep` (`Release`), `ExecuteStep`,
`FinishStep`, and `AskOrWithdraw` for every step that leaves `call` and `ran`
alone, of which only `Propose` is an `Issue`.

*One message at a time.* With `MaxInFlight = 1` no two requests run (`Alone`), and
the serial properties are theorems for any number of messages, slot values,
depth and timeout:

| theorem | hypothesis | inductive invariant |
|---|---|---|
| `PendingBelongsToTaskCorrect`, `PendingFollowsSlotsCorrect`, `MemoryBelongsToTaskCorrect` | `MaxInFlight = 1` | `Attended` |
| `SideQuestionTransparentCorrect` | `MaxInFlight = 1` | `Aside` |
| `UnansweredExpiresCorrect` | `MaxInFlight = 1`, no errors, no crashes | `Tallied` |
| `NothingStashedAtRestCorrect` | no errors, no crashes; any number in flight | `StashAttended` |

None of the properties is inductive: each speaks of the session, and is kept only
because of what the running request remembers. `Attended` adds that, from the
point where a request has the task it plans for to the point where it persists the
planner's memory, its `view` is the active task with the active task's slots, so
that what `Propose` and `Persist` attach to "the active task" is that task's own.
`Aside` follows a side question's task from the active place to the stash and
back, through the turn it may be charged on the way. `Tallied` equates turns and
unrelated messages in every place, but for the active one while a counted message
is still at `bump`. `StashAttended` says that a stashed task has a request that
will restore it. The hypotheses are needed: an error or a crash between `Stash`
and `Unstash` leaves the task stashed, one between the classification and the turn
leaves a message uncounted. The modifiers that only move tasks are covered by one lemma each
(`Rearranged`: every task of the new session was one of the old); those that
change the active task, by what they make of it (`SetAwaitingConfirmationActive`,
`UpdateSlotsActive` and the like).

**Session write** (`SessionWriteProofs`). The refinement maps a call's outcome to
that of `AtomicSession`; the invariant `Fresh` is that a call about to `Exec`
whose key is not dirty holds a copy equal to the session, so its `Exec` is the
abstract `Apply` on the current session; `AttemptsLeft` bounds the attempts.
`RetriesHaveRivals` is inductive with `Fresh`: a call's lost attempts are at most
the writes of others plus the session's end.

**Harness** (`HarnessProofs`). `AttemptsLeft` (a call about to send has attempts
left) with `TypeOK` gives both the bound on attempts and `WriteSentOnce`.
`ErrorsAreTruthful` needs `Honest`: a write has one attempt, so an effect goes with
the answer of that attempt, which is never 429 or another 4xx; and a call that
returned ERROR is over. `BreakerIsAtomic` needs `Undisturbed`: an execution that
runs alone finds the hash as it read it at each of its later writes. These hold for
every number of calls, attempts and overlap, and every threshold and sample size.

**Policy** (`PolicyProofs`). `NoRuleOverlooked` needs `Verdict`: in the loop every
rule already passed had no condition and was an `ALLOW`, or asks and was noted.
`BookingsStayConfirmed` needs `Asking`: every copy of the rules (table, cached
list, list in use) has the confirmation rules asking, and an update of one of
them that is about to write writes it as it was (`UnapprovedRejected`: what is
neither approved nor a move is rejected or changes nothing).
`CriticalChangesApproved` needs `Current`: without overlap the row an update read
is the row it writes. `CacheFollowsStore` needs that, and that a list depends only
on the rules that are or were in it. They hold for any rules, calls, updates,
fields per patch and pool.

**Upstream** (`UpstreamProofs`). `OwnCookies` says that the jar, the kept cookie and
every request's own belong to no resident unless two logins shared a millisecond;
`Live` that an undisturbed request's cookie has a session from its login to its
answer; `Targets` that a booking a request means is on the server, or older than
every booking that could take its id; `Unsent` that a request before its `Send`
has no message under way. The last gives the refinement of `Ledger`: a message is
served once, and a refresh follows a 401, which did nothing.

**Page** (`PageProofs`). `Holder` names the message that has the lock; `Processed`
says that an answered message is no longer processed, because its result is the
pipeline's last step. `PollsLeft` bounds the polls.

**Preferences and planner** (`MemoryProofs`). `Fresh`: the entry is no older than the
last deletion unless it was hidden, and what a reader is about to store is no older
than the deletion before it began. `Within` bounds the draft of a run by the memory
it started from and two entries per iteration, with room for the rejection of a call
that waits; the bound per unpruned run is a product of two parameters, so its growth
by one run is a lemma (`LimitGrows`).

`PrefTypeCorrect` is the one listed theorem whose invariant no run checks: the
inductive invariant of the preferences contains it.

Left to TLC: `Answered` and `LockReleased`, which are liveness under fairness and so
out of the prover's reach, and the violations. Every other property of a run is a
theorem.

## What the models assume

* Redis is version 7 (`src/docker-compose.yml`), where an EXEC fails when a watched
  key has expired; the hard TTL is checked in Python and touches no key.
* A write tool's call that is evaluated needs a confirmation: the rules of
  `db/migrations/versions/0005_policy_rules.py` and the defaults in
  `policy_engine.py:86` say so.
* `slot_validation` flags are never set by the code; `restore_task` and
  `restore_stashed_task` have no callers. Both are left out.
* Slots the classifier names and `SlotState` does not know make `setattr` raise: the
  error fault of `Update`.
* The user has one session, and the session a login creates is not followed.
* `Bump` may report an expiry whenever another request is in flight: it contains
  the outcomes that `ExpiredConfirmation` exhibits without modelling attempts.
* The booking server refuses with a 4xx only what it did not do.
* `ErrorsAreTruthful` allows ERROR for a write that took effect when its answer
  timed out, broke, or could not be recorded in Redis; that the code says ERROR
  there, and not UNCERTAIN_STATE, is what `AuditGap`'s trace passes through.
* In `ChatPipeline` the preference upsert, the facility cache and the UI hints are
  only steps that may fail; `Preferences` has the first.
* In `Policy` conditions, risk level, reason and version number decide nothing and are
  left out, and so is the cancellation, which has rules of its own like the booking's.
  The capability is one of the two of `state/schemas.py:8`. A deletion or an UPDATE whose reply is lost is covered by
  `Expire` and `Break`.
* In `Upstream` the jar has one cookie for the booking server. The client sets its
  own without a domain (`mock_server_auth.py:45`), so the real jar may hold that
  one and the server's; both come from the same login, and no property tells them
  apart. All requests run in one process, with one jar.
* In `Planner` one message at a time works on the task, and an entry of the memory is
  counted whatever its length.

## Not modelled

* LLM clients: an external service without state; its answers and failures are
  nondeterministic choices of the modules that call it.
* Response synthesizer, UI hints, markup and pickers of the page, observability,
  wiring, configuration, migrations other than the seeded rules, scripts and
  deployment: wording, layout, counters and construction that no control depends on.
* The token signature is a pure function of a library. `rate_limiter.py` is empty.
* Router agent: its parsing, threshold and fast path only narrow the intent, which
  `ChatPipeline` leaves open. `restore_task` and `restore_stashed_task` have no
  callers.
* The slot arithmetic of `facility_tools.py` is a pure function of strings. The
  booking data it works on carries no hours and no duration, so that it always uses
  its defaults (07:00 to 22:00, 60 minutes), whatever the facility's own are; for a
  duration of 0 or less it would not end.

## Plan

In this order:

1. **Availability and booking**: the slots computed from the bookings of a day,
   against the bookings made meanwhile; the server takes a booked slot.
2. **Failure limiter** of `middleware/auth_middleware.py`: the counter and its TTL are
   set in two steps.
3. **Unclear counter**: `_append_messages` resets it at the end of the message that
   raised it; a run for the escalation that is never reached.
4. **Router**: threshold and fallback as a function against a reference, and the
   facility cache of `routers/chat.py:442`.

The session, the confirmation and the execution of tools came first: a fault there
books something the user did not ask for, or books it twice.
