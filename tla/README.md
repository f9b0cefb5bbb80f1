# porchlight, verified

porchlight shares MCP servers and command-line tools of one computer with MCP
clients elsewhere. A daemon serves *links* over a tunnel; a person approves each
client by typing a code; tokens then let the client in until somebody takes its
access away. This directory holds TLA+ models of that program, TLC runs that
check them on small instances, and TLAPS proofs that hold for every instance.

Paths such as `auth.rs:246` are below `src/src/`; docs and tests are named in full.

## 1. Inventory

### Components, their state and how they interact

| Component | State | Operations | Talks to |
|---|---|---|---|
| `auth.rs` approval | `codes`, `approved` (memory, each under a mutex), `code_lock` | `begin`, `approve_with_code`, `approve`, `exchange_code` | `store.rs` (table `pending`, `grants`) |
| `auth.rs` access | `streams` (memory) | `issue_tokens`, `refresh`, `still_allowed`, `authorize`, `open_grant_stream`, `revoke*`, `create_static_token` | tables `grants`, `tokens` |
| `store.rs` | SQLite: `clients`, `grants`, `tokens`, `pending`, `registrations`, `audit`, `meta`, `stdio_sessions` | most methods one statement; several under the connection's mutex in `registration_try_record`, a transaction in `stdio_session_*` | every process opens the same file (WAL) |
| `gateway.rs` | none of its own, two audit throttles | `register`, `authorize`, `complete_code`, `token`, `revoke`, `serve_link` | auth, registry, surface, client metadata |
| `approval.rs`, `pages.rs` | csrf tokens, requests `seen` | `summarize`, `show`, `deny`, `outcome` | store, auth, registry |
| `serve.rs` `Reloader` | `applied`, `problems`, `seen`, `lock` | `reload_now`, `reload_if_changed`, `apply` | config, auth (`revoke_server`), registry (`set_rules`, `sync`), table `meta` |
| `serve.rs` `sweep`, `upkeep` | none | every five minutes deletes what has expired | store |
| `registry.rs` | apps, their state and tools, `plans`, rules, waiters | `supervise`, `check`, `add`, `remove`, `mark_down`, `set_rules`, `sync` | sources, links, reloader, gateway |
| `sources/mcp_stdio.rs`, `process.rs` | sessions by id, waiters by request id, a child process each, log ring | `open`, `evict_idlest`, `post`, `deliver`, `resume`, `close`, `sweep` | registry, surface, table `stdio_sessions` |
| `sources/mcp_http.rs` | one handshaken upstream session | `forward`, `handshake` | surface |
| `sources/commands*` | none | `handle`, argument checks | process |
| `surfaces.rs`, `rpc.rs` | sealing key | `serve`, `refusal`, `seal`, `unseal`, `record_calls` | sources, registry rules, audit |
| `links.rs`, `apps.rs`, `policy.rs` | none (pure) | `compile_apps`, `compile_links`, `signature`, `rules_from`, `tool_on` | reloader |
| `config.rs` | `porchlight.json` | `load`, `edit`, `write` | cli, tui, reloader |
| `serve.rs` `Daemon`, `run.rs`, `daemon.rs`, `tunnels*` | the tunnel, ports, the route | `start`, `connect`, `set_tunnel`, `ensure_route`, `keep_serving`, `close` | registry, gateway, control |
| `control.rs`, `actions.rs` | none | local socket routes, actions of the screens | everything in the daemon |
| `cli*`, `tui/*` | another process with an `Auth` of its own | deny, revoke, tokens, edits | store, config, control socket |
| `client_metadata.rs` | cached metadata documents, recent downloads | `identify`, `fetch`, `redirect_matches` | gateway |

### What is hard

* **Two processes, one database.** The command line and the screen make their own
  `Auth`: they share SQLite with the daemon, but not `code_lock`, `codes` or
  `streams`. What they revoke, the daemon's memory does not hear of.
* **Locks that do not cover everything.** `code_lock` covers approving, exchanging,
  refreshing and revoking in one process; it covers neither `begin` nor a denial.
* **Reading, then awaiting.** `gateway.rs` awaits the client's identity between
  reading a request and deciding on it; the reloader awaits source shutdowns
  between revoking and serving; the registry checks apps without its lock.
* **Statements that fail half way.** Every store call may fail and nothing is rolled
  back: a request deleted without a code, a refresh claimed without a new pair.
* **Time.** Requests, codes, tokens and empty grants expire; the sweep runs beside
  the handlers that are using them. Some comparisons include the last
  millisecond (`expires_at >= now`), others do not.
* **Restarts.** Memory is lost and the database is not.
* **Things shared by name.** The route of a tunnel, the socket, an app's slot, a session and a
  place in the settings file are looked up by name and changed a moment later.
* **Actions of several edits.** Nothing holds the settings file from one edit to the next.

### What makes each component correct

* *Approval*: a client connects only if the browser that asked typed the right code
  in time, at most five tries, at most one connection per request; taking a link's
  access away leaves nothing behind; every request ends.
* *Access*: what was revoked is neither served nor let in; a refresh token is good
  once, and using it twice is noticed; the sweep never takes what works.
* *Reload*: a client has the tools it was shown; changed links are approved again and
  unchanged ones are not; the latest settings are served in the end.
* *Registry*: a check's result lands on the app that was checked, rules hold for
  the tools that are served, no app is left unchecked, nobody waits for ever.
* *Stdio sessions*: an answer reaches its own waiter or an error does; the
  session cap holds; no child process outlives its session.
* *Surface*: a tool that is off is neither listed nor called; a session id sealed
  for one grant does not open for another.
* *Settings file*: an edit is never half written, and two edits do not lose one.
* *Tunnel*: one route, one server behind it, closed when the daemon stops.
* *Policy*: the last matching rule decides; what a person switched off is off.
* *Screen*: an answer does what the dialog showed; nothing that runs code or takes free
  text is added without a word typed for it.
* *Clients*: the limits hold in every hour; who is let in was named by its document or
  its registration a short while ago; who is in use stays registered.

## 2. Modules

| Module | Models | Kind |
|---|---|---|
| `Approval` | a request from `begin` to its grant, denials, revocations, sweep, restart | state machine |
| `Consent` | what that promises, without locks, codes, rows or processes | abstract specification |
| `ApprovalProofs` | the inductive invariant of `Approval` and its theorems; every step of `Approval` is one of `Consent` or none | proofs |
| `Access` | grants, tokens and event streams of connected clients | state machine |
| `AccessProofs` | the inductive invariant of `Access` and its theorems | proofs |
| `Reload` | the reloader, link signatures and requests that meet a reload | state machine |
| `ReloadProofs` | the inductive invariant of `Reload` and its theorems | proofs |
| `StdioSessions` | the sessions of a source that runs a command, their processes and the requests on them | state machine |
| `StdioSessionsProofs` | the inductive invariant of `StdioSessions` and its theorems | proofs |
| `Registry` | apps, their supervisors, reloads of rules and plans, and the clients that listen for list changes | state machine |
| `RegistryProofs` | the inductive invariant of `Registry` and its theorems | proofs |
| `Surface` | lists and calls of clients on the link of an MCP app, and their log | state machine |
| `SurfaceProofs` | the inductive invariants of `Surface` and of `Screen`, and their theorems | proofs |
| `Tunnel` | daemons, the one route, the control socket and the switching of the tunnel | state machine |
| `TunnelProofs` | the inductive invariant of `Tunnel` and its theorems | proofs |
| `Settings` | `porchlight.json`, its lock, and actions of several edits by several processes | state machine |
| `Screen` | the dialogs of the terminal screen over a snapshot that grows old | state machine |
| `Clients` | registrations and their limits, metadata documents and their cache, the sweep of clients | state machine |
| `ClientsProofs` | the inductive invariants of `Clients` and of `Settings`, and their theorems | proofs |
| `Switches` | the rules of tools and who writes them | state machine |
| `MC*` | instances and symmetry sets for TLC | instances |

The modules meet where one takes as one step what another has in detail. `Approval` ends with the
grant that `Access` begins with. `Reload` uses `revoke_server` as one step, because `Approval`
proves (`RevocationCompletes`) that nothing filed before it survives it. `Reload`'s *serve the new
plans* is `set_rules` and `sync` in `Registry`; `Surface` takes a check and `set_rules` as one step
each. `Screen` and `Switches` take a change of the file as one step, which `Settings` has edit by
edit. `Clients` takes an approval and an exchange as one step each.

`ClientsProofs` and `SurfaceProofs` each hold the proofs of two components that share nothing. `Settings` and
`Screen` therefore name their specifications `FileSpec` and `ScreenSpec`.

### How the state corresponds to the code

*One step is one SQL statement, one critical section of a mutex or the code between two awaits.*
That is what another thread or process can come between. A handler's program counter is
`handler[w].step` (`request`, `task`, `work`, `exch`); the locals it carries across steps are the
other fields.

* `Approval`: `pending`, `row` are table `pending` (a deleted row keeps its columns so
  that properties can speak of it), `codes` and `approved` are the maps of `Auth`,
  `lockedBy` is `code_lock`. `cookies` are the requests whose connect page was
  answered. `own` is whether the browser that types is the one with the cookie,
  `right` whether the code is the right one, `matches` whether client, redirect,
  verifier and resource agree: each handler chooses them freely. `denying` are the
  denials between their look at the request and the delete. `revoker[p]` is
  `revoke_server` of process `p`.
* `Access`: `tokens` and the column `revoked`, `grants` and `entry`, `stream[s]` a
  handler in `serve_link`. `answered` are the tokens somebody was given: a token
  whose answer was never sent cannot be presented. `cli` is the other process. A request is `serving`
  while `surface.serve` works on it, and ends with a plain answer, which no revocation holds up, or becomes
  `streaming`, an event stream that `take_until` cuts off.
* `Reload`: `file` are the contents of `porchlight.json` (per link a membership,
  nothing, or one that does not compile; or the whole file does not parse),
  `signatures` is the row of table `meta`, `plans` what the registry serves, `seen`
  the fingerprint, `caller` who waits in `reload_with`, `apply` who is in it.
* `StdioSessions`: `sessions`, `live`, `saved` and `resuming` are the map, the counter, the
  rows and the lock of `StdioSource`; `pending` is the map of waiters of each `Session`;
  `proc` a child process with its reader task; `request` a handler inside `post` or
  `handle`; `closing` a call of `close`, made by a handler, a reader or the sweeper in two
  steps with the two seconds of `terminate` in between. A request starts at most one process
  and makes up at most one id, so both are named after it. The sweeper deletes the row of a session it closes
  unless the session was used again meanwhile (`Swept`). Steps that follow each other
  without an await and that nobody can tell apart are one.
* `Registry`: `slots`, `rules`, `plans` are those of `Inner`; `entry` is what a `Slot` holds,
  `supervisor` the handle it keeps and `task` the tasks themselves, so that one can run whose
  handle is not kept yet, or no more. `Begin`, `Answer`, `TakeRulesLock`, `WriteEntry` and
  `EndCheck` are `check`; `reload` walks through `set_rules` and `sync`; `marker` is `mark_down`;
  `watcher` a stream of `link_notices`, with the plan it was made with. The specs of an app are a
  kind (`http`, read again and again; `stdio`; `commands`), a trust and what it contributes.
  `orphaned` is history: the slots that one of two races has left without anybody who checks them.
* `Surface`: `exch[x]` is a request in `post`, with the `LinkEntry` it was given and what its list
  shows; `refused` is the set of tools of the link that turned out to run commands; `log` the
  audit rows of calls. A tool is absent, plain or one that runs commands. Messages have ids, which a client may
  use twice in a batch; the app answers each call, or not, and may put requests of its own with an id of
  `Questions` on the answer: `Record` takes, as the code, the first of what has the call's id. A batch whose call
  is refused has one entry in the log, of the first such call (`Gate`).
* `Tunnel`: `route` is the entry of porchlight in opentunnel's table, `socket` who bound the control
  socket last, `active`, `url`, `lock` are those of `Daemon`, `work[x]` where a start, a stop or a
  `/tunnel` request is in `connect` or `close`; each call of opentunnel is a step. `Cancel` is the
  caller of `set_daemon_tunnel` leaving after 20 seconds, which drops the handler. A call of opentunnel that was under way
  then, or when a daemon ended, goes on without anybody who waits for it (`LateCall`), since the child is not
  killed with the handler (`opentunnel.rs:65`); `overtaken` says that such a removal took this daemon's route. A daemon whose
  lock is held for 20 seconds does not answer `status` (`MayNotAnswer`), so that another may start beside it.
* `Settings`: `file` has the four sections; `snap`, `job`, `todo`, `text` are one process in an
  action of `actions.rs`: what it loaded, the edits still to come, and the new file that is
  written and not renamed yet. `Crash` may come between any two steps.
* `Screen`: `mode` is the dialog that is open with the `Step` its answer takes, `snap` the snapshot,
  `store` the rows the screen reads. `PressAdd` and the like are the keys; each `Step` of `answer.rs` is
  an action. A person chooses any row, text and ticks. `typed` and `ticked` are history. An entry has its run
  and three fields of the file, `readOnly`, `resource` and `allowDangerous`; the first two are its claim to be
  read-only (`Claims`). Dialogs write what they took from the snapshot: `AllowDangerous` writes an entry of one line back
  with the run it had there, and puts the key into whatever else is there now, a new empty entry
  (`NoRun`) if nothing is. A request has a number of its own beside its client and link.
* `Clients`: `clients`, `hits`, `pending`, `grants` are the tables; `cache`, `downloads` those of
  `ClientMetadata`; a `handler` is between recording a registration and storing it, in a download,
  or between knowing the client and filing its request. `published` is the document as its
  server has it. Time passes only while every handler is at an await.
* `Switches`: `rules` is the object `tools` in its order, `said` what the last switch told.

Time is a number that only grows; in `StdioSessions`, `Tunnel` and `Registry` a timeout or an interval may
end whenever somebody waits. History variables (`guesses`, `minted`, `gone`, `used`, `revokedHere`, `overlooked`, `lost`,
`cut`, `raced`, `orphaned`, `mixed`, `listed`, `alone`, `unsure`, `overtaken`, `typed`, `ticked`, `gap`, `allHits`, `starts` and so on) are
read by no guard but for the bounds.

### What is abstracted

Names, codes, nonces, hashes and URLs are model values or Booleans; wording is left out, and
audit rows but for the calls in `Surface`. A poisoned mutex (a panic while it is held) is
left out. In `StdioSessions` a message of a client is one request, batches are not
modelled, the handshake is one wait, and which of the unused sessions is the idlest is
left open. `begin` chooses its request id from a set and never twice: `random_token`.
`Registry` leaves out `app_notices`, which differs from `link_notices` in what it compares. A pattern
of a rule is a name or a star. In `Settings` the order of keys, descriptions and environments are left
out (`Switches` has the order). `Screen` has one tool per app and leaves out searching, scrolling, copying
and the answers of *Try*. In `Clients` the loopback's other ports are the same address, and
whether an address is public is one of the ways a download fails. Which commands run code, have
free inputs or delete is a constant of `Screen`, `Registry` and `Surface`.

## 3. Runs

| Run | Instance | Shows |
|---|---|---|
| `approval` | 1 request, 2 handlers, both processes, 2 tries, clock 0..2 | nine properties, two of them liveness and one refinement |
| `access` | 1 grant, 2 handlers, 1 stream, 6 tokens, clock 0..3 | four invariants and an action property |
| `reload` | 1 link, 2 memberships, 1 request, 2 edits, 1 trouble | consent follows the link; edits are applied |
| `stdio` | 3 requests, 1 saved session, 1 key, 2 slots, 1 trouble | slots, answers, one process per session, ended sessions |
| `stdio_live` | 2 requests of every kind, 1 slot, 1 trouble | every request returns |
| `registry` | 1 app of 3 kinds, 3 tools, 3 slots, 2 reloads, 1 mark, 1 change, 1 listener | rules in force, listeners told, healthy apps served in the end or orphaned by a named race |
| `surface` | 2 exchanges at once, 3 requests, 2 changes, 1 reload, 1 trouble; or 2 requests of batches that share ids, and the app's own | exact lists, no new danger called, what the log says of calls |
| `tunnel` | 2 daemons, 2 requests, 3 ports, one each of failure, kill, cancel, foreign port | the route leads to a daemon alone, its address is served |
| `settings` | 2 processes, 3 actions out of 20, 1 crash | edits are not lost, actions are whole, half-done is safe |
| `screen` | 2 app names, 2 links, 4 command lines, 3 commands at the start, 1 change by the screen, 1 by another process; or 2 clients and 2 requests | answers, confirmations, codes |
| `clients` | 3 registrations from 2 sources, or 1 document; 2 handlers, clock 0..2, restarts | limits, recent redirects, clients in use |
| `switches` | a group of two tools and a server, 5 switches | *violated*: a tool switched off stays on |

### Bounds

* `approval`: one request: requests share only the lock, and
  the lock is contended by the second handler, the reloader and the denials. Two tries: one wrong
  and one more, the last one; TTLs of one and a clock of two or three: before, at and after the
  expiry, which is where `>=` and `>` differ. What several requests can do to each other is left to the
  proofs, which are about any number of them, the refinement included.
* `access`: six tokens of a grant are an exchange and two refreshes, so that a refresh token can be
  used twice and both uses can get as far as a pair.
* `reload`: two memberships and two edits: change, and change again or back;
  `Broken`, `Absent` and `Unreadable` are contents as well. One trouble is one
  failing statement or one restart.
* `stdio`: three requests for two slots: two sessions and a third that evicts one; or one that resumes,
  one that ends and one that resumes again under the same id, which is what it takes for a
  late close to meet the entry of a newer process. One key for all of them, so that every
  answer could go astray. A trouble is a crash, an oversized line, a failing spawn, a
  client that leaves or a session nobody used; one of them at a time, anywhere.
  One-shot requests share nothing with the others, they are in the run with two requests.
* `registry`: two reloads and a mark meet in one app whose kind, trust and rules change; three tasks (TLC finds
  no more states with a fourth), so that a supervisor is replaced twice while its predecessors are still in their check. Apps share only the
  rules lock. `OneKind`: while a client listens, the app is found down or changes its tools, not both; what becomes of the
  app does not depend on who listens.
* `surface`: three requests: one list shows the danger, one overlaps it, one calls; the app turns a tool
  around and back. Or, `OneKind`, two requests whose calls share an id, or not, of two ids, with all that may come of them; there the
  app stays as it is, which the log does not look at, and the second id may be one of its own requests.
* `tunnel`: two daemons, so that one comes after or beside the other; three ports, of which one may be taken
  by another program. One trouble of each kind, anywhere; what a killed or dropped call still does comes at any later time.
* `settings`: two processes meet in every pair of edits; a third action starts from what two left. The
  actions name a single tool, a group, a server, a list, a star and new names.
* `screen`: one saved change and one change of another process, over every chain of dialogs:
  chains begin and end with nothing open, and a second change starts from a file like the first. The file at
  the start has a command with free text on a link, one that runs code and a resource on none. Or, `OneKind`, two requests, of
  one client or of two, so that another one can follow under the same name, or one request beside a saved change; the code
  of a request depends on no file.
* `clients`: limits of 1 per source and 2 in all, and a window of one tick, so that both limits are reached
  and pass; one document that changes once. `OneKind` lets a behaviour have registrations or downloads, not
  both: they share no row and no lock. One request of a client waits at a time.
* `switches`: five switches; the shortest counterexample has four.
* `Max*`, the numbers of model values and `OneKind` are the only bounds that the code
  does not have; each is a guard or a named constraint. `BeginCount` files
  a request only if it can still expire before the clock stops.

`CHECK_DEADLOCK FALSE` is set because a run ends where its clock, its edits or its bounds end.
Symmetry is used where nothing but equality of ids is asked and no liveness is checked.
`Access`, `Reload`, `StdioSessions`, `Registry` and `Tunnel` state their types as `TypeOK` for the reader; of those,
only `Approval`'s is a property of a run; all are proved (`TypesHold`, or a part of `Invariance`).

### Fairness

`Approval`: the clock runs and `upkeep` sweeps (`serve.rs:320-341`), and a handler that
can go on does, because tokio polls it. Waiting for `code_lock` is strongly fair:
a handler that can take the mutex again and again takes it. `std::sync::Mutex`
promises no order, so this is the assumption that the operating system starves
no thread; the code holds the lock for a few statements only. Clients,
people and restarts owe nothing. `Reload`: the watcher wakes every 250 ms, tokio's mutex is
first come first served, and whoever holds it goes on. Nobody has to edit or approve.
`StdioSessions`: handlers and closes go on, timeouts and the two seconds of `terminate` run out,
the lock is fair; child processes need not read, answer or end, and `Write` has no fairness.
`Registry`: a supervisor's check, a reload and a mark go on once begun, and a supervisor wakes again;
apps owe nothing. Nothing is assumed of how long a thread takes between two statements; the two races in which that
matters are exceptions of `HealthyAppsAreServed` (item 10). The other modules are checked for safety only.

## 4. What the checks found

One run shows a sentence of the documentation that the program does not keep. It is a run of kind *violation*,
so that a fix in the code, once modelled, turns it into a property that holds.

* **Switched off and on** (`switches`): switch a tool off, its app off, its app on, and the tool off. The rule
  of the tool was written first and is only changed in place (`config.rs` `edited`), the rule of the app
  comes after it, and the last rule that matches decides (`policy.rs:175`): the tool stays on, though the
  screen wrote the switch. `README.md:14` says every tool can be switched off.
  With `Switchers = {"cli"}` one switch is enough: `tools disable garage_open`, the
  name clients see, writes the rule `garage/garage_open`, which matches no tool, and says it worked.

The rest was found while modelling, most of it by TLC as a counterexample to a first, stronger form of a
property; the property was then stated with the exception, or the model with the assumption, named here.

*Approval and access*

1. `approve` deletes the request without
   looking at whether there was one to delete (`auth.rs:176`), so a denial in between
   tells the person "Nothing was shared." (`pages.rs:397`) and the client connects.
2. `clients revoke --all` in its own process clears the codes of that process (`auth.rs:463`), not the
   daemon's, which become grants afterwards; and it closes none of the daemon's event streams
   (`cli/access.rs:79`).
3. `begin` counts and inserts without a lock (`auth.rs:210`): the cap on waiting requests is passed
   by as many as there are other handlers doing so at once.
4. `SweepSparesLiveGrants` leaves out a handler that stalls for longer than the hour the sweep waits,
   or past the expiry of the refresh token it accepted.
5. A revocation cuts event streams off, not requests: one that is inside `surface.serve` still gets its plain answer
   (`gateway.rs:505-515`). And a reload lists the grants of a link (`auth.rs:425`), deletes all there are (`auth.rs:432`)
   and closes the streams of those it listed: a grant that `tokens create` made in between is deleted, and its stream goes
   on. `NoStreamOutlivesRevocation` speaks of streams, and leaves these grants out (`overlooked`).

*Reload*

6. Between `revoke_server` and the end of `registry.sync` (`serve.rs:238-251`) a client can ask, be shown
   the old tools, and later get the new ones without approving them. `ConsentMatchesLink` leaves out these.
7. The fingerprint kept after a reload is not that of the settings it loaded (`serve.rs:267-294`): an edit
   taken back during a reload stays served. `EveryEditIsApplied` leaves this out.

*Stdio sessions*

8. `close` gives the slot back after the process has ended (`mcp_stdio.rs:146-155`) and runs inside the
   client's request, which is dropped when the client goes away. `sessions_live` then never comes back to
   zero; after eight of them the source opens no session until it is restarted. `SlotsAccounted`
   counts them as `lost`.
9. `EndedStaysEnded` leaves out sessions that a resume had read from the table after the DELETE
   looked for them, `OneProcessPerSession` processes whose entry was taken by the close of
   an older one, `NobodyWaitsOnTheDead` processes whose reader had given up, and
   `AnswersReachTheirRequest` requests that have lost their entry (two in progress with one key).

*Registry*

10. `supervise` spawns its task and then stores its handle (`registry.rs:235-256`). When a thread stops in between
    and `mark_down` supervises the slot anew, the older thread's store replaces and aborts the new
    supervisor; nobody checks the app again until the next reload that changes it. And a check that was aborted in the
    middle of a poll may still write that the app is down (`registry.rs:216`) after its successor has found it up and
    ended. `HealthyAppsAreServed` names both as its exceptions (`orphaned`); TLC reaches each of them.
11. A stream that misses a change between its first list and its subscription (`registry.rs:197`) learns of it
    with the next one: `WatchersAreTold` leaves it out. A stream keeps the plan of when it began.

*Surface*

12. A call is recorded once the app has answered (`surfaces.rs:336`): a client that leaves before takes the
    recording with it, and a list in the same batch that breaks in `filter_list` (`surfaces.rs:378`) leaves the call
    unrecorded, though it was made. `AnsweredCallsAreLogged` speaks of requests that got a response.
13. Outcomes are matched by JSON-RPC id and the first one stands (`surfaces.rs:205`): of two calls of a batch with
    one id both are logged as what came first. A request of the app's own that has the id of a call counts too, as a success,
    since it is no error (`rpc.rs:383`). `AnsweredCallsAreLogged` allows exactly this.
14. Two lists of one link whose answers pass each other may be filtered with what the other learned, and the older
    one takes a name off `refused` that the newer one put there (`surfaces.rs:361`);
    `LoneListsAreExact` and `listed` speak of lists that overlapped no other (`lone`).

*Tunnel*

15. A second daemon takes the route and the socket; when the first one stops it removes both by name. It can start
    although the first is up, while a switch holds the first one's lock for 20 s, which is how long `status` is waited for
    (`control.rs:279`). `SoleDaemonIsReached` speaks of daemons that were `alone`.
16. A caller that gives up after 20 s drops the handler inside `connect`: no tunnel is left and nobody tries again
    (`unsure`). The `opentunnel route remove` it had started is not stopped with it (`opentunnel.rs:65`, unlike `:166`), nor with
    a daemon that dies: it may take away the route that the next switch, or the next daemon, has seen or made, and that
    daemon then says its tunnel is up. `SoleDaemonIsReached` names this exception (`overtaken`).
17. `daemon::start` that fails after connecting leaves the route behind; a switch that waits behind the
    close at shutdown may open it again.

*Settings*

18. Actions work from what they loaded: two at once may overwrite each other's list of a link, make a
    removed tool anew or leave an empty entry (`mixed`). A crash inside `remove_app` leaves a link that names an app
    that is gone; one inside a split leaves the tool on no explicit link. `remove_app` leaves the app's rules, which a
    later app of that name inherits.
19. A link that names an app there is not (such a crash leaves one, and an editor can) offers the next command of
    that name as soon as `add_command` or a split has written it (`actions.rs:334`), before its own edits of links; after a crash
    between the two it stays. `HalfDoneIsSafe` has this one exception (`OfferedAtOnce`), and TLC reaches it.

*Screen*

20. The list of apps of a new link shows those that are on every link as ticked and locked, but the new link
    does not get them. Ticking nothing on a `*` link deletes it. A server may be given the name of a link.
21. Between `approve`'s delete and its entry in the log the screen may say that a request ended and nothing was
    shared; it may say "Connected" of a denied request whose client has access from before.
22. A job hidden while another starts loses its handle; the message of a job that ends replaces the
    dialog that is open. Starting to share twice can start two daemons.
23. `allow_dangerous` works from the snapshot (`actions.rs:75-83`). An entry of one line is written back whole, over
    what another process has made of it, or though it was removed. Of any other entry the key is put into whatever is there
    now; if it was removed, an entry without a command is made. No command runs that was not confirmed
    (`DangerIsConfirmed`), but a person's removal is undone.
24. `resource: true` is a claim to be read-only as well (`spec.rs:37`) that `honest` does not clear (`spec.rs:41-46`): a
    resource edited into a command that deletes keeps it (`edit_tool`). It is refused when the file is loaded
    (`apps.rs:112-118`), which is why `DangerIsConfirmed` asks for honest claims of entries that load.

*Clients*

25. A client whose request is between two tables (approved and not exchanged, or identified and not filed)
    counts as unused; if it is a day old a sweep deletes it, and its next authorization is refused.
    `ClientsInUseAreRegistered` leaves these out (`gap`).

## 5. What is proved

Every theorem holds for every set of requests, handlers, links, processes, daemons and ids and for every
limit and bound. The constants are only assumed to be what they stand for:

| Assumption | Says |
|---|---|
| `ApprovalAssumption`, `AccessAssumption` | limits and lifetimes are natural numbers, in `Approval` above 0; the values that stand for nobody and nothing are no handler, request, link or grant; the processes are the daemon and the command line |
| `ReloadAssumption` | the bounds are natural numbers; *absent*, *broken*, *unreadable* and *never* are no membership |
| `StdioAssumption` | new ids differ from saved ones (`random_token`); the kinds of request are the four there are; no client uses the id `porchlight-initialize`; there is at least one slot |
| `RegistryAssumption` | names that are refused or run code are names of tools; apps answer with tools or are *down*; settings give each app a kind, its trust and its tools, or leave it out, and switch off tools of apps; the bounds are natural numbers |
| `TunnelAssumption` | requests and daemons are apart; there are as many ports as the daemons and the other programs that take one |
| `ProcsAssumption`, `JobsAssumption`, `BoundsAssumption` | *nobody* is no process, *no action* is no action; the bounds are natural numbers |
| `ActsAssumption`, `FileAssumption` | an action of `Settings` is one of the twelve, its links and tools are finitely many, what is removed is not called `*`; the file at the start has its four sections, each an object of finitely many keys |
| `IdsAssumption`, `LimitsAssumption`, `CacheAssumption` | no document's address is a registered id; limits and lengths are natural numbers, and something cached is kept for some time |
| `SurfaceAssumption` | names that are refused are names of tools; posts are batches of requests with ids, and the app's own requests have ids of the same kind; apps answer with tools; settings switch off tools |
| `DangersAreWords`, `NoRunIsNoCommand`, `TokenAssumption`, `NamesAssumption` | commands that run code, are open or delete are commands; an entry without a command has none of these; a token made by hand is no client; no app is called `*` |
| `InitiallyAssumption` | the file at the start is one that porchlight may have written: no app is called `*`, the only list with a star is *all*, no command that deletes is marked `readOnly` (`spec.rs:41`) |
| `OwnAssumption` | nobody's own address is the one the provider hands out, and none is the name of the provider |

| Theorem | Statement |
|---|---|
| `ApprovalProofs!TypesHold` | `Spec => []TypeOK` |
| `GuessesStayBounded` | `Spec => []GuessesBounded` |
| `ConnectsOnce` | `Spec => []OneConnectionPerRequest` |
| `ApprovalsAreInTime` | `Spec => []ApprovedInTime` |
| `RevocationCompletes` | `Spec => []RevocationIsComplete` |
| `ApprovalImplementsConsent` | `Spec => ImplementsConsent`: `Approval` implements `Consent` |
| `OnlyTheAskerTries` | `Spec => OnlyAskerSpendsTries`, an action property |
| `AccessProofs!RevokedStreamsEnd` | `Spec => []NoStreamOutlivesRevocation` |
| `RefreshTokensAreSingle` | `Spec => []OneRefreshToken` |
| `ReuseStaysNoticeable` | `Spec => []ReuseIsNoticed` |
| `SweepsAreSafe` | `Spec => []SweepSparesLiveGrants` |
| `RevokedAreLockedOut` | `Spec => RevokedIsLockedOut`, an action property |
| `ReloadProofs!ConsentFollowsLinks` | `Spec => []ConsentMatchesLink` |
| `UnchangedLinksAreSpared` | `Spec => UnchangedLinksKeepClients`, an action property |
| `StdioSessionsProofs!SlotsAreAccounted` | `Spec => []SlotsAccounted` |
| `AnswersAreTheirs` | `Spec => []AnswersReachTheirRequest` |
| `TheDeadAreLeft` | `Spec => []NobodyWaitsOnTheDead` |
| `SessionsHaveOneProcess` | `Spec => []OneProcessPerSession` |
| `EndedSessionsStayEnded` | `Spec => []EndedStaysEnded` |
| `RegistryProofs!ServedFollowRules` | `Spec => []LiveFollowsRules` |
| `ListenersAreTold` | `Spec => []WatchersAreTold` |
| `TypesHold` | `Spec => []TypeOK`: slots that are used again stay one app's each |
| `TunnelProofs!SoleDaemonIsTheOneReached` | `Spec => []SoleDaemonIsReached` |
| `AddressGivenIsServed` | `Spec => []AddressIsServed` |
| `ClientsProofs!LimitsHold` | `Spec => []LimitsHoldInEveryWindow` |
| `RedirectsStayRecent` | `Spec => []RedirectsAreRecent` |
| `ClientsStayRegistered` | `Spec => []ClientsInUseAreRegistered` |
| `EditsAreKept` | `FileSpec => []NoEditIsLost` (`Settings`) |
| `ActionsAreAtomic` | `FileSpec => []UndisturbedActionsAreAtomic` |
| `HalfDoneActionsAreSafe` | `FileSpec => []HalfDoneIsSafe` |
| `SurfaceProofs!ListsAreExact` | `Spec => []LoneListsAreExact` |
| `DangerIsRefused` | `Spec => NewDangerIsRefused`, an action property |
| `CallsAreLogged` | `Spec => []AnsweredCallsAreLogged` |
| `AnswersAreTicked` | `ScreenSpec => []AnswersDoWhatWasTicked` (`Screen`) |
| `DangerNeedsAPerson` | `ScreenSpec => []DangerIsConfirmed` |
| `CodesAreOfRequests` | `ScreenSpec => []CodeIsOfARequest` |

Hardly any of them is inductive alone. Each component has one invariant (`IInv`; `FileInv` and `ActionInv` of `Settings`, `ScreenInv` of
`Screen`), a conjunction of named parts, that TLC checked on small instances before it was proved; one lemma per action shows that it keeps `IInv`;
`Invariance` is the temporal step, and each theorem follows from `IInv` or, for an action property,
from `IInv` and one step. What the parts say, and why they are needed:

*Approval*
* `LockInv`: a handler is in a critical step exactly while it holds `code_lock`, and the
  daemon's revoker likewise: at most one of them is.
* `HandlerInv`: a handler at work has a request that was begun, and the handler that has
  not stored it yet is the only one that has it.
* `TryInv`: what a handler inside `approve_with_code` has read is still so, unless the row was
  deleted under it: no more comparisons were made than the attempts it read, no code has been made
  yet, the time it read is within the expiry, and the request it publishes is deleted.
* `RequestInv`: a waiting request was compared no more often than its row counts, and
  has no code. That is what makes the code unique although the delete does not look at its result.
* `CodeInv`: a code in the map is the only one of its request, which has no grant.
* `RevokerInv`: what the daemon's revoker has passed so far is gone already, and no handler
  is about to file one of its targets.

*Consent.* The refinement mapping reads off, for each request, whether it waits, is approved, connected or over.
Each action of `Approval` maps to at most one of `Consent`: a comparison of a code spends a try, the publishing
of a code approves, a grant connects, a delete ends; the rest stutters. A sweep or a
revocation is one step that ends several requests at once, and the SQL statement that ends some can be the one that
publishes the code of another; `Consent` allows the two in one step. With one request, as in the run,
this cannot happen: the proof showed it.

*Access*
* `WorkInv`, `TableInv`: handlers and rows are about grants that were made; one that is gone never comes back,
  since no id is generated twice.
* `PassedInv`: between its delete and `close_streams` a revocation's grants are out of the table, so that a
  stream that registers in between sees it. That and the second look of `open_grant_stream` are the argument
  for `NoStreamOutlivesRevocation`. `StreamInv` says the same of requests inside `surface.serve` that no cancel has reached,
  because each may still become a stream.
* `RefreshInv`: a grant has at most one unused refresh token, and none while the handler that
  claimed it makes the next pair.
* `UsedInv`: the row of a used refresh token stays until it expires, which is how its reuse is noticed.
* `SweepInv`: a handler that refreshes in time has a token whose row keeps the sweep off the grant.

*Reload*
* `PlanInv`: a link is served as its signature says or not at all, but between the writing of the signatures
  and `sync`, when it is the file as loaded that the signatures follow.
* `TodoInv`: links still to be revoked are links that changed.
* `ShownInv`: who was shown a membership holds the one in the signatures, so that the next change is noticed; a
  reload that has passed its link without failing found the link as it was shown.

*Stdio sessions*
* `RequestInv`, `IdInv`, `FreshInv`, `ProcInv`, `CloseInv`: what a handler, a process and a close have at each step. A
  handler's close runs exactly while the handler waits for it, a reader's is always of its own process.
* `LockInv`, `EntryInv`: whoever resumes a session holds the lock until its entry is made, so that an id has no
  entry while one is made, and each entry is of a process of that id.
* `SlotsInv`: `SlotsAccounted` with the finiteness of the three sets that it counts.
* `AskedInv`, `WaitInv`: what a process was asked was asked there; whoever waits and was not cut off is in the
  table under its key. So an answer that meets another request under the key is one that nobody waits for (`AnswerInv`).
* `DeadInv`: past `fail_pending` of its reader's close nobody waits on a process, because a request
  inserts itself into the table before it looks whether the process runs.
* `RunningInv`: a running process has its entry, will get it, or lost it to another's close.
* `ForgetInv`: a session that a DELETE forgot has no row, no resume under way that the DELETE did not see, and no
  entry but the one the DELETE is closing.

*Registry*
* `SlotInv`: apps have a slot of their own, with an entry of that app; a slot is given to another only when nobody
  holds it, and a task that still has its number then reads an entry that some setting once made (`WorkInv`).
* `LockInv`: of checks and the reload one at most is inside `rules_lock`, and a check inside it has the rules in force:
  `set_rules` takes the lock to change them, also when the supervisor of that check was aborted.
* `RulesInv`: but for the reload's moment between the new rules and the new entries every entry that is served
  follows the rules; a check that waited for the lock reads the rules after it got it, not before.
* `ToldInv`: `WatchersAreTold` also of the streams that are about to subscribe, which an announcement takes to another
  step; `Owed` ends only with the step that announces.

*Tunnel*
* `LockInv`, `WorkInv`: who is in `connect` or `close` holds the daemon's lock, and no tunnel is up meanwhile.
* `UndoInv`, `UrlInv`: only a switch that failed takes its route back; outside a switch the daemon tells the provider's
  address exactly while its tunnel is up.
* `AloneInv`, `RouteInv`, `SocketInv`: of two daemons alive at once none is alone; the route leads to one that is alone
  from the moment it has seen or made it and until a removal that was left behind takes it away. A late *add* needs no
  exception, since opentunnel does not add a name that it has.

*Settings*
* `EditInv`: a process that has written a new file holds the lock, and the file is the next of its edits made in the
  file on disk; `JobInv`: only a process with an action has edits. They make up `FileInv`.
* `EditsInv`, `ShapeInv`, `ChosenInv`: every edit is of a key of one of the four sections, the file and what was loaded of
  it are such sections, and an action was accepted of what was loaded for it.
* `LoneInv`: what an undisturbed action has made of the file. The properties speak of what a whole sequence of edits
  comes to, which would be an induction over the sequence; `Underway` says it of each key instead. A key is as the file was
  or as the action means it (`InBetween`); every edit that is left leads its key to what the action means, from either
  (`LeadTo`); a key that no edit is left for is as the action means it already, but for the section that a second part still edits
  (`Rest`, `Untouched`). One edit keeps this whichever it is (`AfterEdit`), so that the order of the edits of links does not
  matter; with none left it is `UndisturbedActionsAreAtomic` (`AtTheEnd`). That the two parts of each kind of action are such edits
  is `FirstPartOfAll` and `SecondPartOfAll`, one lemma per kind.
* `Standing`: the one order that matters. A tool that is being split off stands alone before it leaves its group.
  The other half of `HalfDoneIsSafe` holds in any order (`Compatible`): the commands of one of the two files with the links
  of the other offer nothing that neither offers, but for the new command on a link that named it before it was there.

*Surface*
* `EntryInv`: the entry an exchange was given was live when it began; a live entry allows a tool that runs commands only if
  the app is trusted, so that what a call may still name is no more than that.
* `LoneInv`: while a list runs that nothing overlapped, no other list writes into `refused`.
* `FilterInv`: a list in `filter_list` has shown exactly the tools it has gone through and does not hold back, and, if
  nothing overlapped it, `refused` says of each of those what its answer says. At its end this is `LoneListsAreExact`.
* `FreshInv`, `ListedInv`: what a completed list has shown to run commands is in `refused` or known to the registry, and no
  list under way has an answer from before that would take it out again. `listed` needs the same of the tools that
  did not change since a list began (`fresh`), which become listed when it ends.
* `LogInv`: nothing of an exchange is in the log before it ends. `AnsweredCallsAreLogged` is then a matter of the steps that
  log, `Record` and `Fail`: an app that answers leaves something with the id of every call, if only that its copy broke off.

*Screen*
* `Good`: of the file on disk and of the snapshot: every command in it was confirmed, keeps no false claim unless it is refused at load, and *all apps*
  is the one list with a star, so that no list of names that an answer writes turns into *all*.
* `ModeOk`: each step of a dialog knows what the steps before it asked: the command of `CommandLinks` was confirmed,
  that of `EditReads` runs no code, and the boxes that are open are those of the snapshot that is still kept.
  The refresh after a change, the clock in `Normal` and `Code` only, and the end of a job, which closes the dialog, keep it so.
* `AnswersDoWhatWasTicked` holds of one step, the answer: `TickedLinks` and `TickedApps` say what `set_links_of` and the
  list of a link do to each place of each link, whatever was ticked.

*Clients*
* `HitsInv`, `HourInv`: the sweep inside `registration_try_record` keeps every row that a later registration
  could count, so that each hour that the new row is in lies within what was counted; `HourInv` says it of the hours
  that begin at any instant, which is stronger than the property and is what is inductive. `StartsInv`, `MinuteInv`
  say the same of downloads.
* `LastInv`, `DownloadInv`, `CacheInv`, `BeginInv`: an address that a handler or the cache has was in its document no
  longer ago than the download can take, and in the cache no longer than that before it was put there.
* `UseInv`: `ClientsInUseAreRegistered` for all four places a request goes through, not only its two tables.

The proofs take about twenty minutes together. A proof that failed changed the models in five places:
`Consent`, as above; `Tunnel` without `OwnAssumption`, where a person's own
address equal to the provider's would make `url` say the tunnel is up; the types of `Tunnel`, which did not hold what its
handlers carry; `Surface`, where two cases of `Begin` overlapped, which left open what the code decides in order; and `Settings`, where a split
that finds all its names taken writes over the app of the first one, so that it is neither whole nor safe
(`actions.rs:129`; with 999 names the code takes it that one is free, and so does `Accepted` with `Len(SplitNames[tool])`).

Every invariant and action property that a passing run checks is a theorem. Only model-checked: `Switches`, where the run shows a
violation, and liveness. All
liveness (`EveryRequestEnds`, `EveryTryIsAnswered`, `EveryEditIsApplied`, `EveryRequestReturns`, `HealthyAppsAreServed`) stays
with TLC: leads-to under fairness and ENABLED are out of the prover's reach.

## 6. Plan

1. `StdioSessions`, the rest: batches, shutdown; abstract specification: each request gets one answer.
2. `Surface`: sealing of session ids and resources; composition with `Access`.
3. `ApprovalPages`: csrf tokens and the polling of the outcome; ports and the start of the daemon.

## 7. Not modelled, and why

Drawing (`tui/view.rs`), themes, argument parsing and printing of the command line, HTML and wording: no
state of the system is in them. Templates of commands and the judgement of what a command does
(`sources/commands*`): pure functions of text. Remote MCP sources and discovery: requests passed on, with no
state that two of them share but a session id. csrf tokens, the outcome page, the metadata pages of
OAuth, the throttle of audit rows, migrations. Hashing and random numbers: taken as distinct values. SQLite,
tokio, opentunnel and the operating system: external, used through the atomicity stated above.
