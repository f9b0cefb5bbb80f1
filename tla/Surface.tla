------------------------------- MODULE Surface -------------------------------
(***************************************************************************)
(* Requests of clients on a link to one MCP app: surfaces.rs, as           *)
(* Gateway::serve_link calls it. Every exchange works with the LinkEntry   *)
(* it began with, while rules are reloaded, the app changes its tools and  *)
(* the registry finds that out later; all of them share the map of tools   *)
(* that turned out to run commands. The registry's own races are in        *)
(* Registry: here a check and set_rules are one step each.                 *)
(***************************************************************************)
EXTENDS Naturals, FiniteSets

CONSTANTS
    Tools,         \* names of tools
    Invalid,       \* the names policy.rs valid_tool_name refuses
    Exchanges,     \* requests at a time
    Batches,       \* what clients post: sets of messages
    Ids,           \* JSON-RPC ids
    Questions,     \* those that requests of the app's own may carry
    Offers,        \* what the app can offer: each tool "absent", "plain", or one that "runs" commands
    Settings,      \* [off, defaultOn]: the rules a reload brings
    NoTool,        \* no tool
    MaxRequests,   \* bound: requests
    MaxChanges,    \* bound: times a tool of the app changes
    MaxReloads,    \* bound: reloads
    MaxTroubles    \* bound: answers of the app that fail, clients that leave

\* A message names its method; a call its tool.
RpcMessage == [method : {"tools/list", "tools/call", "resources/read", "prompts/list", "initialize", "odd"},
            tool : Tools \union {NoTool}, id : Ids]

ASSUME SurfaceAssumption ==
    /\ Invalid \subseteq Tools /\ NoTool \notin Tools
    /\ Batches \subseteq SUBSET RpcMessage /\ Questions \subseteq Ids
    /\ Offers \subseteq [Tools -> {"absent", "plain", "runs"}]
    /\ \A s \in Settings : s.off \subseteq Tools /\ s.defaultOn \in BOOLEAN
    /\ {MaxRequests, MaxChanges, MaxReloads, MaxTroubles} \subseteq Nat

VARIABLES
    app,       \* what the app offers now
    trusted,   \* the app's allowDangerous
    rules,     \* the setting in force
    entry,     \* the registry's LinkEntry
    refused,   \* McpSurface.refused of the link
    exch,      \* the exchanges
    log,       \* what the call log says of them: <<exchange, call, outcome>>
    listed,    \* tools some list showed to run commands, all of it after they began to
    count

vars == <<app, trusted, rules, entry, refused, exch, log, listed, count>>

-----------------------------------------------------------------------------
(* What the registry knows, and checks again.                              *)

Dangerous(tools, t) == tools[t] = "runs"

\* checked, in registry.rs
Checked(tools, setting, trust) ==
    LET known == [t \in Tools |-> IF t \in Invalid THEN "absent" ELSE tools[t]]
        allowed == {t \in Tools : known[t] # "absent" /\ t \notin setting.off}
        danger == {t \in allowed : Dangerous(known, t)}
    IN  [state |-> IF danger = {} \/ trust THEN "live" ELSE "refused",
         tools |-> known, allowed |-> allowed, defaultOn |-> setting.defaultOn]

NoEntry == [state |-> "starting", tools |-> [t \in Tools |-> "absent"], allowed |-> {}, defaultOn |-> TRUE]

NoExchange == [step |-> "none", batch |-> {}, entry |-> NoEntry, answer |-> NoEntry.tools,
               todo |-> {}, tool |-> NoTool, shown |-> {}, replies |-> {}, lone |-> TRUE, fresh |-> {}]

Lists(b) == \E m \in b : m.method = "tools/list"
Calls(b) == {m \in b : m.method = "tools/call"}
Called(b) == {m.tool : m \in Calls(b)}

\* What is kept of an exchange that is over: the calls the app was asked to make, and
\* what came of them.
Over(x, how, replies) ==
    IF replies = {} THEN NoExchange
    ELSE [NoExchange EXCEPT !.step = how, !.replies = replies, !.batch = exch[x].batch]

\* Lists that may still write into refused.
Listing(x) == Lists(exch[x].batch) /\ exch[x].step \in {"gate", "calling", "called", "filtering"}

Init ==
    /\ app \in Offers
    /\ trusted \in BOOLEAN
    /\ rules \in Settings
    /\ entry = Checked(app, rules, trusted)
    /\ refused = {}
    /\ exch = [x \in Exchanges |-> NoExchange]
    /\ log = {}
    /\ listed = {}
    /\ count = [requests |-> 0, changes |-> 0, reloads |-> 0, troubles |-> 0]

\* The app changes its tools without telling the registry.
Change(offer) ==
    /\ count.changes < MaxChanges
    /\ offer # app
    /\ app' = offer
    /\ listed' = {t \in listed : offer[t] = app[t]}
    /\ exch' = [x \in Exchanges |-> [exch[x] EXCEPT !.fresh = {t \in @ : offer[t] = app[t]}]]
    /\ count' = [count EXCEPT !.changes = @ + 1]
    /\ UNCHANGED <<trusted, rules, entry, refused, log>>

\* The supervisor lists the tools again.
Check ==
    /\ entry' = Checked(app, rules, trusted)
    /\ UNCHANGED <<app, trusted, rules, refused, exch, log, listed, count>>

SetRules(setting) ==
    /\ count.reloads < MaxReloads
    /\ setting # rules
    /\ rules' = setting
    /\ entry' = IF entry.state \in {"live", "refused"} THEN Checked(entry.tools, setting, trusted) ELSE entry
    /\ count' = [count EXCEPT !.reloads = @ + 1]
    /\ UNCHANGED <<app, trusted, refused, exch, log, listed>>

-----------------------------------------------------------------------------
(* One exchange: serve, post.                                              *)

\* A session sealed for another grant is not found; an app that is not live is not served.
Begin(x, b, mine) ==
    /\ exch[x].step \in {"none", "ended", "gone", "broken"}
    /\ count.requests < MaxRequests
    /\ count' = [count EXCEPT !.requests = @ + 1]
    /\ log' = {l \in log : l[1] # x}
    /\ exch' = [y \in Exchanges |->
           CASE y = x /\ ~(mine /\ entry.state = "live") -> NoExchange
             [] y = x /\ mine /\ entry.state = "live" -> [NoExchange EXCEPT !.step = "gate", !.batch = b, !.entry = entry,
                    !.fresh = IF Lists(b) THEN Tools ELSE {},
                    !.lone = Lists(b) => ~\E z \in Exchanges : Listing(z)]
             [] y # x /\ Lists(b) /\ Listing(y) -> [exch[y] EXCEPT !.lone = FALSE]
             [] OTHER -> exch[y]]
    /\ UNCHANGED <<app, trusted, rules, entry, refused, listed>>

\* refusal, readable
MethodRefused(x, m) ==
    \/ m.method = "odd"
    \/ m.method \in {"prompts/list", "resources/read"} /\ ~exch[x].entry.defaultOn

\* The registry has found out by itself what the list showed.
CaughtUp(x, t) == Dangerous(exch[x].entry.tools, t)

OnlyOffIsBlocked(x, t) == t \notin exch[x].entry.allowed    \* mutated form
ToolBlocked(x, t) == t \notin exch[x].entry.allowed \/ (t \in refused /\ ~CaughtUp(x, t))

MethodBlocked(x) == \E m \in exch[x].batch : MethodRefused(x, m)
BlockedCalls(x) == {c \in Calls(exch[x].batch) : ToolBlocked(x, c.tool)}
Blocked(x) == MethodBlocked(x) \/ BlockedCalls(x) # {}

\* One message that is not allowed refuses the batch; the first of the calls that are
\* not is logged, unless a method is refused before them.
Gate(x) ==
    /\ exch[x].step = "gate"
    /\ exch' = [exch EXCEPT ![x] = IF Blocked(x) THEN NoExchange ELSE [@ EXCEPT !.step = "calling"]]
    /\ IF MethodBlocked(x) \/ BlockedCalls(x) = {} THEN log' = log
       ELSE \E first \in BlockedCalls(x) : log' = log \union {<<x, first, "refused">>}
    /\ UNCHANGED <<app, trusted, rules, entry, refused, listed, count>>

\* A request of the app's own, on the way to the client.
Question(id) == [method |-> "question", tool |-> NoTool, id |-> id]

\* What of a batch and the app's questions answers to the id of a call.
Wanted(b, asked) == {m \in b \union {Question(id) : id \in asked} : \E c \in Calls(b) : m.id = c.id}

\* The app does what it is asked, with the tools it has now, and answers some calls
\* with an error; questions of its own may come with the answers.

Execute(x) ==
    /\ exch[x].step = "calling"
    /\ \E failing \in SUBSET Calls(exch[x].batch), asked \in SUBSET Questions :
          exch' = [exch EXCEPT ![x] = [@ EXCEPT !.step = "called",
              !.answer = IF Lists(exch[x].batch) THEN app ELSE exch[x].answer,
              !.todo = IF Lists(exch[x].batch) THEN {t \in Tools : app[t] # "absent"} ELSE {},
              !.replies = {<<m, IF m \in failing THEN "error" ELSE "ok">> : m \in Wanted(exch[x].batch, asked)}]]
    /\ UNCHANGED <<app, trusted, rules, entry, refused, log, listed, count>>

\* source.handle returns the response.
Headers(x) ==
    /\ exch[x].step = "called"
    /\ exch' = [exch EXCEPT ![x] = [@ EXCEPT !.step = IF Lists(exch[x].batch) THEN "filtering" ELSE "body"]]
    /\ UNCHANGED <<app, trusted, rules, entry, refused, log, listed, count>>

\* The app fails before that: mark_down, and every call is an error.
Fail(x) ==
    /\ exch[x].step \in {"calling", "called"}
    /\ count.troubles < MaxTroubles
    /\ count' = [count EXCEPT !.troubles = @ + 1]
    /\ exch' = [exch EXCEPT ![x] = Over(x, "ended", {<<c, "none">> : c \in Calls(exch[x].batch)})]
    /\ log' = log \union {<<x, c, "error">> : c \in Calls(exch[x].batch)}
    /\ entry' = IF entry.state = "live" THEN [entry EXCEPT !.state = "waiting"] ELSE entry
    /\ UNCHANGED <<app, trusted, rules, refused, listed>>

-----------------------------------------------------------------------------
(* The filter of a list: what it learns and what it shows, tool by tool,   *)
(* with the map unlocked in between.                                       *)

InsertOnly(x, t, names) ==                          \* mutated form
    IF Dangerous(exch[x].answer, t) /\ ~Dangerous(exch[x].entry.tools, t) THEN names \union {t} ELSE names
Learned(x, t, names) ==
    IF Dangerous(exch[x].answer, t) /\ ~Dangerous(exch[x].entry.tools, t) THEN names \union {t} ELSE names \ {t}

Learn(x, t) ==
    /\ exch[x].step = "filtering" /\ exch[x].tool = NoTool
    /\ t \in exch[x].todo
    /\ exch' = [exch EXCEPT ![x] = [@ EXCEPT !.todo = exch[x].todo \ {t}, !.tool = IF t \in Invalid THEN NoTool ELSE t]]
    /\ refused' = IF t \in Invalid THEN refused ELSE Learned(x, t, refused)
    /\ UNCHANGED <<app, trusted, rules, entry, log, listed, count>>

Show(x) ==
    /\ exch[x].step = "filtering" /\ exch[x].tool # NoTool
    /\ exch' = [exch EXCEPT ![x] = [@ EXCEPT
           !.shown = exch[x].shown \union ({exch[x].tool} \intersect (exch[x].entry.allowed \ refused)), !.tool = NoTool]]
    /\ UNCHANGED <<app, trusted, rules, entry, refused, log, listed, count>>

\* The whole list went through the filter.
Filtered(x) ==
    /\ exch[x].step = "filtering" /\ exch[x].tool = NoTool /\ exch[x].todo = {}
    /\ exch' = [exch EXCEPT ![x] = [@ EXCEPT !.step = "body"]]
    /\ listed' = IF exch[x].lone
                 THEN listed \union {t \in exch[x].fresh : Dangerous(exch[x].answer, t)} ELSE listed
    /\ UNCHANGED <<app, trusted, rules, entry, refused, log, count>>

\* The body breaks off while it is filtered: mark_down, and no call is recorded.
Break(x) ==
    /\ exch[x].step = "filtering"
    /\ count.troubles < MaxTroubles
    /\ count' = [count EXCEPT !.troubles = @ + 1]
    /\ exch' = [exch EXCEPT ![x] = Over(x, "broken", exch[x].replies)]
    /\ entry' = IF entry.state = "live" THEN [entry EXCEPT !.state = "waiting"] ELSE entry
    /\ UNCHANGED <<app, trusted, rules, refused, log, listed>>

-----------------------------------------------------------------------------
(* observed, record_calls: a task that reads a copy of the body.           *)

\* Replies that get through before the body ends, breaks or the client leaves; what
\* is too large to read counts as a result.
Cut(x, lost) ==
    /\ exch[x].step = "body"
    /\ count.troubles < MaxTroubles
    /\ count' = [count EXCEPT !.troubles = @ + 1]
    /\ \E how \in {"none", "large"} :
          exch' = [exch EXCEPT ![x] = [@ EXCEPT !.step = "copied",
              !.replies = {<<r[1], IF r[1] \in lost THEN how ELSE r[2]>> : r \in exch[x].replies}]]
    /\ UNCHANGED <<app, trusted, rules, entry, refused, log, listed>>

OutcomeOf(reply) == IF reply \in {"ok", "large"} THEN "ok" ELSE "error"

AnyOutcome(x, c) ==                                 \* mutated form
    {OutcomeOf(r[2]) : r \in {s \in exch[x].replies : s[2] \in {"ok", "error"}}}
\* What may be found of a call: whatever came with its id, the first of them; of one
\* with nothing, how the copy ended.
Outcomes(x, c) ==
    LET came == {r \in exch[x].replies : r[1].id = c.id /\ r[2] \in {"ok", "error"}}
        own == {r \in exch[x].replies : r[1] = c}
    IN  {OutcomeOf(r[2]) : r \in IF came = {} THEN own ELSE came}

Record(x) ==
    /\ exch[x].step \in {"body", "copied"}
    /\ \E found \in [Ids -> {"ok", "error"}] :
          /\ \A c \in Calls(exch[x].batch) : found[c.id] \in Outcomes(x, c)
          /\ log' = log \union {<<x, c, found[c.id]>> : c \in Calls(exch[x].batch)}
    /\ exch' = [exch EXCEPT ![x] = Over(x, "ended", exch[x].replies)]
    /\ UNCHANGED <<app, trusted, rules, entry, refused, listed, count>>

\* A client that leaves before the response is there takes the handler with it; later,
\* only the body ends.
Leave(x) ==
    /\ exch[x].step \in {"gate", "calling", "called", "filtering", "body"}
    /\ count.troubles < MaxTroubles
    /\ count' = [count EXCEPT !.troubles = @ + 1]
    /\ exch' = [exch EXCEPT ![x] =
           IF @.step = "body" THEN [@ EXCEPT !.step = "copied", !.replies = {<<r[1], "none">> : r \in exch[x].replies}]
           ELSE Over(x, "gone", exch[x].replies)]
    /\ UNCHANGED <<app, trusted, rules, entry, refused, log, listed>>

Next ==
    \/ \E offer \in Offers : Change(offer)
    \/ Check
    \/ \E setting \in Settings : SetRules(setting)
    \/ \E x \in Exchanges :
          \/ \E b \in Batches, mine \in BOOLEAN : Begin(x, b, mine)
          \/ Gate(x) \/ Execute(x) \/ Headers(x) \/ Fail(x)
          \/ \E t \in Tools : Learn(x, t)
          \/ Show(x) \/ Filtered(x) \/ Break(x)
          \/ \E lost \in SUBSET {r[1] : r \in exch[x].replies} : Cut(x, lost)
          \/ Record(x) \/ Leave(x)

Spec == Init /\ [][Next]_vars

-----------------------------------------------------------------------------
(* Properties.                                                             *)

\* A list that no other list of the link overlapped shows exactly what it is to show
\* (surfaces.rs:351): the valid tools that were allowed when it began, less those its
\* answer shows to run commands when the registry did not know; what an earlier list
\* held back for that reason, and no more holds, is shown again.
LoneListsAreExact ==
    \A x \in Exchanges :
        exch[x].step \in {"body", "copied"} /\ Lists(exch[x].batch) /\ exch[x].lone =>
            exch[x].shown = {t \in exch[x].entry.allowed :
                /\ exch[x].answer[t] # "absent"
                /\ Dangerous(exch[x].answer, t) => Dangerous(exch[x].entry.tools, t)}

\* A tool of an app that is not trusted with commands does not get called while the
\* registry still thinks it harmless, once a list that began after the tool started to
\* run commands, and that no other list overlapped, has been filtered to its end
\* (surfaces.rs:300): not by a request with an older entry either, however the rules
\* and the app changed before.
NewDangerIsRefused ==
    [][\A x \in Exchanges : exch[x].step = "gate" /\ exch'[x].step = "calling" =>
          \A t \in Called(exch[x].batch) \intersect listed :
              Dangerous(app, t) /\ ~Dangerous(entry.tools, t) => trusted]_vars

\* The log says of a call what its client saw (record_calls, surfaces.rs:182): once the
\* handler has returned a response or failed, and the response is over, every call the
\* app was asked to make has one entry, a success exactly when a result came or was too
\* large to look into. Exception: outcomes are found by JSON-RPC id, so if something
\* else on the answer has the id of the call, another request of the batch or one of
\* the app's own, the entry may be what came of that (surfaces.rs:205, rpc.rs:383).
AnsweredCallsAreLogged ==
    \A x \in Exchanges : exch[x].step = "ended" =>
        \A c \in Calls(exch[x].batch) : \E r \in exch[x].replies :
            /\ r[1].id = c.id
            /\ {l \in log : l[1] = x /\ l[2] = c} =
                  {<<x, c, IF r[2] \in {"ok", "large"} THEN "ok" ELSE "error">>}

=============================================================================
