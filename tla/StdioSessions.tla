----------------------------- MODULE StdioSessions -----------------------------
(***************************************************************************)
(* The sessions of a source that runs a command: StdioSource and Session   *)
(* of sources/mcp_stdio.rs over RunningProcess of sources/process.rs.      *)
(*                                                                         *)
(* A request is one message of a client, handled once. It starts at most   *)
(* one child process, which therefore has the request's name, as has the   *)
(* session id that an initialize makes up. Ids without a request are those *)
(* an earlier daemon left in table stdio_sessions.                         *)
(***************************************************************************)
EXTENDS Naturals, FiniteSets

CONSTANTS
    Requests,      \* messages of clients, and the processes they start
    SavedIds,      \* session ids from before
    Kinds,         \* what clients ask for: "initialize", "oneshot", "call", "delete"
    Keys,          \* JSON-RPC ids that clients choose
    Hello,         \* the JSON-RPC id "porchlight-initialize"
    Nobody,        \* no request, no process, no id
    MaxSessions,   \* MAX_SESSIONS
    MaxTroubles    \* bound: crashes, oversized lines, failing spawns, clients that leave,
                   \* and half hours without use

ASSUME StdioAssumption ==
    /\ Requests \intersect SavedIds = {}
    /\ Nobody \notin Requests \union SavedIds
    /\ Kinds \subseteq {"initialize", "oneshot", "call", "delete"}
    /\ Hello \notin Keys
    /\ MaxSessions \in Nat \ {0}
    /\ MaxTroubles \in Nat

Ids == Requests \union SavedIds

VARIABLES
    sessions,   \* StdioSource.sessions: the process under each id
    live,       \* StdioSource.sessions_live
    saved,      \* ids with a row in table stdio_sessions
    resuming,   \* who holds StdioSource.resuming
    proc,       \* each process: its session id, itself, its reader task
    pending,    \* Session.pending: the request that waits under each key
    asked,      \* what each process has read and not answered
    request,    \* the handler of each request
    closing,    \* Session close, run by a handler, a reader task or the sweeper
    troubles,
    cut,        \* history: requests whose entry a close or another request took away
    lost,       \* history: slots of closes that were cut off
    stray,      \* history: processes whose entry the close of another one took
    ended,      \* history: ids whose DELETE has returned
    raced       \* history: ids forgotten after a resume that the DELETE does not know of read their row

history == <<cut, lost, stray, ended, raced>>
vars == <<sessions, live, saved, resuming, proc, pending, asked, request, closing, troubles,
          history>>

-----------------------------------------------------------------------------
Handler(r) == <<"handler", r>>
Reader(p) == <<"reader", p>>
Sweeper == <<"sweeper", Nobody>>
Closers == ({"handler", "reader"} \X Requests) \union {Sweeper}

NoClose == [step |-> "none", proc |-> Nobody, removed |-> FALSE]
ClosingOf(p) == [step |-> "remove", proc |-> p, removed |-> FALSE]

Mapped == {sessions[i] : i \in Ids} \ {Nobody}
Over(r) == request[r].step = "done"

\* An Arc<Session> of p is held: else the child is killed on drop.
Held(p) ==
    \/ p \in Mapped
    \/ \E r \in Requests : request[r].proc = p /\ ~Over(r)
    \/ \E c \in Closers : closing[c].proc = p

Key(r) == request[r].key
Session(r) == request[r].proc
WaitingOn(p) == {k \in Keys \union {Hello} : pending[p][k] # Nobody}

Blank(step, kind) == [step |-> step, kind |-> kind, id |-> Nobody, key |-> Hello,
                      proc |-> Nobody, answer |-> Nobody]

Init ==
    /\ sessions = [i \in Ids |-> Nobody]
    /\ live = 0
    /\ saved = SavedIds
    /\ resuming = Nobody
    /\ proc = [p \in Requests |-> [id |-> Nobody, state |-> "none", reader |-> "none"]]
    /\ pending = [p \in Requests |-> [k \in Keys \union {Hello} |-> Nobody]]
    /\ asked = [p \in Requests |-> {}]
    /\ request = [r \in Requests |-> Blank("new", "call")]
    /\ closing = [c \in Closers |-> NoClose]
    /\ troubles = 0
    /\ cut = {}
    /\ lost = 0
    /\ stray = {}
    /\ ended = {}
    /\ raced = {}

Trouble == troubles < MaxTroubles /\ troubles' = troubles + 1

Go(r, step) == request' = [request EXCEPT ![r].step = step]

Unlock(r) == resuming' = IF resuming = r THEN Nobody ELSE resuming

\* What is left of a handler: whether its client knows a new id now.
Done(r, kind) == request' = [request EXCEPT ![r] = Blank("done", kind)]
Finish(r) ==
    /\ Done(r, IF request[r].kind = "initialize" /\ Session(r) # Nobody THEN "initialize" ELSE "call")
    /\ Unlock(r)

\* The handler closes p and then goes on at step.
Close(r, p, step) ==
    /\ Go(r, step)
    /\ closing' = [closing EXCEPT ![Handler(r)] = ClosingOf(p)]

-----------------------------------------------------------------------------
(* A request comes in: post, handle.                                       *)

\* A client knows the ids it was given.
Known ==
    SavedIds \union {r \in Requests : request[r].kind = "initialize" /\ request[r].step = "done"}

Enter(r, kind, id, key, step, p) ==
    /\ request[r].step = "new"
    /\ kind \in Kinds
    /\ request' = [request EXCEPT ![r] = [step |-> step, kind |-> kind, id |-> id, key |-> key,
                                          proc |-> p, answer |-> Nobody]]
    /\ UNCHANGED <<sessions, live, saved, resuming, proc, pending, asked, closing, troubles, history>>

Initialize(r, key) == Enter(r, "initialize", r, key, "reserve", Nobody)
OneShot(r, key) == Enter(r, "oneshot", Nobody, key, "spawn", Nobody)

\* find, without its lock.
Find(r, id, key) ==
    /\ id \in Known
    /\ Enter(r, "call", id, key, IF sessions[id] # Nobody THEN "send" ELSE "queue", sessions[id])

Delete(r, id) == id \in Known /\ Enter(r, "delete", id, Hello, "forget", sessions[id])

\* find and resume under the lock: nobody else can resume what is not there.
TrustFirstLook(r) == Nobody                        \* mutated form
LookAgain(r) == sessions[request[r].id]

\* The row of a session that is being swept is too old to resume.
Stale(i) == closing[Sweeper].proc # Nobody /\ proc[closing[Sweeper].proc].id = i

FindLocked(r) ==
    /\ request[r].step = "queue"
    /\ resuming = Nobody
    /\ \/ /\ LookAgain(r) # Nobody
          /\ request' = [request EXCEPT ![r].proc = LookAgain(r), ![r].step = "send"]
          /\ UNCHANGED resuming
       \/ /\ LookAgain(r) = Nobody
          /\ request[r].id \in saved /\ ~Stale(request[r].id)
          /\ Go(r, "reserve")
          /\ resuming' = r
       \/ /\ LookAgain(r) = Nobody     \* no row, or one older than 30 minutes
          /\ Finish(r)
    /\ UNCHANGED <<sessions, live, saved, proc, pending, asked, closing, troubles, history>>

-----------------------------------------------------------------------------
(* open: a slot, a process, an entry.                                      *)

Room == live < MaxSessions

Reserve(r) ==
    /\ request[r].step = "reserve"
    /\ Room
    /\ live' = live + 1
    /\ Go(r, "spawn")
    /\ UNCHANGED <<sessions, saved, resuming, proc, pending, asked, closing, troubles, history>>

\* Which session is the idlest is left open.
Evict(r) ==
    /\ request[r].step = "reserve"
    /\ live = MaxSessions
    /\ \E p \in Mapped : WaitingOn(p) = {} /\ Close(r, p, "evicting")
    /\ UNCHANGED <<sessions, live, saved, resuming, proc, pending, asked, troubles, history>>

LimitReached(r) ==
    /\ request[r].step = "reserve"
    /\ live = MaxSessions
    /\ \A p \in Mapped : WaitingOn(p) # {}
    /\ Finish(r)
    /\ UNCHANGED <<sessions, live, saved, proc, pending, asked, closing, troubles, history>>

Slot(r) == IF request[r].kind = "oneshot" THEN 0 ELSE 1

SetPending(p, k, r) == pending' = [pending EXCEPT ![p][k] = r]

Spawn(r) ==
    /\ request[r].step = "spawn"
    /\ proc' = [proc EXCEPT ![r] = [id |-> request[r].id, state |-> "running", reader |-> "reading"]]
    /\ request' = [request EXCEPT ![r].proc = r, ![r].step = IF Slot(r) = 0 THEN "greet" ELSE "insert"]
    /\ IF Slot(r) = 0 THEN SetPending(r, Hello, r) ELSE UNCHANGED pending
    /\ UNCHANGED <<sessions, live, saved, resuming, asked, closing, troubles, history>>

SpawnFails(r) ==
    /\ request[r].step = "spawn"
    /\ Trouble
    /\ live' = live - Slot(r)
    /\ Finish(r)
    /\ UNCHANGED <<sessions, saved, proc, pending, asked, closing, history>>

\* A new session gets its row, a resumed one is greeted.
Insert(r) ==
    LET i == request[r].id
    IN  /\ request[r].step = "insert"
        /\ sessions' = [sessions EXCEPT ![i] = r]
        /\ IF i = r
           THEN saved' = saved \union {i} /\ Go(r, "send") /\ UNCHANGED pending
           ELSE SetPending(r, Hello, r) /\ Go(r, "greet") /\ UNCHANGED saved
        /\ UNCHANGED <<live, resuming, proc, asked, closing, troubles, history>>

-----------------------------------------------------------------------------
(* initialize: the handshake with a process that was resumed or is for one *)
(* request. It fails if the process stops, answers an error or is late.    *)

Greeted(r) ==
    /\ request[r].step = "greet"
    /\ pending[r][Hello] = r
    /\ proc[r].reader = "reading"
    /\ SetPending(r, Hello, Nobody)
    /\ Go(r, "send")
    /\ Unlock(r)
    /\ UNCHANGED <<sessions, live, saved, proc, asked, closing, troubles, history>>

GreetFails(r) ==
    /\ request[r].step = "greet"
    /\ SetPending(r, Hello, Nobody)
    /\ Close(r, r, "ending")
    /\ UNCHANGED <<sessions, live, saved, resuming, proc, asked, troubles, history>>

-----------------------------------------------------------------------------
(* send, and what post does with the reply: a process for one request is   *)
(* closed, and so is a session whose initialize did not go well.           *)

Proceed(r, ok) ==
    IF request[r].kind = "oneshot" \/ (request[r].kind = "initialize" /\ ~ok)
    THEN Close(r, Session(r), "ending") /\ UNCHANGED resuming
    ELSE Finish(r) /\ UNCHANGED closing

TakeAnyKey(r) == TRUE                              \* mutated form
KeyIsFree(r) == pending[Session(r)][Key(r)] = Nobody

Send(r) ==
    /\ request[r].step = "send"
    /\ IF KeyIsFree(r)
       THEN /\ SetPending(Session(r), Key(r), r)
            /\ Go(r, "write")
            /\ UNCHANGED <<resuming, closing>>
       ELSE Proceed(r, FALSE) /\ UNCHANGED pending
    /\ UNCHANGED <<sessions, live, saved, proc, asked, troubles, history>>

\* A GET, and an initialize that names a session, only find it.
OnlyFind(r) ==
    /\ request[r].step = "send"
    /\ request[r].kind = "call"
    /\ Finish(r)
    /\ UNCHANGED <<sessions, live, saved, proc, pending, asked, closing, troubles, history>>

\* The entry under the key goes, whoever made it.
Withdraw(r) ==
    /\ SetPending(Session(r), Key(r), Nobody)
    /\ cut' = (cut \union {pending[Session(r)][Key(r)]}) \ {r, Nobody}
    /\ UNCHANGED <<lost, stray, ended, raced>>

\* Somebody will read the answer.
Heard(r) == proc[Session(r)].reader = "reading"

Write(r) ==
    /\ request[r].step = "write"
    /\ \/ /\ proc[Session(r)].state \in {"running", "ending"}
          /\ asked' = [asked EXCEPT ![Session(r)] = IF Heard(r) THEN @ \union {<<Key(r), r>>} ELSE @]
          /\ Go(r, "await")
          /\ UNCHANGED <<pending, resuming, closing, history>>
       \/ /\ proc[Session(r)].state \in {"ending", "dead"}
          /\ Withdraw(r)
          /\ Proceed(r, FALSE)
          /\ UNCHANGED asked
    /\ UNCHANGED <<sessions, live, saved, proc, troubles>>

\* The process answers s. Its reader hands that to whoever waits under the key.
Deliver(p, k, s) ==
    /\ <<k, s>> \in asked[p]
    /\ proc[p].reader = "reading"
    /\ Held(p)
    /\ asked' = [asked EXCEPT ![p] = @ \ {<<k, s>>}]
    /\ SetPending(p, k, Nobody)
    /\ LET r == pending[p][k]
       IN request' = IF r # Nobody /\ ~Over(r) THEN [request EXCEPT ![r].answer = s] ELSE request
    /\ UNCHANGED <<sessions, live, saved, resuming, proc, closing, troubles, history>>

\* An answer may be an error, which fails an initialize.
Answered(r) ==
    /\ request[r].step = "await"
    /\ request[r].answer # Nobody
    /\ \E ok \in BOOLEAN : Proceed(r, ok)
    /\ Withdraw(r)
    /\ UNCHANGED <<sessions, live, saved, proc, asked, troubles>>

\* The entry went without an answer: "stopped".
Stopped(r) ==
    /\ request[r].step = "await"
    /\ request[r].answer = Nobody
    /\ pending[Session(r)][Key(r)] # r
    /\ Proceed(r, FALSE)
    /\ Withdraw(r)
    /\ UNCHANGED <<sessions, live, saved, proc, asked, troubles>>

AnswerOnly == {"await"}                            \* mutated form
Timed == {"write", "await"}

TimeOut(r) ==
    /\ request[r].step \in Timed
    /\ Proceed(r, FALSE)
    /\ Withdraw(r)
    /\ UNCHANGED <<sessions, live, saved, proc, asked, troubles>>

-----------------------------------------------------------------------------
(* close, by whoever it is.                                                *)

\* fail_pending, whether the entry of the session was there or not.
Clear(p) ==
    /\ pending' = [pending EXCEPT ![p] = [k \in Keys \union {Hello} |-> Nobody]]
    /\ cut' = cut \union {s \in Requests : ~Over(s) /\ \E k \in WaitingOn(p) : pending[p][k] = s}

FailOnce(p, there) == IF there THEN Clear(p) ELSE UNCHANGED <<pending, cut>>   \* mutated form
FailPending(p, there) == Clear(p)

\* The entry under the id of the session goes, and its process is told to end.
Remove(c) ==
    LET p == closing[c].proc
        i == proc[p].id
        there == i # Nobody /\ sessions[i] # Nobody
    IN  /\ closing[c].step = "remove"
        /\ closing' = [closing EXCEPT ![c].step = "terminate", ![c].removed = there]
        /\ sessions' = IF there THEN [sessions EXCEPT ![i] = Nobody] ELSE sessions
        /\ stray' = IF there /\ sessions[i] # p THEN stray \union {sessions[i]} ELSE stray
        /\ FailPending(p, there)
        /\ proc' = [proc EXCEPT ![p].state = IF @ = "running" THEN "ending" ELSE @]
        /\ UNCHANGED <<live, saved, resuming, asked, request, troubles, lost, ended, raced>>

Always(c) == TRUE                                  \* mutated form
TookEntry(c) == closing[c].removed

\* stdio_sessions_touch updates a row that is there.
RememberAnew(p) == saved \union {proc[p].id}       \* mutated form
Remember(p) == saved

\* What a handler does after its close.
AfterClose(c) ==
    IF c[1] # "handler" THEN UNCHANGED <<request, resuming, ended>>
    ELSE LET r == c[2] IN
        IF request[r].step = "evicting"
        THEN Go(r, "reserve") /\ UNCHANGED <<resuming, ended>>
        ELSE /\ Finish(r)
             /\ ended' = IF request[r].kind = "delete" THEN ended \union {request[r].id} ELSE ended

\* A sweep ends with a prune: the row goes, unless its session was used, and so
\* its row touched, since the sweep looked at it.
Swept(c, p) == IF c = Sweeper THEN {{}, {proc[p].id}} ELSE {{}}

Terminate(c) ==
    LET p == closing[c].proc
    IN  /\ closing[c].step = "terminate"
        /\ proc' = [proc EXCEPT ![p].state = "dead"]
        /\ live' = IF TookEntry(c) THEN live - 1 ELSE live
        /\ \E pruned \in Swept(c, p) :
               saved' = (IF closing[c].removed THEN Remember(p) ELSE saved) \ pruned
        /\ closing' = [closing EXCEPT ![c] = NoClose]
        /\ AfterClose(c)
        /\ UNCHANGED <<sessions, pending, asked, troubles, cut, lost, stray, raced>>

\* A resume of i has read its row.
Resumes(i) == resuming # Nobody /\ request[resuming].id = i

\* DELETE forgets the row before it closes what it found.
Forget(r) ==
    LET i == request[r].id
    IN  /\ request[r].step = "forget"
        /\ saved' = saved \ {i}
        /\ raced' = IF Resumes(i) \/ sessions[i] \notin {Nobody, Session(r)}
                    THEN raced \union {i} ELSE raced
        /\ IF Session(r) # Nobody
           THEN Close(r, Session(r), "ending") /\ UNCHANGED ended
           ELSE Done(r, "call") /\ ended' = ended \union {i} /\ UNCHANGED closing
        /\ UNCHANGED <<sessions, live, resuming, proc, pending, asked, troubles, cut, lost, stray>>

-----------------------------------------------------------------------------
(* The processes, their readers and the sweeper.                           *)

Crash(p) ==
    /\ proc[p].state = "running"
    /\ Trouble
    /\ proc' = [proc EXCEPT ![p].state = "dead"]
    /\ UNCHANGED <<sessions, live, saved, resuming, pending, asked, request, closing, history>>

\* The reader of p comes to an end and closes the session, if anybody has it.
EndReading(p, how, state) ==
    /\ proc[p].reader = "reading"
    /\ proc' = [proc EXCEPT ![p].reader = how, ![p].state = state]
    /\ closing' = IF Held(p) THEN [closing EXCEPT ![Reader(p)] = ClosingOf(p)] ELSE closing
    /\ asked' = [asked EXCEPT ![p] = {}]
    /\ UNCHANGED <<sessions, live, saved, resuming, pending, request, history>>

\* A process that was told to end does, or has.
ReadToEnd(p) ==
    proc[p].state \in {"ending", "dead"} /\ EndReading(p, "ended", "dead") /\ UNCHANGED troubles

\* read_lines gives up on a line above MAX_LINE_BYTES; the process runs on.
OversizedLine(p) == proc[p].state = "running" /\ Trouble /\ EndReading(p, "gave_up", "running")

\* kill_on_drop.
Drop(p) ==
    /\ proc[p].state \in {"running", "ending"}
    /\ ~Held(p)
    /\ proc' = [proc EXCEPT ![p].state = "dead", ![p].reader = "ended"]
    /\ asked' = [asked EXCEPT ![p] = {}]
    /\ UNCHANGED <<sessions, live, saved, resuming, pending, request, closing, troubles, history>>

\* sweep closes what nobody has used for 30 minutes, though a request may just
\* have found it and use it yet.
Unused(p) ==
    \A r \in Requests : Session(r) = p =>
        Over(r) \/ request[r].step \in {"forget", "ending"} \/ (request[r].step = "send" /\ r # p)

Sweep ==
    /\ closing[Sweeper].step = "none"
    /\ Trouble
    /\ \E p \in Mapped :
        /\ Unused(p)
        /\ closing' = [closing EXCEPT ![Sweeper] = ClosingOf(p)]
    /\ UNCHANGED <<sessions, live, saved, resuming, proc, pending, asked, request, history>>

\* The client leaves and its handler is dropped where it waits. A close that
\* was cut off never gives its slot back.
Leave(r) ==
    LET c == Handler(r)
    IN  /\ \/ request[r].step \in {"queue", "greet", "write", "await"}
           \/ closing[c].step = "terminate"
        /\ Trouble
        /\ lost' = IF closing[c].removed THEN lost + 1 ELSE lost
        /\ closing' = [closing EXCEPT ![c] = NoClose]
        /\ Done(r, "call")
        /\ Unlock(r)
        /\ cut' = cut \ {r}
        /\ UNCHANGED <<sessions, live, saved, proc, pending, asked, stray, ended, raced>>

-----------------------------------------------------------------------------
Arrive(r) ==
    \/ \E k \in Keys : Initialize(r, k) \/ OneShot(r, k)
    \/ \E i \in Ids, k \in Keys : Find(r, i, k)
    \/ \E i \in Ids : Delete(r, i)

Open(r) ==
    \/ FindLocked(r) \/ Reserve(r) \/ Evict(r) \/ LimitReached(r)
    \/ Spawn(r) \/ Insert(r) \/ Greeted(r) \/ GreetFails(r)

Converse(r) == Send(r) \/ OnlyFind(r) \/ Answered(r) \/ Stopped(r) \/ TimeOut(r)

Process(p) ==
    \/ \E k \in Keys, s \in Requests : Deliver(p, k, s)
    \/ Crash(p) \/ ReadToEnd(p) \/ OversizedLine(p) \/ Drop(p)

Next ==
    \/ \E r \in Requests :
        \/ Arrive(r) \/ Open(r) \/ SpawnFails(r) \/ Converse(r) \/ Write(r) \/ Forget(r) \/ Leave(r)
        \/ Process(r)
    \/ \E c \in Closers : Remove(c) \/ Terminate(c)
    \/ Sweep

Spec == Init /\ [][Next]_vars

\* A handler that can go on does, the lock of tokio is fair, and terminate gives
\* up after two seconds. A process need not read, answer or end.
Fairness ==
    /\ \A r \in Requests : WF_vars(Open(r)) /\ SF_vars(FindLocked(r))
    /\ \A r \in Requests : WF_vars(Converse(r)) /\ WF_vars(Forget(r))
    /\ \A c \in Closers : WF_vars(Remove(c)) /\ WF_vars(Terminate(c))

FairSpec == Spec /\ Fairness

-----------------------------------------------------------------------------
(* Properties                                                              *)

RequestSteps ==
    {"new", "queue", "reserve", "evicting", "spawn", "insert", "greet", "send", "write", "await",
     "forget", "ending", "done"}

RequestState ==
    [step : RequestSteps, kind : {"initialize", "oneshot", "call", "delete"},
     id : Ids \union {Nobody}, key : Keys \union {Hello}, proc : Requests \union {Nobody},
     answer : Requests \union {Nobody}]

ProcState ==
    [id : Ids \union {Nobody}, state : {"none", "running", "ending", "dead"},
     reader : {"none", "reading", "ended", "gave_up"}]

ClosingState ==
    [step : {"none", "remove", "terminate"}, proc : Requests \union {Nobody}, removed : BOOLEAN]

\* Every variable has its shape, and no more slots are taken than there are.
TypeOK ==
    /\ sessions \in [Ids -> Requests \union {Nobody}]
    /\ live \in 0..MaxSessions
    /\ saved \in SUBSET Ids
    /\ resuming \in Requests \union {Nobody}
    /\ proc \in [Requests -> ProcState]
    /\ pending \in [Requests -> [Keys \union {Hello} -> Requests \union {Nobody}]]
    /\ asked \in [Requests -> SUBSET (Keys \X Requests)]
    /\ request \in [Requests -> RequestState]
    /\ closing \in [Closers -> ClosingState]
    /\ troubles \in 0..MaxTroubles
    /\ cut \in SUBSET Requests
    /\ lost \in 0..MaxTroubles
    /\ stray \in SUBSET Requests
    /\ ended \in SUBSET Ids
    /\ raced \in SUBSET Ids

Opening == {r \in Requests : request[r].step \in {"spawn", "insert"} /\ Slot(r) = 1}

\* sessions_live is what the slots are used for: an entry, a process being
\* started, an entry being closed, or a close that was cut off. It is neither
\* given back twice when two close one session, nor never (mcp_stdio.rs:146-206).
SlotsAccounted ==
    live = Cardinality(Mapped)
         + Cardinality(Opening)
         + Cardinality({c \in Closers : closing[c].removed})
         + lost

\* An answer never goes past the request it is for, while that one waits, to
\* another with the same key: a client that reuses the key of a request that
\* timed out can get its late answer, one that reuses the key of a waiting
\* request cannot (mcp_stdio.rs:281-315, 58-83).
Waits(s) == request[s].step = "await" /\ request[s].answer = Nobody /\ s \notin cut

AnswersReachTheirRequest ==
    \A r \in Requests :
        LET s == request[r].answer
        IN  s \in Requests \ {r} => ~Waits(s)

\* Nobody is left waiting on a process that has ended: whoever comes in while
\* others close its session is told by the close of its reader. Only a reader
\* that gave up before leaves them to the timeout (mcp_stdio.rs:79-83, 146-148,
\* 225-238, process.rs:149).
NobodyWaitsOnTheDead ==
    \A r \in Requests :
        Waits(r) /\ proc[Session(r)].state = "dead" =>
            \/ proc[Session(r)].reader \in {"reading", "gave_up"}
            \/ closing[Reader(Session(r))].step = "remove"

\* A session id has one process to talk to, whatever is found, resumed, evicted,
\* swept and closed at once, but for a process whose entry was taken by the
\* close of an earlier one (mcp_stdio.rs:336-367, 147; tests/servers.rs:1062).
OneProcessPerSession ==
    \A p, q \in Requests \ stray :
        p # q /\ proc[p].id = proc[q].id /\ proc[p].id # Nobody
            => ~(proc[p].state = "running" /\ proc[q].state = "running")

\* A session whose DELETE has returned is neither there nor in the table, but
\* for one whose row a resume had read after the DELETE looked (mcp_stdio.rs:471-478, 142).
EndedStaysEnded ==
    \A i \in ended : i \notin saved /\ (sessions[i] = Nobody \/ i \in raced)

\* Every request that comes in is answered or its client left, though processes
\* do not read, do not answer, die and talk too much (mcp_stdio.rs:253-317).
EveryRequestReturns ==
    \A r \in Requests : request[r].step # "new" ~> Over(r)

=============================================================================
