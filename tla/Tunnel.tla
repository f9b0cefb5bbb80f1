-------------------------------- MODULE Tunnel --------------------------------
(***************************************************************************)
(* One computer, one public route: daemons that start, switch the tunnel,  *)
(* stop, crash or run beside one another (run.rs, daemon.rs, serve.rs      *)
(* Daemon), the route table of opentunnel they all edit by name            *)
(* (tunnels/opentunnel.rs), and the people who choose a tunnel through the *)
(* control socket (control.rs, cli/status.rs) and may not wait for the     *)
(* answer.                                                                 *)
(***************************************************************************)
EXTENDS Naturals, FiniteSets

CONSTANTS
    Daemons,       \* processes `porchlight serve`, each used once
    Requests,      \* people who choose a tunnel, each used once
    Ports,         \* local ports
    FirstPort,     \* the gateway port the database starts with
    OwnUrls,       \* https addresses of tunnels of one's own
    Nobody,        \* no daemon, no request
    NoPort,        \* opentunnel has no route for porchlight
    MaxFailures,   \* bound: calls of opentunnel that fail
    MaxKills,      \* bound: daemons killed
    MaxCancels,    \* bound: requests that do not wait for their answer
    MaxForeign     \* bound: ports other programs take

ASSUME TunnelAssumption ==
    /\ Nobody \notin Daemons \union Requests /\ Daemons \intersect Requests = {}
    /\ FirstPort \in Ports /\ NoPort \notin Ports
    /\ MaxFailures \in Nat /\ MaxKills \in Nat /\ MaxCancels \in Nat
    /\ MaxForeign \in Nat /\ MaxForeign + Cardinality(Daemons) <= Cardinality(Ports)

Provider == "opentunnel"
Choices == OwnUrls \union {Provider}
Unset == "unset"
ProviderUrl == "https://porchlight.opentunnel.xyz"
Urls == OwnUrls \union {ProviderUrl}

\* An address of one's own is not the one opentunnel gives out.
ASSUME OwnAssumption == {Provider, ProviderUrl, Unset} \intersect OwnUrls = {}

VARIABLES
    route,      \* where opentunnel sends what comes for porchlight
    saved,      \* "tunnel" in porchlight.json
    stored,     \* the gateway port in the database
    socket,     \* the daemon that bound the control socket last
    daemon,     \* the processes: step, port, tunnel they start with
    active,     \* Daemon.active is Some
    url,        \* Daemon.public_url
    lock,       \* who holds Daemon.active's lock
    work,       \* where each start, stop or request is inside connect or close
    alone,      \* no other daemon has run since this one started
    unsure,     \* a switch of this daemon failed or was left half way
    overtaken,  \* a removal nobody waited for any more took this one's route away
    foreign,    \* ports other programs have
    count       \* failures, kills, cancels so far

vars == <<route, saved, stored, socket, daemon, active, url, lock, work, alone, unsure, overtaken,
          foreign, count>>

Actors == Daemons \union Requests

Alive(d) == daemon[d].step \notin {"off", "ended"}
Answers(d) == d # Nobody /\ daemon[d].step = "up"

\* daemon_state asks for the tunnel under its lock, and gives up after 20 seconds.
MayNotAnswer(d) == Answers(d) => lock[d] # Nobody

\* A listener keeps the port it is bound to until its process ends.
Bound(p) ==
    \/ p \in foreign
    \/ \E d \in Daemons : daemon[d].step \in {"opening", "up", "closing"} /\ daemon[d].port = p

NoWork == [step |-> "none", at |-> Nobody, choice |-> Unset, current |-> Unset]
At(x) == work[x].at
Goes(x, step) == work' = [work EXCEPT ![x].step = step]
Calling == {"unroute", "create", "list", "remove", "add", "info", "undo"}

\* What is left of a call when the handler or the daemon that made it is gone:
\* the opentunnel it had started goes on, and its answer reaches nobody.
LeftCalls == {"removing", "adding"}
Left(step) ==
    CASE step \in {"unroute", "remove", "undo", "removing"} -> "removing"
      [] step \in {"add", "adding"} -> "adding"
      [] OTHER -> "failed"

Init ==
    /\ route = NoPort
    /\ saved \in {Unset, Provider} \union OwnUrls
    /\ stored = FirstPort
    /\ socket = Nobody
    /\ daemon = [d \in Daemons |-> [step |-> "off", port |-> NoPort, tunnel |-> Unset]]
    /\ active = [d \in Daemons |-> FALSE]
    /\ url = [d \in Daemons |-> Unset]
    /\ lock = [d \in Daemons |-> Nobody]
    /\ work = [x \in Actors |-> NoWork]
    /\ alone = [d \in Daemons |-> FALSE]
    /\ unsure = [d \in Daemons |-> FALSE]
    /\ overtaken = [d \in Daemons |-> FALSE]
    /\ foreign = {}
    /\ count = [failures |-> 0, kills |-> 0, cancels |-> 0]

-----------------------------------------------------------------------------
(* connect and close of a Daemon, for actor x; each call of opentunnel is  *)
(* a step of its own.                                                      *)

\* The old tunnel leaves active and its keep_serving is aborted.
TakeLock(x) ==
    /\ work[x].step = "lock"
    /\ lock[At(x)] = Nobody
    /\ lock' = [lock EXCEPT ![At(x)] = x]
    /\ active' = [active EXCEPT ![At(x)] = FALSE]
    /\ Goes(x, IF active[At(x)] THEN "unroute" ELSE "open")
    /\ UNCHANGED <<route, saved, stored, socket, daemon, url, alone, unsure, overtaken, foreign, count>>

\* OpenTunnel::close: the route goes by name, whoever made it.
Unroute(x) ==
    /\ work[x].step = "unroute"
    /\ route' = NoPort
    /\ Goes(x, "open")
    /\ UNCHANGED <<saved, stored, socket, daemon, active, url, lock, alone, unsure, overtaken, foreign, count>>

\* What close and the choice of one's own address end with.
OpenNothing(x) ==
    /\ work[x].step = "open"
    /\ work[x].choice # Provider
    /\ url' = [url EXCEPT ![At(x)] = IF work[x].choice = Unset THEN @ ELSE work[x].choice]
    /\ unsure' = [unsure EXCEPT ![At(x)] = @ /\ work[x].choice = Unset]
    /\ lock' = [lock EXCEPT ![At(x)] = Nobody]
    /\ Goes(x, "done")
    /\ UNCHANGED <<route, saved, stored, socket, daemon, active, alone, overtaken, foreign, count>>

OpenProvider(x) ==
    /\ work[x].step = "open"
    /\ work[x].choice = Provider
    /\ Goes(x, "create")
    /\ UNCHANGED <<route, saved, stored, socket, daemon, active, url, lock, alone, unsure, overtaken, foreign, count>>

\* ensure_tunnel
Create(x) ==
    /\ work[x].step = "create"
    /\ Goes(x, "list")
    /\ UNCHANGED <<route, saved, stored, socket, daemon, active, url, lock, alone, unsure, overtaken, foreign, count>>

\* ensure_route: the route has to lead to this very port.
AnyRouteMatches(p) == route # NoPort                \* mutated form
RouteMatches(p) == route = p

List(x) ==
    /\ work[x].step = "list"
    /\ Goes(x, IF RouteMatches(daemon[At(x)].port) THEN "info"
               ELSE IF route # NoPort THEN "remove" ELSE "add")
    /\ overtaken' = [overtaken EXCEPT ![At(x)] = @ /\ ~RouteMatches(daemon[At(x)].port)]
    /\ UNCHANGED <<route, saved, stored, socket, daemon, active, url, lock, alone, unsure, foreign, count>>

Remove(x) ==
    /\ work[x].step = "remove"
    /\ route' = NoPort
    /\ Goes(x, "add")
    /\ UNCHANGED <<saved, stored, socket, daemon, active, url, lock, alone, unsure, overtaken, foreign, count>>

\* opentunnel does not add a name it has: somebody else was quicker.
Add(x) ==
    /\ work[x].step = "add"
    /\ IF route = NoPort
       THEN route' = daemon[At(x)].port /\ Goes(x, "info")
                /\ overtaken' = [overtaken EXCEPT ![At(x)] = FALSE]
                /\ UNCHANGED <<saved, stored, socket, daemon, active, url, lock, alone, unsure, foreign, count>>
       ELSE Goes(x, "failed") /\ lock' = [lock EXCEPT ![At(x)] = Nobody]
                /\ unsure' = [unsure EXCEPT ![At(x)] = TRUE]
                /\ UNCHANGED <<route, saved, stored, socket, daemon, active, url, alone, overtaken, foreign, count>>

\* The tunnel is open: keep_serving is spawned.
InfoKeepsUrl(x) ==                                  \* mutated form
    /\ work[x].step = "info"
    /\ active' = [active EXCEPT ![At(x)] = TRUE]
    /\ unsure' = [unsure EXCEPT ![At(x)] = FALSE]
    /\ lock' = [lock EXCEPT ![At(x)] = Nobody]
    /\ Goes(x, "done")
    /\ UNCHANGED <<route, saved, stored, socket, daemon, url, alone, overtaken, foreign, count>>
Info(x) ==
    /\ work[x].step = "info"
    /\ active' = [active EXCEPT ![At(x)] = TRUE]
    /\ url' = [url EXCEPT ![At(x)] = ProviderUrl]
    /\ unsure' = [unsure EXCEPT ![At(x)] = FALSE]
    /\ lock' = [lock EXCEPT ![At(x)] = Nobody]
    /\ Goes(x, "done")
    /\ UNCHANGED <<route, saved, stored, socket, daemon, alone, overtaken, foreign, count>>

\* open takes its route back when info fails.
Undo(x) ==
    /\ work[x].step = "undo"
    /\ route' = NoPort
    /\ lock' = [lock EXCEPT ![At(x)] = Nobody]
    /\ Goes(x, "failed")
    /\ UNCHANGED <<saved, stored, socket, daemon, active, url, alone, unsure, overtaken, foreign, count>>

\* A call of opentunnel fails. close does not care, and neither does undo.
CallFails(x) ==
    /\ work[x].step \in Calling
    /\ count.failures < MaxFailures
    /\ count' = [count EXCEPT !.failures = @ + 1]
    /\ Goes(x, CASE work[x].step = "unroute" -> "open"
                 [] work[x].step = "info" -> "undo"
                 [] OTHER -> "failed")
    /\ lock' = [lock EXCEPT ![At(x)] = IF work[x].step \in {"unroute", "info"} THEN @ ELSE Nobody]
    /\ unsure' = [unsure EXCEPT ![At(x)] = @ \/ work[x].step # "unroute"]
    /\ UNCHANGED <<route, saved, stored, socket, daemon, active, url, alone, overtaken, foreign>>

\* What was left behind takes its effect, or fails without anybody's knowing.
LateCall(x) ==
    /\ work[x].step \in LeftCalls
    /\ Goes(x, "failed")
    /\ \/ work[x].step = "removing" /\ route' = NoPort
       \/ work[x].step = "adding" /\ route' = IF route = NoPort THEN daemon[At(x)].port ELSE route
       \/ UNCHANGED route
    /\ overtaken' = [d \in Daemons |->
           overtaken[d] \/ (route' # route /\ route = daemon[d].port /\ route # NoPort)]
    /\ UNCHANGED <<saved, stored, socket, daemon, active, url, lock, alone, unsure, foreign, count>>

Connect(x) ==
    TakeLock(x) \/ Unroute(x) \/ OpenNothing(x) \/ OpenProvider(x) \/ Create(x)
        \/ List(x) \/ Remove(x) \/ Add(x) \/ Info(x) \/ Undo(x)

-----------------------------------------------------------------------------
(* A daemon's life.                                                        *)

\* serve: unless one answers already.
Start(d) ==
    /\ daemon[d].step = "off"
    /\ MayNotAnswer(socket)
    /\ daemon' = [daemon EXCEPT ![d].step = "choosing"]
    /\ alone' = [e \in Daemons |->
           IF e = d THEN \A f \in Daemons : ~Alive(f) ELSE alone[e] /\ ~Alive(e)]
    /\ UNCHANGED <<route, saved, stored, socket, active, url, lock, work, unsure, overtaken, foreign, count>>

\* resolve_tunnel
ResolveTunnel(d) ==
    /\ daemon[d].step = "choosing"
    /\ saved' = IF saved = Unset THEN Provider ELSE saved
    /\ daemon' = [daemon EXCEPT ![d].step = "binding", ![d].tunnel = saved']
    /\ UNCHANGED <<route, stored, socket, active, url, lock, work, alone, unsure, overtaken, foreign, count>>

\* choose_ports: one's own tunnel needs the stored port, the provider takes any.
ChoosePorts(d) ==
    /\ daemon[d].step = "binding" /\ daemon[d].port = NoPort
    /\ IF ~Bound(stored)
       THEN daemon' = [daemon EXCEPT ![d].port = stored] /\ UNCHANGED stored
       ELSE IF daemon[d].tunnel # Provider
       THEN daemon' = [daemon EXCEPT ![d].step = "ended"] /\ UNCHANGED stored
       ELSE \E p \in Ports : /\ ~Bound(p) /\ stored' = p
                             /\ daemon' = [daemon EXCEPT ![d].port = p]
    /\ UNCHANGED <<route, saved, socket, active, url, lock, work, alone, unsure, overtaken, foreign, count>>

\* The port may be taken since it was found free.
Bind(d) ==
    /\ daemon[d].step = "binding" /\ daemon[d].port # NoPort
    /\ IF Bound(daemon[d].port)
       THEN daemon' = [daemon EXCEPT ![d].step = "ended"] /\ UNCHANGED work
       ELSE /\ daemon' = [daemon EXCEPT ![d].step = "opening"]
            /\ work' = [work EXCEPT ![d] =
                   [NoWork EXCEPT !.step = "lock", !.at = d, !.choice = daemon[d].tunnel]]
    /\ UNCHANGED <<route, saved, stored, socket, active, url, lock, alone, unsure, overtaken, foreign, count>>

\* The process ends, and what it was doing with it, but for the calls of opentunnel.
Ends(d) ==
    /\ daemon' = [daemon EXCEPT ![d].step = "ended"]
    /\ work' = [x \in Actors |-> IF At(x) # d THEN work[x]
                                 ELSE [work[x] EXCEPT !.step = Left(@)]]
    /\ lock' = [lock EXCEPT ![d] = Nobody]

StartFails(d) ==
    /\ daemon[d].step = "opening" /\ work[d].step = "failed"
    /\ Ends(d)
    /\ UNCHANGED <<route, saved, stored, socket, active, url, alone, unsure, overtaken, foreign, count>>

\* The socket cannot be opened after the tunnel was: nobody closes the tunnel.
SocketFails(d) ==
    /\ daemon[d].step = "opening" /\ work[d].step = "done"
    /\ count.failures < MaxFailures
    /\ count' = [count EXCEPT !.failures = @ + 1]
    /\ Ends(d)
    /\ UNCHANGED <<route, saved, stored, socket, active, url, alone, unsure, overtaken, foreign>>

\* control::serve replaces whatever is at the path.
OpenSocket(d) ==
    /\ daemon[d].step = "opening" /\ work[d].step = "done"
    /\ socket' = d
    /\ daemon' = [daemon EXCEPT ![d].step = "up"]
    /\ work' = [work EXCEPT ![d] = NoWork]
    /\ UNCHANGED <<route, saved, stored, active, url, lock, alone, unsure, overtaken, foreign, count>>

\* SIGTERM or Ctrl-C: Running::shutdown. Requests that were accepted go on.
Stop(d) ==
    /\ daemon[d].step = "up"
    /\ daemon' = [daemon EXCEPT ![d].step = "closing"]
    /\ work' = [work EXCEPT ![d] = [NoWork EXCEPT !.step = "lock", !.at = d]]
    /\ UNCHANGED <<route, saved, stored, socket, active, url, lock, alone, unsure, overtaken, foreign, count>>

\* The socket's file goes, also when it is another daemon's by now.
Exit(d) ==
    /\ daemon[d].step = "closing" /\ work[d].step = "done"
    /\ socket' = Nobody
    /\ Ends(d)
    /\ UNCHANGED <<route, saved, stored, active, url, alone, unsure, overtaken, foreign, count>>

\* A crash, or SIGTERM before the handler is there.
Kill(d) ==
    /\ Alive(d)
    /\ count.kills < MaxKills
    /\ count' = [count EXCEPT !.kills = @ + 1]
    /\ Ends(d)
    /\ UNCHANGED <<route, saved, stored, socket, active, url, alone, unsure, overtaken, foreign>>

\* Another program takes a port.
Occupy(p) ==
    /\ ~Bound(p)
    /\ Cardinality(foreign) < MaxForeign
    /\ foreign' = foreign \union {p}
    /\ UNCHANGED <<route, saved, stored, socket, daemon, active, url, lock, work, alone, unsure, overtaken, count>>

Run(d) ==
    \/ ResolveTunnel(d) \/ ChoosePorts(d) \/ Bind(d) \/ StartFails(d) \/ OpenSocket(d) \/ Exit(d)
    \/ Connect(d)

-----------------------------------------------------------------------------
(* A person chooses a tunnel: use_tunnel, POST /tunnel, Daemon::set_tunnel.*)

\* The choice is saved whether a daemon runs or not.
Save(r, choice) ==
    /\ work[r].step = "none"
    /\ saved' = choice
    /\ \E step \in {"ask", "done"} :
          /\ step = "ask" => Answers(socket)
          /\ step = "done" => MayNotAnswer(socket)
          /\ work' = [work EXCEPT ![r] = [NoWork EXCEPT !.step = step, !.choice = choice]]
    /\ UNCHANGED <<route, stored, socket, daemon, active, url, lock, alone, unsure, overtaken, foreign, count>>

\* public_url is read before the lock is waited for.
Ask(r) ==
    /\ work[r].step = "ask"
    /\ work' = [work EXCEPT ![r] =
           IF Answers(socket) THEN [@ EXCEPT !.step = "compare", !.at = socket, !.current = url[socket]]
           ELSE [@ EXCEPT !.step = "failed"]]
    /\ UNCHANGED <<route, saved, stored, socket, daemon, active, url, lock, alone, unsure, overtaken, foreign, count>>

Unchanged(r) ==
    IF active[At(r)] THEN work[r].choice = Provider ELSE work[r].choice = work[r].current

Compare(r) ==
    /\ work[r].step = "compare"
    /\ lock[At(r)] = Nobody
    /\ Goes(r, IF Unchanged(r) THEN "done" ELSE "lock")
    /\ UNCHANGED <<route, saved, stored, socket, daemon, active, url, lock, alone, unsure, overtaken, foreign, count>>

\* After 20 seconds the caller closes the connection and the handler is dropped where
\* it waits.
Cancel(r) ==
    /\ work[r].step \in Calling \union {"compare", "lock"}
    /\ count.cancels < MaxCancels
    /\ count' = [count EXCEPT !.cancels = @ + 1]
    /\ Goes(r, Left(work[r].step))
    /\ lock' = [lock EXCEPT ![At(r)] = IF @ = r THEN Nobody ELSE @]
    /\ unsure' = [unsure EXCEPT ![At(r)] = @ \/ lock[At(r)] = r]
    /\ UNCHANGED <<route, saved, stored, socket, daemon, active, url, alone, overtaken, foreign>>

Switch(r) == Ask(r) \/ Compare(r) \/ Connect(r)

Next ==
    \/ \E d \in Daemons : Start(d) \/ Run(d) \/ SocketFails(d) \/ Stop(d) \/ Kill(d)
    \/ \E r \in Requests : Switch(r) \/ Cancel(r) \/ \E choice \in Choices : Save(r, choice)
    \/ \E x \in Actors : CallFails(x) \/ LateCall(x)
    \/ \E p \in Ports : Occupy(p)

Spec == Init /\ [][Next]_vars

-----------------------------------------------------------------------------
(* Properties.                                                             *)

DaemonState ==
    [step : {"off", "choosing", "binding", "opening", "up", "closing", "ended"},
     port : Ports \union {NoPort}, tunnel : Choices \union {Unset}]

WorkSteps == {"none", "ask", "compare", "lock", "open", "done", "failed"} \union Calling \union LeftCalls

WorkState ==
    [step : WorkSteps, at : Daemons \union {Nobody}, choice : Choices \union {Unset},
     current : Urls \union {Unset}]

\* Every variable keeps its type, and failures stay within their bounds.
TypeOK ==
    /\ route \in Ports \union {NoPort} /\ stored \in Ports
    /\ saved \in Choices \union {Unset}
    /\ socket \in Daemons \union {Nobody}
    /\ daemon \in [Daemons -> DaemonState]
    /\ active \in [Daemons -> BOOLEAN]
    /\ url \in [Daemons -> Urls \union {Unset}]
    /\ lock \in [Daemons -> Actors \union {Nobody}]
    /\ work \in [Actors -> WorkState]
    /\ alone \in [Daemons -> BOOLEAN] /\ unsure \in [Daemons -> BOOLEAN]
    /\ overtaken \in [Daemons -> BOOLEAN]
    /\ foreign \in SUBSET Ports
    /\ count \in [failures : 0..MaxFailures, kills : 0..MaxKills, cancels : 0..MaxCancels]

\* A daemon that has had the computer to itself since it started is reached by the
\* commands (control.rs:203) and, with a tunnel that is open and nobody switching it,
\* by its clients: the route leads to its port, whatever a daemon before it left behind
\* when it crashed, failed to start, or was left half way through a switch
\* (opentunnel.rs:133). The one thing that takes the route of such a daemon away is a
\* "route remove" of a request that was dropped or of a daemon that ended: the
\* opentunnel it had started (opentunnel.rs:65) goes on and may come after the route
\* was seen or made anew. An add that comes late takes nothing away.
SoleDaemonIsReached ==
    \A d \in Daemons : Answers(d) /\ alone[d] =>
        /\ socket = d
        /\ active[d] /\ lock[d] = Nobody /\ ~overtaken[d] => route = daemon[d].port

\* The address a daemon gives its clients is one it serves (serve.rs:57): while nobody
\* switches the tunnel it is that of the open tunnel, or one's own, unless the last
\* switch failed or the person who asked for it left before it ended.
AddressIsServed ==
    \A d \in Daemons : Answers(d) /\ lock[d] = Nobody /\ ~unsure[d] =>
        (url[d] = ProviderUrl) <=> active[d]
=============================================================================
