---------------------------- MODULE TunnelProofs ----------------------------
(***************************************************************************)
(* Proofs about Tunnel, for every number of daemons, of people who choose  *)
(* a tunnel, of ports, crashes, failures and dropped requests. One         *)
(* inductive invariant, IInv.                                              *)
(***************************************************************************)
EXTENDS Tunnel, TLAPS

Holding == Calling \union {"open"}
Listening == {"opening", "up", "closing"}

\* Whoever waits for a daemon's lock or has it is with a daemon that listens; a
\* daemon only opens its own tunnel before it is up and closes it when it stops.
WorkInv ==
    \A x \in Actors :
        /\ work[x].step = "none" => At(x) = Nobody
        /\ work[x].step \in Holding \union {"lock", "compare"} =>
              At(x) \in Daemons /\ daemon[At(x)].step \in Listening
        /\ work[x].step \in LeftCalls => At(x) \in Daemons
        /\ x \in Daemons /\ work[x].step # "none" =>
              /\ At(x) = x /\ daemon[x].step \in {"opening", "closing", "ended"}
              /\ daemon[x].step = "opening" => work[x].choice # Unset
        /\ x \in Requests /\ work[x].step # "none" => work[x].choice # Unset

\* A daemon that is past resolve_tunnel has a tunnel to open, and opens none before;
\* one that listens has a port.
FreshInv ==
    \A d \in Daemons :
        /\ daemon[d].step \in {"binding", "opening"} => daemon[d].tunnel # Unset
        /\ daemon[d].step \in {"off", "choosing", "binding"} => ~active[d]
        /\ daemon[d].step \in Listening => daemon[d].port # NoPort

\* The lock has the holder that thinks so, and while it is held no tunnel is open.
LockInv ==
    /\ \A d \in Daemons : lock[d] # Nobody =>
           At(lock[d]) = d /\ work[lock[d]].step \in Holding /\ ~active[d]
    /\ \A x \in Actors : work[x].step \in Holding => lock[At(x)] = x

\* Only a switch that failed takes its route back.
UndoInv == \A x \in Actors : work[x].step = "undo" => unsure[At(x)]

AloneInv ==
    \A d, e \in Daemons : alone[d] /\ Alive(d) /\ Alive(e) => d = e

\* The route leads to a daemon on its own, from the moment it has seen or made it and
\* until a removal that was left behind takes it away.
RouteInv ==
    \A d \in Daemons : alone[d] /\ daemon[d].step \in Listening /\ ~overtaken[d] =>
        /\ active[d] => route = daemon[d].port
        /\ \A x \in Actors : work[x].step = "info" /\ At(x) = d => route = daemon[d].port

SocketInv ==
    \A d \in Daemons : alone[d] /\ daemon[d].step = "up" => socket = d

UrlInv ==
    \A d \in Daemons : daemon[d].step \notin {"closing", "ended"} /\ lock[d] = Nobody /\ ~unsure[d] =>
        ((url[d] = ProviderUrl) <=> active[d])

IInv ==
    /\ TypeOK
    /\ WorkInv /\ FreshInv
    /\ LockInv /\ UndoInv
    /\ AloneInv /\ RouteInv
    /\ SocketInv /\ UrlInv

-----------------------------------------------------------------------------
(* How the helpers of the actions keep the types.                          *)

LEMMA GoesType ==
  ASSUME TypeOK, NEW x \in Actors, NEW step \in WorkSteps, Goes(x, step)
  PROVE  work' \in [Actors -> WorkState]
<1>1. [work[x] EXCEPT !.step = step] \in WorkState
  BY DEF TypeOK, WorkState
<1>2. QED BY <1>1 DEF TypeOK, Goes

\* Whoever waits for the lock or has it is with a daemon.
LEMMA WithDaemon ==
  ASSUME WorkInv, NEW x \in Actors, work[x].step \in Holding \union {"lock", "compare"}
  PROVE  At(x) \in Daemons
  BY DEF WorkInv

-----------------------------------------------------------------------------
(* One lemma per action: it keeps IInv.                                    *)


\* The lock is taken and the open tunnel leaves active.
LEMMA TakeLockStep ==
  ASSUME IInv, NEW x \in Actors, TakeLock(x)
  PROVE  IInv'
<1> USE TunnelAssumption, OwnAssumption DEF Provider, Unset, ProviderUrl
<1>0. /\ TypeOK /\ WorkInv /\ FreshInv /\ LockInv
      /\ UndoInv /\ AloneInv /\ RouteInv /\ SocketInv
      /\ UrlInv
  BY DEF IInv
<1>1. TypeOK'
  <2>1. PICK step \in WorkSteps : Goes(x, step)
    BY <1>0 DEF TakeLock, WorkSteps, Calling
  <2>2. At(x) \in Daemons
    BY <1>0, WithDaemon DEF TakeLock, Holding, Calling
  <2>3. work' \in [Actors -> WorkState]
    BY <1>0, <2>1, GoesType
  <2>5. QED BY <1>0, <2>2, <2>3 DEF TakeLock, TypeOK, Urls
<1>2. WorkInv'
  BY <1>0 DEF TakeLock, Goes, WorkInv, LockInv, TypeOK, DaemonState, WorkState, Actors, Choices,
      Calling, Holding, LeftCalls, At, Alive, Listening
<1>3. FreshInv'
  BY <1>0 DEF TakeLock, Goes, FreshInv, WorkInv, TypeOK, DaemonState, WorkState, Actors,
      Choices, Calling, Holding, LeftCalls, At, Alive, Listening
<1>4. LockInv'
  BY <1>0 DEF TakeLock, Goes, LockInv, WorkInv, FreshInv, TypeOK, DaemonState, WorkState,
      Actors, Choices, Calling, Holding, LeftCalls, At, Alive, Listening
<1>5. UndoInv'
  BY <1>0 DEF TakeLock, Goes, UndoInv, LockInv, WorkInv, TypeOK, DaemonState, WorkState, Actors,
      Choices, Calling, Holding, LeftCalls, At, Alive, Listening
<1>6. AloneInv'
  BY <1>0 DEF TakeLock, Goes, AloneInv, TypeOK, DaemonState, WorkState, Actors, Choices,
      Calling, Holding, LeftCalls, At, Alive, Listening
<1>7. RouteInv'
  BY <1>0 DEF TakeLock, Goes, RouteInv, LockInv, WorkInv, FreshInv, AloneInv, RouteMatches,
      TypeOK, DaemonState, WorkState, Actors, Choices, Calling, Holding, LeftCalls, At, Alive, Listening
<1>8. SocketInv'
  BY <1>0 DEF TakeLock, Goes, SocketInv, AloneInv, WorkInv, TypeOK, DaemonState, WorkState,
      Actors, Choices, Calling, Holding, LeftCalls, At, Alive, Listening
<1>9. UrlInv'
  BY <1>0 DEF TakeLock, Goes, UrlInv, LockInv, WorkInv, FreshInv, UndoInv, Urls, TypeOK,
      DaemonState, WorkState, Actors, Choices, Calling, Holding, LeftCalls, At, Alive, Listening
<1>10. QED BY <1>1, <1>2, <1>3, <1>4, <1>5, <1>6, <1>7, <1>8, <1>9 DEF IInv

\* Its route goes.
LEMMA UnrouteStep ==
  ASSUME IInv, NEW x \in Actors, Unroute(x)
  PROVE  IInv'
<1> USE TunnelAssumption, OwnAssumption DEF Provider, Unset, ProviderUrl
<1>0. /\ TypeOK /\ WorkInv /\ FreshInv /\ LockInv
      /\ UndoInv /\ AloneInv /\ RouteInv /\ SocketInv
      /\ UrlInv
  BY DEF IInv
<1>1. TypeOK'
  <2>1. PICK step \in WorkSteps : Goes(x, step)
    BY <1>0 DEF Unroute, WorkSteps, Calling
  <2>2. At(x) \in Daemons
    BY <1>0, WithDaemon DEF Unroute, Holding, Calling
  <2>3. work' \in [Actors -> WorkState]
    BY <1>0, <2>1, GoesType
  <2>5. QED BY <1>0, <2>2, <2>3 DEF Unroute, TypeOK, Urls
<1>2. WorkInv'
  BY <1>0 DEF Unroute, Goes, WorkInv, LockInv, TypeOK, DaemonState, WorkState, Actors, Choices,
      Calling, Holding, LeftCalls, At, Alive, Listening
<1>3. FreshInv'
  BY <1>0 DEF Unroute, Goes, FreshInv, WorkInv, TypeOK, DaemonState, WorkState, Actors, Choices,
      Calling, Holding, LeftCalls, At, Alive, Listening
<1>4. LockInv'
  BY <1>0 DEF Unroute, Goes, LockInv, WorkInv, FreshInv, TypeOK, DaemonState, WorkState, Actors,
      Choices, Calling, Holding, LeftCalls, At, Alive, Listening
<1>5. UndoInv'
  BY <1>0 DEF Unroute, Goes, UndoInv, LockInv, WorkInv, TypeOK, DaemonState, WorkState, Actors,
      Choices, Calling, Holding, LeftCalls, At, Alive, Listening
<1>6. AloneInv'
  BY <1>0 DEF Unroute, Goes, AloneInv, TypeOK, DaemonState, WorkState, Actors, Choices, Calling,
      Holding, LeftCalls, At, Alive, Listening
<1>7. RouteInv'
  BY <1>0, SMTT(30) DEF Unroute, Goes, RouteInv, LockInv, WorkInv, FreshInv, AloneInv, RouteMatches,
      TypeOK, DaemonState, WorkState, Actors, Choices, Calling, Holding, LeftCalls, At, Alive, Listening
<1>8. SocketInv'
  BY <1>0 DEF Unroute, Goes, SocketInv, AloneInv, WorkInv, TypeOK, DaemonState, WorkState,
      Actors, Choices, Calling, Holding, LeftCalls, At, Alive, Listening
<1>9. UrlInv'
  BY <1>0 DEF Unroute, Goes, UrlInv, LockInv, WorkInv, FreshInv, UndoInv, Urls, TypeOK,
      DaemonState, WorkState, Actors, Choices, Calling, Holding, LeftCalls, At, Alive, Listening
<1>10. QED BY <1>1, <1>2, <1>3, <1>4, <1>5, <1>6, <1>7, <1>8, <1>9 DEF IInv

\* There is nothing to open with opentunnel.
LEMMA OpenNothingStep ==
  ASSUME IInv, NEW x \in Actors, OpenNothing(x)
  PROVE  IInv'
<1> USE TunnelAssumption, OwnAssumption DEF Provider, Unset, ProviderUrl
<1>0. /\ TypeOK /\ WorkInv /\ FreshInv /\ LockInv
      /\ UndoInv /\ AloneInv /\ RouteInv /\ SocketInv
      /\ UrlInv
  BY DEF IInv
<1>1. TypeOK'
  <2>1. PICK step \in WorkSteps : Goes(x, step)
    BY <1>0 DEF OpenNothing, WorkSteps, Calling
  <2>2. At(x) \in Daemons
    BY <1>0, WithDaemon DEF OpenNothing, Holding, Calling
  <2>3. work' \in [Actors -> WorkState]
    BY <1>0, <2>1, GoesType
  <2>4. work[x].choice \in Choices \union {Unset}
    BY <1>0 DEF TypeOK, WorkState
  <2>5. url' \in [Daemons -> Urls \union {Unset}]
    BY <1>0, <2>2, <2>4 DEF OpenNothing, TypeOK, Choices, Urls
  <2>6. QED BY <1>0, <2>2, <2>3, <2>4, <2>5 DEF OpenNothing, TypeOK, Urls
<1>2. WorkInv'
  BY <1>0 DEF OpenNothing, Goes, WorkInv, LockInv, TypeOK, DaemonState, WorkState, Actors,
      Choices, Calling, Holding, LeftCalls, At, Alive, Listening
<1>3. FreshInv'
  BY <1>0 DEF OpenNothing, Goes, FreshInv, WorkInv, TypeOK, DaemonState, WorkState, Actors,
      Choices, Calling, Holding, LeftCalls, At, Alive, Listening
<1>4. LockInv'
  BY <1>0 DEF OpenNothing, Goes, LockInv, WorkInv, FreshInv, TypeOK, DaemonState, WorkState,
      Actors, Choices, Calling, Holding, LeftCalls, At, Alive, Listening
<1>5. UndoInv'
  BY <1>0 DEF OpenNothing, Goes, UndoInv, LockInv, WorkInv, TypeOK, DaemonState, WorkState,
      Actors, Choices, Calling, Holding, LeftCalls, At, Alive, Listening
<1>6. AloneInv'
  BY <1>0 DEF OpenNothing, Goes, AloneInv, TypeOK, DaemonState, WorkState, Actors, Choices,
      Calling, Holding, LeftCalls, At, Alive, Listening
<1>7. RouteInv'
  BY <1>0 DEF OpenNothing, Goes, RouteInv, LockInv, WorkInv, FreshInv, AloneInv, RouteMatches,
      TypeOK, DaemonState, WorkState, Actors, Choices, Calling, Holding, LeftCalls, At, Alive, Listening
<1>8. SocketInv'
  BY <1>0 DEF OpenNothing, Goes, SocketInv, AloneInv, WorkInv, TypeOK, DaemonState, WorkState,
      Actors, Choices, Calling, Holding, LeftCalls, At, Alive, Listening
<1>9. UrlInv'
  BY <1>0 DEF OpenNothing, Goes, UrlInv, LockInv, WorkInv, FreshInv, UndoInv, Urls, TypeOK,
      DaemonState, WorkState, Actors, Choices, Calling, Holding, LeftCalls, At, Alive, Listening
<1>10. QED BY <1>1, <1>2, <1>3, <1>4, <1>5, <1>6, <1>7, <1>8, <1>9 DEF IInv

\* Or there is.
LEMMA OpenProviderStep ==
  ASSUME IInv, NEW x \in Actors, OpenProvider(x)
  PROVE  IInv'
<1> USE TunnelAssumption, OwnAssumption DEF Provider, Unset, ProviderUrl
<1>0. /\ TypeOK /\ WorkInv /\ FreshInv /\ LockInv
      /\ UndoInv /\ AloneInv /\ RouteInv /\ SocketInv
      /\ UrlInv
  BY DEF IInv
<1>1. TypeOK'
  <2>1. PICK step \in WorkSteps : Goes(x, step)
    BY <1>0 DEF OpenProvider, WorkSteps, Calling
  <2>2. At(x) \in Daemons
    BY <1>0, WithDaemon DEF OpenProvider, Holding, Calling
  <2>3. work' \in [Actors -> WorkState]
    BY <1>0, <2>1, GoesType
  <2>5. QED BY <1>0, <2>2, <2>3 DEF OpenProvider, TypeOK, Urls
<1>2. WorkInv'
  BY <1>0 DEF OpenProvider, Goes, WorkInv, LockInv, TypeOK, DaemonState, WorkState, Actors,
      Choices, Calling, Holding, LeftCalls, At, Alive, Listening
<1>3. FreshInv'
  BY <1>0 DEF OpenProvider, Goes, FreshInv, WorkInv, TypeOK, DaemonState, WorkState, Actors,
      Choices, Calling, Holding, LeftCalls, At, Alive, Listening
<1>4. LockInv'
  BY <1>0 DEF OpenProvider, Goes, LockInv, WorkInv, FreshInv, TypeOK, DaemonState, WorkState,
      Actors, Choices, Calling, Holding, LeftCalls, At, Alive, Listening
<1>5. UndoInv'
  BY <1>0 DEF OpenProvider, Goes, UndoInv, LockInv, WorkInv, TypeOK, DaemonState, WorkState,
      Actors, Choices, Calling, Holding, LeftCalls, At, Alive, Listening
<1>6. AloneInv'
  BY <1>0 DEF OpenProvider, Goes, AloneInv, TypeOK, DaemonState, WorkState, Actors, Choices,
      Calling, Holding, LeftCalls, At, Alive, Listening
<1>7. RouteInv'
  BY <1>0 DEF OpenProvider, Goes, RouteInv, LockInv, WorkInv, FreshInv, AloneInv, RouteMatches,
      TypeOK, DaemonState, WorkState, Actors, Choices, Calling, Holding, LeftCalls, At, Alive, Listening
<1>8. SocketInv'
  BY <1>0 DEF OpenProvider, Goes, SocketInv, AloneInv, WorkInv, TypeOK, DaemonState, WorkState,
      Actors, Choices, Calling, Holding, LeftCalls, At, Alive, Listening
<1>9. UrlInv'
  BY <1>0 DEF OpenProvider, Goes, UrlInv, LockInv, WorkInv, FreshInv, UndoInv, Urls, TypeOK,
      DaemonState, WorkState, Actors, Choices, Calling, Holding, LeftCalls, At, Alive, Listening
<1>10. QED BY <1>1, <1>2, <1>3, <1>4, <1>5, <1>6, <1>7, <1>8, <1>9 DEF IInv

\* The tunnel is created.
LEMMA CreateStep ==
  ASSUME IInv, NEW x \in Actors, Create(x)
  PROVE  IInv'
<1> USE TunnelAssumption, OwnAssumption DEF Provider, Unset, ProviderUrl
<1>0. /\ TypeOK /\ WorkInv /\ FreshInv /\ LockInv
      /\ UndoInv /\ AloneInv /\ RouteInv /\ SocketInv
      /\ UrlInv
  BY DEF IInv
<1>1. TypeOK'
  <2>1. PICK step \in WorkSteps : Goes(x, step)
    BY <1>0 DEF Create, WorkSteps, Calling
  <2>2. At(x) \in Daemons
    BY <1>0, WithDaemon DEF Create, Holding, Calling
  <2>3. work' \in [Actors -> WorkState]
    BY <1>0, <2>1, GoesType
  <2>5. QED BY <1>0, <2>2, <2>3 DEF Create, TypeOK, Urls
<1>2. WorkInv'
  BY <1>0 DEF Create, Goes, WorkInv, LockInv, TypeOK, DaemonState, WorkState, Actors, Choices,
      Calling, Holding, LeftCalls, At, Alive, Listening
<1>3. FreshInv'
  BY <1>0 DEF Create, Goes, FreshInv, WorkInv, TypeOK, DaemonState, WorkState, Actors, Choices,
      Calling, Holding, LeftCalls, At, Alive, Listening
<1>4. LockInv'
  BY <1>0 DEF Create, Goes, LockInv, WorkInv, FreshInv, TypeOK, DaemonState, WorkState, Actors,
      Choices, Calling, Holding, LeftCalls, At, Alive, Listening
<1>5. UndoInv'
  BY <1>0 DEF Create, Goes, UndoInv, LockInv, WorkInv, TypeOK, DaemonState, WorkState, Actors,
      Choices, Calling, Holding, LeftCalls, At, Alive, Listening
<1>6. AloneInv'
  BY <1>0 DEF Create, Goes, AloneInv, TypeOK, DaemonState, WorkState, Actors, Choices, Calling,
      Holding, LeftCalls, At, Alive, Listening
<1>7. RouteInv'
  BY <1>0 DEF Create, Goes, RouteInv, LockInv, WorkInv, FreshInv, AloneInv, RouteMatches,
      TypeOK, DaemonState, WorkState, Actors, Choices, Calling, Holding, LeftCalls, At, Alive, Listening
<1>8. SocketInv'
  BY <1>0 DEF Create, Goes, SocketInv, AloneInv, WorkInv, TypeOK, DaemonState, WorkState,
      Actors, Choices, Calling, Holding, LeftCalls, At, Alive, Listening
<1>9. UrlInv'
  BY <1>0 DEF Create, Goes, UrlInv, LockInv, WorkInv, FreshInv, UndoInv, Urls, TypeOK,
      DaemonState, WorkState, Actors, Choices, Calling, Holding, LeftCalls, At, Alive, Listening
<1>10. QED BY <1>1, <1>2, <1>3, <1>4, <1>5, <1>6, <1>7, <1>8, <1>9 DEF IInv

\* The routes are read.
LEMMA ListStep ==
  ASSUME IInv, NEW x \in Actors, List(x)
  PROVE  IInv'
<1> USE TunnelAssumption, OwnAssumption DEF Provider, Unset, ProviderUrl
<1>0. /\ TypeOK /\ WorkInv /\ FreshInv /\ LockInv
      /\ UndoInv /\ AloneInv /\ RouteInv /\ SocketInv
      /\ UrlInv
  BY DEF IInv
<1>1. TypeOK'
  <2>1. PICK step \in WorkSteps : Goes(x, step)
    BY <1>0 DEF List, WorkSteps, Calling
  <2>2. At(x) \in Daemons
    BY <1>0, WithDaemon DEF List, Holding, Calling
  <2>3. work' \in [Actors -> WorkState]
    BY <1>0, <2>1, GoesType
  <2>5. QED BY <1>0, <2>2, <2>3 DEF List, TypeOK, Urls
<1>2. WorkInv'
  BY <1>0 DEF List, Goes, WorkInv, LockInv, TypeOK, DaemonState, WorkState, Actors, Choices,
      Calling, Holding, LeftCalls, At, Alive, Listening
<1>3. FreshInv'
  BY <1>0 DEF List, Goes, FreshInv, WorkInv, TypeOK, DaemonState, WorkState, Actors, Choices,
      Calling, Holding, LeftCalls, At, Alive, Listening
<1>4. LockInv'
  BY <1>0 DEF List, Goes, LockInv, WorkInv, FreshInv, TypeOK, DaemonState, WorkState, Actors,
      Choices, Calling, Holding, LeftCalls, At, Alive, Listening
<1>5. UndoInv'
  BY <1>0 DEF List, Goes, UndoInv, LockInv, WorkInv, TypeOK, DaemonState, WorkState, Actors,
      Choices, Calling, Holding, LeftCalls, At, Alive, Listening
<1>6. AloneInv'
  BY <1>0 DEF List, Goes, AloneInv, TypeOK, DaemonState, WorkState, Actors, Choices, Calling,
      Holding, LeftCalls, At, Alive, Listening
<1>7. RouteInv'
  BY <1>0 DEF List, Goes, RouteInv, LockInv, WorkInv, FreshInv, AloneInv, RouteMatches, TypeOK,
      DaemonState, WorkState, Actors, Choices, Calling, Holding, LeftCalls, At, Alive, Listening
<1>8. SocketInv'
  BY <1>0 DEF List, Goes, SocketInv, AloneInv, WorkInv, TypeOK, DaemonState, WorkState, Actors,
      Choices, Calling, Holding, LeftCalls, At, Alive, Listening
<1>9. UrlInv'
  BY <1>0 DEF List, Goes, UrlInv, LockInv, WorkInv, FreshInv, UndoInv, Urls, TypeOK,
      DaemonState, WorkState, Actors, Choices, Calling, Holding, LeftCalls, At, Alive, Listening
<1>10. QED BY <1>1, <1>2, <1>3, <1>4, <1>5, <1>6, <1>7, <1>8, <1>9 DEF IInv

\* A route to another port goes.
LEMMA RemoveStep ==
  ASSUME IInv, NEW x \in Actors, Remove(x)
  PROVE  IInv'
<1> USE TunnelAssumption, OwnAssumption DEF Provider, Unset, ProviderUrl
<1>0. /\ TypeOK /\ WorkInv /\ FreshInv /\ LockInv
      /\ UndoInv /\ AloneInv /\ RouteInv /\ SocketInv
      /\ UrlInv
  BY DEF IInv
<1>1. TypeOK'
  <2>1. PICK step \in WorkSteps : Goes(x, step)
    BY <1>0 DEF Remove, WorkSteps, Calling
  <2>2. At(x) \in Daemons
    BY <1>0, WithDaemon DEF Remove, Holding, Calling
  <2>3. work' \in [Actors -> WorkState]
    BY <1>0, <2>1, GoesType
  <2>5. QED BY <1>0, <2>2, <2>3 DEF Remove, TypeOK, Urls
<1>2. WorkInv'
  BY <1>0 DEF Remove, Goes, WorkInv, LockInv, TypeOK, DaemonState, WorkState, Actors, Choices,
      Calling, Holding, LeftCalls, At, Alive, Listening
<1>3. FreshInv'
  BY <1>0 DEF Remove, Goes, FreshInv, WorkInv, TypeOK, DaemonState, WorkState, Actors, Choices,
      Calling, Holding, LeftCalls, At, Alive, Listening
<1>4. LockInv'
  BY <1>0 DEF Remove, Goes, LockInv, WorkInv, FreshInv, TypeOK, DaemonState, WorkState, Actors,
      Choices, Calling, Holding, LeftCalls, At, Alive, Listening
<1>5. UndoInv'
  BY <1>0 DEF Remove, Goes, UndoInv, LockInv, WorkInv, TypeOK, DaemonState, WorkState, Actors,
      Choices, Calling, Holding, LeftCalls, At, Alive, Listening
<1>6. AloneInv'
  BY <1>0 DEF Remove, Goes, AloneInv, TypeOK, DaemonState, WorkState, Actors, Choices, Calling,
      Holding, LeftCalls, At, Alive, Listening
<1>7. RouteInv'
  BY <1>0, SMTT(30) DEF Remove, Goes, RouteInv, LockInv, WorkInv, FreshInv, AloneInv, RouteMatches,
      TypeOK, DaemonState, WorkState, Actors, Choices, Calling, Holding, LeftCalls, At, Alive, Listening
<1>8. SocketInv'
  BY <1>0 DEF Remove, Goes, SocketInv, AloneInv, WorkInv, TypeOK, DaemonState, WorkState,
      Actors, Choices, Calling, Holding, LeftCalls, At, Alive, Listening
<1>9. UrlInv'
  BY <1>0 DEF Remove, Goes, UrlInv, LockInv, WorkInv, FreshInv, UndoInv, Urls, TypeOK,
      DaemonState, WorkState, Actors, Choices, Calling, Holding, LeftCalls, At, Alive, Listening
<1>10. QED BY <1>1, <1>2, <1>3, <1>4, <1>5, <1>6, <1>7, <1>8, <1>9 DEF IInv

\* A route to this one is made.
LEMMA AddStep ==
  ASSUME IInv, NEW x \in Actors, Add(x)
  PROVE  IInv'
<1> USE TunnelAssumption, OwnAssumption DEF Provider, Unset, ProviderUrl
<1>0. /\ TypeOK /\ WorkInv /\ FreshInv /\ LockInv
      /\ UndoInv /\ AloneInv /\ RouteInv /\ SocketInv
      /\ UrlInv
  BY DEF IInv
<1>a. /\ work[x].step = "add" /\ work' \in [Actors -> WorkState]
      /\ lock' \in [Daemons -> Actors \union {Nobody}] /\ unsure' \in [Daemons -> BOOLEAN]
      /\ At(x) \in Daemons /\ lock[At(x)] = x /\ ~active[At(x)] /\ x # Nobody
      /\ work'[x].step \in {"info", "failed"}
      /\ work'[x].at = work[x].at /\ work'[x].choice = work[x].choice
      /\ \A y \in Actors : y # x => work'[y] = work[y]
      /\ \A e \in Daemons : e # At(x) => lock'[e] = lock[e] /\ unsure'[e] = unsure[e]
      /\ UNCHANGED <<saved, stored, socket, daemon, active, url, alone, foreign, count>>
      /\ overtaken' \in [Daemons -> BOOLEAN] /\ \A e \in Daemons : e # At(x) => overtaken'[e] = overtaken[e]
      /\ \/ /\ work'[x].step = "info" /\ route' = daemon[At(x)].port /\ UNCHANGED <<lock, unsure>>
         \/ /\ work'[x].step = "failed" /\ lock'[At(x)] = Nobody /\ unsure'[At(x)] = TRUE
            /\ UNCHANGED <<route, overtaken>>
  <2>1. At(x) \in Daemons
    BY <1>0, WithDaemon DEF Add, Holding, Calling
  <2>2. lock[At(x)] = x /\ ~active[At(x)] /\ x # Nobody
    BY <1>0, <2>1 DEF Add, LockInv, Holding, Calling, Actors
  <2>3. \A s \in {"info", "failed"} : [work[x] EXCEPT !.step = s] \in WorkState
    <3>1. work[x] \in WorkState
      BY <1>0 DEF TypeOK
    <3>2. QED BY <3>1 DEF WorkState, WorkSteps, Calling
  <2>4. CASE route = NoPort
    <3>1. /\ work' = [work EXCEPT ![x].step = "info"] /\ route' = daemon[At(x)].port
          /\ overtaken' = [overtaken EXCEPT ![At(x)] = FALSE] /\ work[x].step = "add"
          /\ UNCHANGED <<saved, stored, socket, daemon, active, url, lock, alone, unsure, foreign, count>>
      BY <2>4 DEF Add, Goes
    <3>2. work' \in [Actors -> WorkState] /\ work[x] \in WorkState
      BY <1>0, <2>3, <3>1 DEF TypeOK
    <3>3. /\ work'[x].step = "info" /\ work'[x].at = work[x].at /\ work'[x].choice = work[x].choice
          /\ \A y \in Actors : y # x => work'[y] = work[y]
      BY <1>0, <3>1, <3>2 DEF TypeOK, WorkState
    <3>4. QED BY <1>0, <2>1, <2>2, <3>1, <3>2, <3>3 DEF TypeOK
  <2>5. CASE route # NoPort
    <3>1. /\ work' = [work EXCEPT ![x].step = "failed"] /\ lock' = [lock EXCEPT ![At(x)] = Nobody]
          /\ unsure' = [unsure EXCEPT ![At(x)] = TRUE]
          /\ UNCHANGED <<route, saved, stored, socket, daemon, active, url, alone, overtaken, foreign, count>>
          /\ work[x].step = "add"
      BY <2>5 DEF Add, Goes
    <3>2. work' \in [Actors -> WorkState] /\ work[x] \in WorkState
      BY <1>0, <2>3, <3>1 DEF TypeOK
    <3>3. /\ work'[x].step = "failed" /\ work'[x].at = work[x].at /\ work'[x].choice = work[x].choice
          /\ \A y \in Actors : y # x => work'[y] = work[y]
      BY <1>0, <3>1, <3>2 DEF TypeOK, WorkState
    <3>4. QED BY <1>0, <2>1, <2>2, <3>1, <3>2, <3>3 DEF TypeOK
  <2>6. QED BY <2>4, <2>5
<1>1. TypeOK'
  <2>1. daemon[At(x)].port \in Ports \union {NoPort}
    BY <1>0, <1>a DEF TypeOK, DaemonState
  <2>2. QED BY <1>0, <1>a, <2>1 DEF TypeOK
<1>2. WorkInv'
  BY <1>0, <1>a DEF WorkInv, LockInv, TypeOK, Actors, Calling, Holding, LeftCalls, At, Alive, Listening
<1>3. FreshInv'
  BY <1>0, <1>a DEF FreshInv, WorkInv, TypeOK, Actors, Calling, Holding, LeftCalls, At, Alive, Listening
<1>4. LockInv'
  BY <1>0, <1>a DEF LockInv, WorkInv, FreshInv, TypeOK, Actors, Calling, Holding, LeftCalls, At, Alive,
      Listening
<1>5. UndoInv'
  BY <1>0, <1>a DEF UndoInv, LockInv, WorkInv, TypeOK, Actors, Calling, Holding, LeftCalls, At, Alive,
      Listening
<1>6. AloneInv'
  BY <1>0, <1>a DEF AloneInv, TypeOK, Actors, Calling, Holding, LeftCalls, At, Alive, Listening
<1>7. RouteInv'
  BY <1>0, <1>a DEF RouteInv, LockInv, WorkInv, FreshInv, AloneInv, TypeOK, Actors, Calling,
      Holding, LeftCalls, At, Alive, Listening
<1>8. SocketInv'
  BY <1>0, <1>a DEF SocketInv, AloneInv, WorkInv, TypeOK, Actors, Calling, Holding, LeftCalls, At, Alive,
      Listening
<1>9. UrlInv'
  BY <1>0, <1>a DEF UrlInv, LockInv, WorkInv, FreshInv, UndoInv, TypeOK, Actors, Calling,
      Holding, LeftCalls, At, Alive, Listening
<1>10. QED BY <1>1, <1>2, <1>3, <1>4, <1>5, <1>6, <1>7, <1>8, <1>9 DEF IInv

\* The tunnel is open.
LEMMA InfoStep ==
  ASSUME IInv, NEW x \in Actors, Info(x)
  PROVE  IInv'
<1> USE TunnelAssumption, OwnAssumption DEF Provider, Unset, ProviderUrl
<1>0. /\ TypeOK /\ WorkInv /\ FreshInv /\ LockInv
      /\ UndoInv /\ AloneInv /\ RouteInv /\ SocketInv
      /\ UrlInv
  BY DEF IInv
<1>1. TypeOK'
  <2>1. PICK step \in WorkSteps : Goes(x, step)
    BY <1>0 DEF Info, WorkSteps, Calling
  <2>2. At(x) \in Daemons
    BY <1>0, WithDaemon DEF Info, Holding, Calling
  <2>3. work' \in [Actors -> WorkState]
    BY <1>0, <2>1, GoesType
  <2>5. QED BY <1>0, <2>2, <2>3 DEF Info, TypeOK, Urls
<1>2. WorkInv'
  BY <1>0 DEF Info, Goes, WorkInv, LockInv, TypeOK, DaemonState, WorkState, Actors, Choices,
      Calling, Holding, LeftCalls, At, Alive, Listening
<1>3. FreshInv'
  BY <1>0 DEF Info, Goes, FreshInv, WorkInv, TypeOK, DaemonState, WorkState, Actors, Choices,
      Calling, Holding, LeftCalls, At, Alive, Listening
<1>4. LockInv'
  BY <1>0 DEF Info, Goes, LockInv, WorkInv, FreshInv, TypeOK, DaemonState, WorkState, Actors,
      Choices, Calling, Holding, LeftCalls, At, Alive, Listening
<1>5. UndoInv'
  BY <1>0 DEF Info, Goes, UndoInv, LockInv, WorkInv, TypeOK, DaemonState, WorkState, Actors,
      Choices, Calling, Holding, LeftCalls, At, Alive, Listening
<1>6. AloneInv'
  BY <1>0 DEF Info, Goes, AloneInv, TypeOK, DaemonState, WorkState, Actors, Choices, Calling,
      Holding, LeftCalls, At, Alive, Listening
<1>7. RouteInv'
  BY <1>0 DEF Info, Goes, RouteInv, LockInv, WorkInv, FreshInv, AloneInv, RouteMatches, TypeOK,
      DaemonState, WorkState, Actors, Choices, Calling, Holding, LeftCalls, At, Alive, Listening
<1>8. SocketInv'
  BY <1>0 DEF Info, Goes, SocketInv, AloneInv, WorkInv, TypeOK, DaemonState, WorkState, Actors,
      Choices, Calling, Holding, LeftCalls, At, Alive, Listening
<1>9. UrlInv'
  BY <1>0 DEF Info, Goes, UrlInv, LockInv, WorkInv, FreshInv, UndoInv, Urls, TypeOK,
      DaemonState, WorkState, Actors, Choices, Calling, Holding, LeftCalls, At, Alive, Listening
<1>10. QED BY <1>1, <1>2, <1>3, <1>4, <1>5, <1>6, <1>7, <1>8, <1>9 DEF IInv

\* Its route is taken back.
LEMMA UndoStep ==
  ASSUME IInv, NEW x \in Actors, Undo(x)
  PROVE  IInv'
<1> USE TunnelAssumption, OwnAssumption DEF Provider, Unset, ProviderUrl
<1>0. /\ TypeOK /\ WorkInv /\ FreshInv /\ LockInv
      /\ UndoInv /\ AloneInv /\ RouteInv /\ SocketInv
      /\ UrlInv
  BY DEF IInv
<1>1. TypeOK'
  <2>1. PICK step \in WorkSteps : Goes(x, step)
    BY <1>0 DEF Undo, WorkSteps, Calling
  <2>2. At(x) \in Daemons
    BY <1>0, WithDaemon DEF Undo, Holding, Calling
  <2>3. work' \in [Actors -> WorkState]
    BY <1>0, <2>1, GoesType
  <2>5. QED BY <1>0, <2>2, <2>3 DEF Undo, TypeOK, Urls
<1>2. WorkInv'
  BY <1>0 DEF Undo, Goes, WorkInv, LockInv, TypeOK, DaemonState, WorkState, Actors, Choices,
      Calling, Holding, LeftCalls, At, Alive, Listening
<1>3. FreshInv'
  BY <1>0 DEF Undo, Goes, FreshInv, WorkInv, TypeOK, DaemonState, WorkState, Actors, Choices,
      Calling, Holding, LeftCalls, At, Alive, Listening
<1>4. LockInv'
  BY <1>0 DEF Undo, Goes, LockInv, WorkInv, FreshInv, TypeOK, DaemonState, WorkState, Actors,
      Choices, Calling, Holding, LeftCalls, At, Alive, Listening
<1>5. UndoInv'
  BY <1>0 DEF Undo, Goes, UndoInv, LockInv, WorkInv, TypeOK, DaemonState, WorkState, Actors,
      Choices, Calling, Holding, LeftCalls, At, Alive, Listening
<1>6. AloneInv'
  BY <1>0 DEF Undo, Goes, AloneInv, TypeOK, DaemonState, WorkState, Actors, Choices, Calling,
      Holding, LeftCalls, At, Alive, Listening
<1>7. RouteInv'
  BY <1>0, SMTT(30) DEF Undo, Goes, RouteInv, LockInv, WorkInv, FreshInv, AloneInv, RouteMatches, TypeOK,
      DaemonState, WorkState, Actors, Choices, Calling, Holding, LeftCalls, At, Alive, Listening
<1>8. SocketInv'
  BY <1>0 DEF Undo, Goes, SocketInv, AloneInv, WorkInv, TypeOK, DaemonState, WorkState, Actors,
      Choices, Calling, Holding, LeftCalls, At, Alive, Listening
<1>9. UrlInv'
  BY <1>0 DEF Undo, Goes, UrlInv, LockInv, WorkInv, FreshInv, UndoInv, Urls, TypeOK,
      DaemonState, WorkState, Actors, Choices, Calling, Holding, LeftCalls, At, Alive, Listening
<1>10. QED BY <1>1, <1>2, <1>3, <1>4, <1>5, <1>6, <1>7, <1>8, <1>9 DEF IInv

\* A call fails.
LEMMA CallFailsStep ==
  ASSUME IInv, NEW x \in Actors, CallFails(x)
  PROVE  IInv'
<1> USE TunnelAssumption, OwnAssumption DEF Provider, Unset, ProviderUrl
<1>0. /\ TypeOK /\ WorkInv /\ FreshInv /\ LockInv
      /\ UndoInv /\ AloneInv /\ RouteInv /\ SocketInv
      /\ UrlInv
  BY DEF IInv
<1>a. At(x) \in Daemons /\ lock[At(x)] = x /\ work[x].step \in Calling
  <2>1. At(x) \in Daemons
    BY <1>0, WithDaemon DEF CallFails, Holding
  <2>2. QED BY <1>0, <2>1 DEF CallFails, LockInv, Holding
<1>b. /\ work'[x].step \in {"open", "undo", "failed"}
      /\ work'[x].step = "open" <=> work[x].step = "unroute"
      /\ work'[x].step = "undo" <=> work[x].step = "info"
      /\ work'[x].at = work[x].at
      /\ \A y \in Actors : y # x => work'[y] = work[y]
  BY <1>0 DEF CallFails, Goes, Calling, TypeOK
<1>1. TypeOK'
  <2>1. PICK step \in WorkSteps : Goes(x, step)
    BY <1>0 DEF CallFails, WorkSteps, Calling
  <2>2. At(x) \in Daemons
    BY <1>0, WithDaemon DEF CallFails, Holding, Calling
  <2>3. work' \in [Actors -> WorkState]
    BY <1>0, <2>1, GoesType
  <2>4. count' \in [failures : 0..MaxFailures, kills : 0..MaxKills, cancels : 0..MaxCancels]
    BY <1>0 DEF CallFails, TypeOK
  <2>5. QED BY <1>0, <2>2, <2>3, <2>4 DEF CallFails, TypeOK, Urls
<1>2. WorkInv'
  BY <1>0, <1>a DEF CallFails, Goes, WorkInv, LockInv, TypeOK, DaemonState, WorkState, Actors,
      Choices, Calling, Holding, LeftCalls, At, Alive, Listening
<1>3. FreshInv'
  BY <1>0, <1>a DEF CallFails, Goes, FreshInv, WorkInv, TypeOK, DaemonState, WorkState, Actors,
      Choices, Calling, Holding, LeftCalls, At, Alive, Listening
<1>4. LockInv'
  BY <1>0, <1>a DEF CallFails, Goes, LockInv, WorkInv, FreshInv, TypeOK, DaemonState, WorkState,
      Actors, Choices, Calling, Holding, LeftCalls, At, Alive, Listening
<1>5. UndoInv'
  <2> SUFFICES ASSUME NEW y \in Actors, work'[y].step = "undo"
               PROVE  unsure'[work'[y].at]
    BY DEF UndoInv, At
  <2>1. CASE y = x
    <3>1. unsure'[At(x)]
      BY <1>0, <1>a, <1>b, <2>1 DEF CallFails, TypeOK
    <3>2. QED BY <1>b, <2>1, <3>1 DEF At
  <2>2. CASE y # x
    <3>1. work'[y] = work[y] /\ unsure[At(y)]
      BY <1>0, <1>b, <2>2 DEF UndoInv
    <3>2. At(y) \in Daemons
      BY <1>0, <1>b, <2>2, WithDaemon DEF Holding, Calling
    <3>3. QED BY <1>0, <1>a, <3>1, <3>2 DEF CallFails, TypeOK, At
  <2>3. QED BY <2>1, <2>2
<1>6. AloneInv'
  BY <1>0, <1>a DEF CallFails, Goes, AloneInv, TypeOK, DaemonState, WorkState, Actors, Choices,
      Calling, Holding, LeftCalls, At, Alive, Listening
<1>7. RouteInv'
  BY <1>0, <1>a DEF CallFails, Goes, RouteInv, LockInv, WorkInv, FreshInv, AloneInv,
      RouteMatches, TypeOK, DaemonState, WorkState, Actors, Choices, Calling, Holding, LeftCalls, At,
      Alive, Listening
<1>8. SocketInv'
  BY <1>0, <1>a DEF CallFails, Goes, SocketInv, AloneInv, WorkInv, TypeOK, DaemonState,
      WorkState, Actors, Choices, Calling, Holding, LeftCalls, At, Alive, Listening
<1>9. UrlInv'
  <2> SUFFICES ASSUME NEW d \in Daemons, daemon[d].step \notin {"closing", "ended"},
                      lock'[d] = Nobody, ~unsure'[d]
               PROVE  (url[d] = ProviderUrl) <=> active[d]
    BY <1>0 DEF CallFails, UrlInv
  <2>1. CASE d # At(x)
    BY <1>0, <1>a, <2>1 DEF CallFails, TypeOK, UrlInv
  <2>2. CASE d = At(x)
    <3>1. work[x].step = "unroute"
      BY <1>0, <1>a, <2>2 DEF CallFails, TypeOK
    <3>2. lock'[d] = x /\ x # Nobody
      BY <1>0, <1>a, <2>2, <3>1 DEF CallFails, TypeOK, Actors
    <3>3. QED BY <3>2
  <2>3. QED BY <2>1, <2>2
<1>10. QED BY <1>1, <1>2, <1>3, <1>4, <1>5, <1>6, <1>7, <1>8, <1>9 DEF IInv

\* A call that was left behind takes its effect, and takes nobody's route unnoticed.
LEMMA LateCallStep ==
  ASSUME IInv, NEW x \in Actors, LateCall(x)
  PROVE  IInv'
<1> USE TunnelAssumption
<1>0. /\ TypeOK /\ WorkInv /\ FreshInv /\ LockInv
      /\ UndoInv /\ AloneInv /\ RouteInv /\ SocketInv
      /\ UrlInv
  BY DEF IInv
<1>1. /\ work' \in [Actors -> WorkState] /\ work[x].step \in LeftCalls /\ work'[x].step = "failed"
      /\ work'[x].at = work[x].at /\ work'[x].choice = work[x].choice
      /\ \A y \in Actors : y # x => work'[y] = work[y]
  <2>1. "failed" \in WorkSteps /\ Goes(x, "failed")
    BY DEF LateCall, WorkSteps
  <2>2. work' \in [Actors -> WorkState]
    BY <1>0, <2>1, GoesType
  <2>3. QED BY <1>0, <2>1, <2>2 DEF LateCall, Goes, TypeOK, WorkState
<1>2. route' \in Ports \union {NoPort} /\ overtaken' \in [Daemons -> BOOLEAN]
  <2>1. daemon[At(x)].port \in Ports \union {NoPort}
    BY <1>0, <1>1 DEF WorkInv, TypeOK, DaemonState
  <2>2. QED BY <1>0, <2>1 DEF LateCall, TypeOK
<1>3. \A d \in Daemons : ~overtaken'[d] =>
          ~overtaken[d] /\ (route = daemon[d].port /\ route # NoPort => route' = route)
  BY DEF LateCall
<1>4. UNCHANGED <<saved, stored, socket, daemon, active, url, lock, alone, unsure, foreign, count>>
  BY DEF LateCall
<1>5. TypeOK'
  BY <1>0, <1>1, <1>2, <1>4 DEF TypeOK
<1>6. WorkInv' /\ FreshInv'
  BY <1>0, <1>1, <1>4 DEF WorkInv, FreshInv, Holding, Calling, LeftCalls, At
<1>7. LockInv' /\ UndoInv'
  BY <1>0, <1>1, <1>4 DEF LockInv, UndoInv, TypeOK, Holding, Calling, LeftCalls, At
<1>8. RouteInv'
  <2> SUFFICES ASSUME NEW d \in Daemons, alone[d], daemon[d].step \in Listening, ~overtaken'[d]
               PROVE  /\ active[d] => route' = daemon[d].port
                      /\ \A y \in Actors : work'[y].step = "info" /\ work'[y].at = d =>
                             route' = daemon[d].port
    BY <1>4 DEF RouteInv, At
  <2>1. daemon[d].port # NoPort
    BY <1>0 DEF FreshInv
  <2>2. \A y \in Actors : work'[y].step = "info" => work'[y] = work[y]
    BY <1>1
  <2>3. QED BY <1>0, <1>3, <2>1, <2>2 DEF RouteInv, At
<1>9. AloneInv' /\ SocketInv' /\ UrlInv'
  BY <1>0, <1>4 DEF AloneInv, SocketInv, UrlInv, Alive
<1>10. QED BY <1>5, <1>6, <1>7, <1>8, <1>9 DEF IInv

\* A daemon starts.
LEMMA StartStep ==
  ASSUME IInv, NEW d \in Daemons, Start(d)
  PROVE  IInv'
<1> USE TunnelAssumption, OwnAssumption DEF Provider, Unset, ProviderUrl
<1>0. /\ TypeOK /\ WorkInv /\ FreshInv /\ LockInv
      /\ UndoInv /\ AloneInv /\ RouteInv /\ SocketInv
      /\ UrlInv
  BY DEF IInv
<1>1. TypeOK'
  <2>1. [daemon[d] EXCEPT !.step = "choosing"] \in DaemonState
    BY <1>0 DEF TypeOK, DaemonState
  <2>2. QED BY <1>0, <2>1 DEF Start, TypeOK
<1>2. WorkInv'
  BY <1>0 DEF Start, WorkInv, LockInv, TypeOK, DaemonState, WorkState, Actors, Choices, Calling,
      Holding, LeftCalls, At, Alive, Listening
<1>3. FreshInv'
  BY <1>0 DEF Start, FreshInv, WorkInv, TypeOK, DaemonState, WorkState, Actors, Choices,
      Calling, Holding, LeftCalls, At, Alive, Listening
<1>4. LockInv'
  BY <1>0 DEF Start, LockInv, WorkInv, FreshInv, TypeOK, DaemonState, WorkState, Actors,
      Choices, Calling, Holding, LeftCalls, At, Alive, Listening
<1>5. UndoInv'
  BY <1>0 DEF Start, UndoInv, LockInv, WorkInv, TypeOK, DaemonState, WorkState, Actors, Choices,
      Calling, Holding, LeftCalls, At, Alive, Listening
<1>6. AloneInv'
  BY <1>0 DEF Start, AloneInv, TypeOK, DaemonState, WorkState, Actors, Choices, Calling,
      Holding, LeftCalls, At, Alive, Listening
<1>7. RouteInv'
  BY <1>0 DEF Start, RouteInv, LockInv, WorkInv, FreshInv, AloneInv, RouteMatches, TypeOK,
      DaemonState, WorkState, Actors, Choices, Calling, Holding, LeftCalls, At, Alive, Listening
<1>8. SocketInv'
  BY <1>0 DEF Start, SocketInv, AloneInv, WorkInv, TypeOK, DaemonState, WorkState, Actors,
      Choices, Calling, Holding, LeftCalls, At, Alive, Listening
<1>9. UrlInv'
  BY <1>0 DEF Start, UrlInv, LockInv, WorkInv, FreshInv, UndoInv, Urls, TypeOK, DaemonState,
      WorkState, Actors, Choices, Calling, Holding, LeftCalls, At, Alive, Listening
<1>10. QED BY <1>1, <1>2, <1>3, <1>4, <1>5, <1>6, <1>7, <1>8, <1>9 DEF IInv

\* It learns which tunnel to open.
LEMMA ResolveTunnelStep ==
  ASSUME IInv, NEW d \in Daemons, ResolveTunnel(d)
  PROVE  IInv'
<1> USE TunnelAssumption, OwnAssumption DEF Provider, Unset, ProviderUrl
<1>0. /\ TypeOK /\ WorkInv /\ FreshInv /\ LockInv
      /\ UndoInv /\ AloneInv /\ RouteInv /\ SocketInv
      /\ UrlInv
  BY DEF IInv
<1>1. TypeOK'
  <2>1. saved' \in Choices \union {Unset}
    BY <1>0 DEF ResolveTunnel, TypeOK, Choices
  <2>2. [daemon[d] EXCEPT !.step = "binding", !.tunnel = saved'] \in DaemonState
    <3>1. daemon[d] \in DaemonState
      BY <1>0 DEF TypeOK
    <3>2. QED BY <2>1, <3>1 DEF DaemonState
  <2>3. QED BY <1>0, <2>1, <2>2 DEF ResolveTunnel, TypeOK
<1>2. WorkInv'
  BY <1>0 DEF ResolveTunnel, WorkInv, LockInv, TypeOK, DaemonState, WorkState, Actors, Choices,
      Calling, Holding, LeftCalls, At, Alive, Listening
<1>3. FreshInv'
  BY <1>0 DEF ResolveTunnel, FreshInv, WorkInv, TypeOK, DaemonState, WorkState, Actors, Choices,
      Calling, Holding, LeftCalls, At, Alive, Listening
<1>4. LockInv'
  BY <1>0 DEF ResolveTunnel, LockInv, WorkInv, FreshInv, TypeOK, DaemonState, WorkState, Actors,
      Choices, Calling, Holding, LeftCalls, At, Alive, Listening
<1>5. UndoInv'
  BY <1>0 DEF ResolveTunnel, UndoInv, LockInv, WorkInv, TypeOK, DaemonState, WorkState, Actors,
      Choices, Calling, Holding, LeftCalls, At, Alive, Listening
<1>6. AloneInv'
  BY <1>0 DEF ResolveTunnel, AloneInv, TypeOK, DaemonState, WorkState, Actors, Choices, Calling,
      Holding, LeftCalls, At, Alive, Listening
<1>7. RouteInv'
  BY <1>0 DEF ResolveTunnel, RouteInv, LockInv, WorkInv, FreshInv, AloneInv, RouteMatches,
      TypeOK, DaemonState, WorkState, Actors, Choices, Calling, Holding, LeftCalls, At, Alive, Listening
<1>8. SocketInv'
  BY <1>0 DEF ResolveTunnel, SocketInv, AloneInv, WorkInv, TypeOK, DaemonState, WorkState,
      Actors, Choices, Calling, Holding, LeftCalls, At, Alive, Listening
<1>9. UrlInv'
  BY <1>0 DEF ResolveTunnel, UrlInv, LockInv, WorkInv, FreshInv, UndoInv, Urls, TypeOK,
      DaemonState, WorkState, Actors, Choices, Calling, Holding, LeftCalls, At, Alive, Listening
<1>10. QED BY <1>1, <1>2, <1>3, <1>4, <1>5, <1>6, <1>7, <1>8, <1>9 DEF IInv

\* It chooses its port.
LEMMA ChoosePortsStep ==
  ASSUME IInv, NEW d \in Daemons, ChoosePorts(d)
  PROVE  IInv'
<1> USE TunnelAssumption, OwnAssumption DEF Provider, Unset, ProviderUrl
<1>0. /\ TypeOK /\ WorkInv /\ FreshInv /\ LockInv
      /\ UndoInv /\ AloneInv /\ RouteInv /\ SocketInv
      /\ UrlInv
  BY DEF IInv
<1>a. /\ daemon[d].step = "binding" /\ daemon'[d].step \in {"binding", "ended"}
      /\ daemon'[d].tunnel = daemon[d].tunnel
      /\ daemon' \in [Daemons -> DaemonState]
      /\ \A e \in Daemons : e # d => daemon'[e] = daemon[e]
      /\ stored' \in Ports
      /\ UNCHANGED <<route, saved, socket, active, url, lock, work, alone, unsure, overtaken, foreign, count>>
  <2>1. CASE ~Bound(stored)
    BY <1>0, <2>1, SMTT(30) DEF ChoosePorts, TypeOK, DaemonState
  <2>2. CASE Bound(stored) /\ daemon[d].tunnel # Provider
    <3>1. [daemon[d] EXCEPT !.step = "ended"] \in DaemonState
      BY <1>0 DEF TypeOK, DaemonState
    <3>2. daemon' = [daemon EXCEPT ![d].step = "ended"] /\ stored' = stored
      BY <2>2 DEF ChoosePorts
    <3>3. daemon'[d] = [daemon[d] EXCEPT !.step = "ended"] /\ daemon[d] \in DaemonState
      BY <1>0, <3>2 DEF TypeOK
    <3>4. daemon'[d].step = "ended" /\ daemon'[d].tunnel = daemon[d].tunnel
      BY <3>3 DEF DaemonState
    <3>5. QED BY <1>0, <3>1, <3>2, <3>4 DEF ChoosePorts, TypeOK
  <2>3. CASE Bound(stored) /\ daemon[d].tunnel = Provider
    <3>1. PICK p \in Ports : stored' = p /\ daemon' = [daemon EXCEPT ![d].port = p]
      BY <2>3 DEF ChoosePorts
    <3>2. QED BY <1>0, <2>3, <3>1 DEF ChoosePorts, TypeOK, DaemonState
  <2>4. QED BY <2>1, <2>2, <2>3
<1>1. TypeOK'
  BY <1>0, <1>a DEF TypeOK, DaemonState, WorkState, Actors, Choices, Urls, Calling, At
<1>2. WorkInv'
  BY <1>0, <1>a DEF WorkInv, LockInv, TypeOK, Actors, Calling, Holding, LeftCalls, At, Alive, Listening
<1>3. FreshInv'
  BY <1>0, <1>a DEF FreshInv, WorkInv, TypeOK, Actors, Calling, Holding, LeftCalls, At, Alive, Listening
<1>4. LockInv'
  BY <1>0, <1>a DEF LockInv, WorkInv, FreshInv, TypeOK, Actors, Calling, Holding, LeftCalls, At, Alive,
      Listening
<1>5. UndoInv'
  BY <1>0, <1>a DEF UndoInv, LockInv, WorkInv, TypeOK, Actors, Calling, Holding, LeftCalls, At, Alive,
      Listening
<1>6. AloneInv'
  BY <1>0, <1>a DEF AloneInv, TypeOK, Actors, Calling, Holding, LeftCalls, At, Alive, Listening
<1>7. RouteInv'
  BY <1>0, <1>a DEF RouteInv, LockInv, WorkInv, FreshInv, AloneInv, TypeOK, Actors, Calling,
      Holding, LeftCalls, At, Alive, Listening
<1>8. SocketInv'
  BY <1>0, <1>a DEF SocketInv, AloneInv, WorkInv, TypeOK, Actors, Calling, Holding, LeftCalls, At, Alive,
      Listening
<1>9. UrlInv'
  BY <1>0, <1>a DEF UrlInv, LockInv, WorkInv, FreshInv, UndoInv, TypeOK, Actors, Calling,
      Holding, LeftCalls, At, Alive, Listening
<1>10. QED BY <1>1, <1>2, <1>3, <1>4, <1>5, <1>6, <1>7, <1>8, <1>9 DEF IInv

\* It binds it, or ends.
LEMMA BindStep ==
  ASSUME IInv, NEW d \in Daemons, Bind(d)
  PROVE  IInv'
<1> USE TunnelAssumption, OwnAssumption DEF Provider, Unset, ProviderUrl
<1>0. /\ TypeOK /\ WorkInv /\ FreshInv /\ LockInv
      /\ UndoInv /\ AloneInv /\ RouteInv /\ SocketInv
      /\ UrlInv
  BY DEF IInv
<1>a. /\ daemon[d].step = "binding" /\ daemon'[d].step \in {"opening", "ended"}
      /\ daemon'[d].port = daemon[d].port /\ daemon'[d].tunnel = daemon[d].tunnel
      /\ daemon' \in [Daemons -> DaemonState]
      /\ \A e \in Daemons : e # d => daemon'[e] = daemon[e]
      /\ \A x \in Actors : x # d => work'[x] = work[x]
      /\ stored' = stored
      /\ UNCHANGED <<route, saved, socket, active, url, lock, alone, unsure, overtaken, foreign, count>>
  <2>1. \A s \in {"opening", "ended"} : [daemon[d] EXCEPT !.step = s] \in DaemonState
    BY <1>0, SMTT(30) DEF TypeOK, DaemonState
  <2>2. CASE Bound(daemon[d].port)
    <3>1. daemon' = [daemon EXCEPT ![d].step = "ended"] /\ work' = work
      BY <2>2 DEF Bind
    <3>2. daemon'[d] = [daemon[d] EXCEPT !.step = "ended"] /\ daemon[d] \in DaemonState
      BY <1>0, <3>1 DEF TypeOK
    <3>3. daemon'[d].step = "ended" /\ daemon'[d].port = daemon[d].port /\ daemon'[d].tunnel = daemon[d].tunnel
      BY <3>2 DEF DaemonState
    <3>4. QED BY <1>0, <2>1, <3>1, <3>3 DEF Bind, TypeOK
  <2>3. CASE ~Bound(daemon[d].port)
    BY <1>0, <2>1, <2>3, SMTT(30) DEF Bind, TypeOK, DaemonState, Actors
  <2>4. QED BY <2>2, <2>3
<1>b. /\ work[d].step = "none" /\ lock[d] = Nobody /\ d \in Actors
      /\ \A x \in Actors : work[x].step \in Holding \union {"lock", "compare"} => At(x) # d
  <2>1. d \in Actors
    BY DEF Actors
  <2>2. QED BY <1>0, <1>a, <2>1 DEF WorkInv, LockInv, TypeOK, Listening
<1>c. work' = work \/ daemon'[d].step = "opening"
  BY <1>0 DEF Bind, TypeOK, DaemonState
<1>d. work' # work => /\ work'[d].step = "lock" /\ work'[d].at = d
                      /\ work'[d].choice = daemon[d].tunnel
                      /\ work' \in [Actors -> WorkState]
  <2>1. daemon[d].tunnel \in Choices \union {Unset}
    BY <1>0 DEF TypeOK, DaemonState
  <2>2. [NoWork EXCEPT !.step = "lock", !.at = d, !.choice = daemon[d].tunnel] \in WorkState
    BY <2>1 DEF NoWork, WorkState, WorkSteps
  <2>3. work' # work =>
           work' = [work EXCEPT ![d] = [NoWork EXCEPT !.step = "lock", !.at = d, !.choice = daemon[d].tunnel]]
    BY DEF Bind
  <2>4. /\ [NoWork EXCEPT !.step = "lock", !.at = d, !.choice = daemon[d].tunnel].step = "lock"
        /\ [NoWork EXCEPT !.step = "lock", !.at = d, !.choice = daemon[d].tunnel].at = d
        /\ [NoWork EXCEPT !.step = "lock", !.at = d, !.choice = daemon[d].tunnel].choice = daemon[d].tunnel
    BY DEF NoWork
  <2>5. ASSUME work' # work
        PROVE  /\ work' \in [Actors -> WorkState]
               /\ work'[d] = [NoWork EXCEPT !.step = "lock", !.at = d, !.choice = daemon[d].tunnel]
    <3>1. work \in [Actors -> WorkState] /\ d \in Actors
      BY <1>0, <1>b DEF TypeOK
    <3>2. QED BY <2>2, <2>3, <2>5, <3>1
  <2>6. QED BY <2>4, <2>5
<1>e. work' = work => daemon'[d].step = "ended"
  <2>1. work[d] # [NoWork EXCEPT !.step = "lock", !.at = d, !.choice = daemon[d].tunnel]
    BY <1>b DEF NoWork
  <2>2. QED BY <1>0, <1>b, <2>1 DEF Bind, TypeOK, DaemonState
<1>1. TypeOK'
  BY <1>0, <1>a, <1>b, <1>c, <1>d, <1>e DEF TypeOK, DaemonState, WorkState, Actors, Choices,
      Urls, Calling, At
<1>2. WorkInv'
  <2> SUFFICES ASSUME NEW x \in Actors
               PROVE  /\ work'[x].step = "none" => work'[x].at = Nobody
                      /\ work'[x].step \in Holding \union {"lock", "compare"} =>
                            work'[x].at \in Daemons /\ daemon'[work'[x].at].step \in Listening
                      /\ work'[x].step \in LeftCalls => work'[x].at \in Daemons
                      /\ x \in Daemons /\ work'[x].step # "none" =>
                            /\ work'[x].at = x /\ daemon'[x].step \in {"opening", "closing", "ended"}
                            /\ daemon'[x].step = "opening" => work'[x].choice # Unset
                      /\ x \in Requests /\ work'[x].step # "none" => work'[x].choice # Unset
    BY DEF WorkInv, At, Actors
  <2>1. CASE x # d
    <3>1. work'[x] = work[x]
      BY <1>a, <2>1
    <3>2. work[x].step \in Holding \union {"lock", "compare"} => work[x].at # d
      BY <1>b DEF At
    <3>3. \A e \in Daemons : e # d => daemon'[e] = daemon[e]
      BY <1>a
    <3>4. QED BY <1>0, <2>1, <3>1, <3>2, <3>3 DEF WorkInv, At
  <2>2. CASE x = d /\ work' = work
    <3>1. work'[x].step = "none" /\ work'[x].at = Nobody
      BY <1>0, <1>b, <2>2 DEF WorkInv, At
    <3>2. QED BY <2>2, <3>1 DEF Holding, Calling, LeftCalls
  <2>3. CASE x = d /\ work' # work
    <3>1. work'[x].step = "lock" /\ work'[x].at = d /\ work'[x].choice = daemon[d].tunnel
      BY <1>d, <2>3
    <3>2. daemon'[d].step = "opening" /\ daemon[d].tunnel # Unset
      BY <1>0, <1>a, <1>c, <2>3 DEF FreshInv
    <3>3. QED BY <2>3, <3>1, <3>2 DEF Listening, LeftCalls
  <2>4. QED BY <2>1, <2>2, <2>3
<1>z. daemon[d].port # NoPort
  BY DEF Bind
<1>3. FreshInv'
  BY <1>0, <1>z, <1>a, <1>b, <1>c, <1>d, <1>e DEF FreshInv, WorkInv, TypeOK, Actors, Calling, Holding,
      At, Alive, Listening
<1>4. LockInv'
  BY <1>0, <1>a, <1>b, <1>c, <1>d, <1>e DEF LockInv, WorkInv, FreshInv, TypeOK, Actors, Calling,
      Holding, LeftCalls, At, Alive, Listening
<1>5. UndoInv'
  BY <1>0, <1>a, <1>b, <1>c, <1>d, <1>e DEF UndoInv, LockInv, WorkInv, TypeOK, Actors, Calling,
      Holding, LeftCalls, At, Alive, Listening
<1>6. AloneInv'
  BY <1>0, <1>a, <1>b, <1>c, <1>d, <1>e DEF AloneInv, TypeOK, Actors, Calling, Holding, LeftCalls, At,
      Alive, Listening
<1>7. RouteInv'
  BY <1>0, <1>a, <1>b, <1>c, <1>d, <1>e DEF RouteInv, LockInv, WorkInv, FreshInv, AloneInv,
      TypeOK, Actors, Calling, Holding, LeftCalls, At, Alive, Listening
<1>8. SocketInv'
  BY <1>0, <1>a, <1>b, <1>c, <1>d, <1>e DEF SocketInv, AloneInv, WorkInv, TypeOK, Actors,
      Calling, Holding, LeftCalls, At, Alive, Listening
<1>9. UrlInv'
  BY <1>0, <1>a, <1>b, <1>c, <1>d, <1>e DEF UrlInv, LockInv, WorkInv, FreshInv, UndoInv, TypeOK,
      Actors, Calling, Holding, LeftCalls, At, Alive, Listening
<1>10. QED BY <1>1, <1>2, <1>3, <1>4, <1>5, <1>6, <1>7, <1>8, <1>9 DEF IInv

\* A process that ends leaves the locks and what waited for them, and calls go on.
LEMMA EndsStep ==
  ASSUME IInv, NEW d \in Daemons, Alive(d), Ends(d),
         UNCHANGED <<route, saved, stored, active, url, alone, unsure, overtaken, foreign>>,
         socket' \in {socket, Nobody},
         count' \in [failures : 0..MaxFailures, kills : 0..MaxKills, cancels : 0..MaxCancels]
  PROVE  IInv'
<1> USE TunnelAssumption
<1>0. /\ TypeOK /\ WorkInv /\ FreshInv /\ LockInv
      /\ UndoInv /\ AloneInv /\ RouteInv /\ SocketInv
      /\ UrlInv
  BY DEF IInv
<1>1. /\ daemon' \in [Daemons -> DaemonState] /\ daemon'[d].step = "ended"
      /\ \A e \in Daemons : e # d => daemon'[e] = daemon[e]
  <2>1. daemon[d] \in DaemonState
    BY <1>0 DEF TypeOK
  <2>2. [daemon[d] EXCEPT !.step = "ended"] \in DaemonState
    BY <2>1 DEF DaemonState
  <2>3. QED BY <1>0, <2>1, <2>2 DEF Ends, TypeOK, DaemonState
<1>2. ASSUME NEW x \in Actors, At(x) = d
      PROVE  /\ work'[x] \in WorkState /\ work'[x].step \in LeftCalls \union {"failed"}
             /\ work'[x].at = d /\ work'[x].choice = work[x].choice /\ work[x].step # "none"
  <2>1. Left(work[x].step) \in LeftCalls \union {"failed"} /\ work[x] \in WorkState
    BY <1>0 DEF Left, LeftCalls, TypeOK
  <2>2. work'[x] = [work[x] EXCEPT !.step = Left(work[x].step)]
    BY <1>0, <1>2 DEF Ends
  <2>3. work'[x].step \in LeftCalls \union {"failed"} /\ work'[x] \in WorkState
    BY <2>1, <2>2 DEF WorkState, WorkSteps, LeftCalls
  <2>4. work'[x].at = d /\ work'[x].choice = work[x].choice
    BY <1>2, <2>1, <2>2 DEF WorkState, At
  <2>5. work[x].step # "none"
    BY <1>0, <1>2 DEF WorkInv, Actors
  <2>6. QED BY <2>3, <2>4, <2>5
<1>3. \A x \in Actors : At(x) # d => work'[x] = work[x]
  BY DEF Ends
<1>4. work' \in [Actors -> WorkState]
  BY <1>0, <1>2, <1>3 DEF Ends, TypeOK
<1>5. /\ lock' \in [Daemons -> Actors \union {Nobody}] /\ lock'[d] = Nobody
      /\ \A e \in Daemons : e # d => lock'[e] = lock[e]
  BY <1>0 DEF Ends, TypeOK
<1>6. TypeOK'
  BY <1>0, <1>1, <1>4, <1>5 DEF TypeOK
<1>7. WorkInv'
  <2> SUFFICES ASSUME NEW x \in Actors
               PROVE  /\ work'[x].step = "none" => work'[x].at = Nobody
                      /\ work'[x].step \in Holding \union {"lock", "compare"} =>
                            work'[x].at \in Daemons /\ daemon'[work'[x].at].step \in Listening
                      /\ work'[x].step \in LeftCalls => work'[x].at \in Daemons
                      /\ x \in Daemons /\ work'[x].step # "none" =>
                            /\ work'[x].at = x /\ daemon'[x].step \in {"opening", "closing", "ended"}
                            /\ daemon'[x].step = "opening" => work'[x].choice # Unset
                      /\ x \in Requests /\ work'[x].step # "none" => work'[x].choice # Unset
    BY DEF WorkInv, At
  <2>1. CASE At(x) # d
    BY <1>0, <1>1, <1>3, <2>1 DEF WorkInv, At
  <2>2. CASE At(x) = d
    <3>1. x \in Daemons => x = d
      BY <1>0, <1>2, <2>2 DEF WorkInv
    <3>2. x \in Requests => work[x].choice # Unset
      BY <1>0, <1>2, <2>2 DEF WorkInv
    <3>3. QED BY <1>1, <1>2, <2>2, <3>1, <3>2 DEF LeftCalls, Holding, Calling
  <2>3. QED BY <2>1, <2>2
<1>8. FreshInv'
  BY <1>0, <1>1 DEF FreshInv, Listening
<1>9. LockInv'
  <2>1. ASSUME NEW e \in Daemons, lock'[e] # Nobody
        PROVE  work'[lock'[e]].at = e /\ work'[lock'[e]].step \in Holding /\ ~active[e]
    <3>1. e # d /\ lock'[e] = lock[e] /\ lock[e] \in Actors
      BY <1>0, <1>5, <2>1 DEF TypeOK
    <3>2. At(lock[e]) = e
      BY <1>0, <2>1, <3>1 DEF LockInv
    <3>3. QED BY <1>0, <1>3, <2>1, <3>1, <3>2 DEF LockInv, At
  <2>2. ASSUME NEW x \in Actors, work'[x].step \in Holding
        PROVE  lock'[work'[x].at] = x
    <3>1. At(x) # d
      BY <1>2, <2>2 DEF LeftCalls, Holding, Calling
    <3>2. work'[x] = work[x]
      BY <1>3, <3>1
    <3>3. lock[At(x)] = x /\ At(x) \in Daemons
      BY <1>0, <2>2, <3>2, WithDaemon DEF LockInv
    <3>4. QED BY <1>5, <3>1, <3>2, <3>3 DEF At
  <2>3. QED BY <1>0, <2>1, <2>2 DEF LockInv, At
<1>10. UndoInv'
  <2> SUFFICES ASSUME NEW x \in Actors, work'[x].step = "undo"
               PROVE  unsure[work'[x].at]
    BY DEF UndoInv, At
  <2>1. At(x) # d
    BY <1>2 DEF LeftCalls
  <2>2. QED BY <1>0, <1>3, <2>1 DEF UndoInv, At
<1>11. AloneInv'
  BY <1>0, <1>1 DEF AloneInv, Alive
<1>12. RouteInv'
  <2> SUFFICES ASSUME NEW e \in Daemons, alone[e], daemon'[e].step \in Listening, ~overtaken[e]
               PROVE  /\ active[e] => route = daemon'[e].port
                      /\ \A x \in Actors : work'[x].step = "info" /\ work'[x].at = e =>
                             route = daemon'[e].port
    BY DEF RouteInv, At
  <2>1. e # d /\ daemon'[e] = daemon[e]
    BY <1>1 DEF Listening
  <2>2. \A x \in Actors : work'[x].step = "info" => work'[x] = work[x]
    BY <1>2, <1>3 DEF LeftCalls
  <2>3. QED BY <1>0, <2>1, <2>2 DEF RouteInv, At
<1>13. SocketInv'
  <2> SUFFICES ASSUME NEW e \in Daemons, alone[e], daemon'[e].step = "up"
               PROVE  socket' = e
    BY DEF SocketInv
  <2>1. e # d /\ daemon[e].step = "up"
    BY <1>1
  <2>2. QED BY <1>0, <2>1 DEF AloneInv, Alive
<1>14. UrlInv'
  BY <1>0, <1>1, <1>5 DEF UrlInv
<1>15. QED BY <1>6, <1>7, <1>8, <1>9, <1>10, <1>11, <1>12, <1>13, <1>14 DEF IInv

\* The tunnel did not open.
LEMMA StartFailsStep ==
  ASSUME IInv, NEW d \in Daemons, StartFails(d)
  PROVE  IInv'
<1>1. count' \in [failures : 0..MaxFailures, kills : 0..MaxKills, cancels : 0..MaxCancels]
  BY TunnelAssumption DEF StartFails, IInv, TypeOK
<1>2. QED BY <1>1, EndsStep DEF StartFails, Alive

\* The socket did not.
LEMMA SocketFailsStep ==
  ASSUME IInv, NEW d \in Daemons, SocketFails(d)
  PROVE  IInv'
<1>1. count' \in [failures : 0..MaxFailures, kills : 0..MaxKills, cancels : 0..MaxCancels]
  BY TunnelAssumption DEF SocketFails, IInv, TypeOK
<1>2. QED BY <1>1, EndsStep DEF SocketFails, Alive

\* The daemon is up.
LEMMA OpenSocketStep ==
  ASSUME IInv, NEW d \in Daemons, OpenSocket(d)
  PROVE  IInv'
<1> USE TunnelAssumption, OwnAssumption DEF Provider, Unset, ProviderUrl
<1>0. /\ TypeOK /\ WorkInv /\ FreshInv /\ LockInv
      /\ UndoInv /\ AloneInv /\ RouteInv /\ SocketInv
      /\ UrlInv
  BY DEF IInv
<1>1. TypeOK'
  <2>1. [daemon[d] EXCEPT !.step = "up"] \in DaemonState
    BY <1>0 DEF TypeOK, DaemonState
  <2>2. NoWork \in WorkState
    BY DEF NoWork, WorkState, WorkSteps
  <2>3. QED BY <1>0, <2>1, <2>2 DEF OpenSocket, TypeOK
<1>2. WorkInv'
  BY <1>0 DEF OpenSocket, NoWork, WorkInv, LockInv, TypeOK, DaemonState, WorkState, Actors,
      Choices, Calling, Holding, LeftCalls, At, Alive, Listening
<1>3. FreshInv'
  BY <1>0 DEF OpenSocket, NoWork, FreshInv, WorkInv, TypeOK, DaemonState, WorkState, Actors,
      Choices, Calling, Holding, LeftCalls, At, Alive, Listening
<1>4. LockInv'
  BY <1>0 DEF OpenSocket, NoWork, LockInv, WorkInv, FreshInv, TypeOK, DaemonState, WorkState,
      Actors, Choices, Calling, Holding, LeftCalls, At, Alive, Listening
<1>5. UndoInv'
  BY <1>0 DEF OpenSocket, NoWork, UndoInv, LockInv, WorkInv, TypeOK, DaemonState, WorkState,
      Actors, Choices, Calling, Holding, LeftCalls, At, Alive, Listening
<1>6. AloneInv'
  BY <1>0 DEF OpenSocket, NoWork, AloneInv, TypeOK, DaemonState, WorkState, Actors, Choices,
      Calling, Holding, LeftCalls, At, Alive, Listening
<1>7. RouteInv'
  BY <1>0 DEF OpenSocket, NoWork, RouteInv, LockInv, WorkInv, FreshInv, AloneInv, RouteMatches,
      TypeOK, DaemonState, WorkState, Actors, Choices, Calling, Holding, LeftCalls, At, Alive, Listening
<1>8. SocketInv'
  BY <1>0, SMTT(30) DEF OpenSocket, NoWork, SocketInv, AloneInv, WorkInv, TypeOK, DaemonState, WorkState,
      Actors, Choices, Calling, Holding, LeftCalls, At, Alive, Listening
<1>9. UrlInv'
  BY <1>0 DEF OpenSocket, NoWork, UrlInv, LockInv, WorkInv, FreshInv, UndoInv, Urls, TypeOK,
      DaemonState, WorkState, Actors, Choices, Calling, Holding, LeftCalls, At, Alive, Listening
<1>10. QED BY <1>1, <1>2, <1>3, <1>4, <1>5, <1>6, <1>7, <1>8, <1>9 DEF IInv

\* It is told to stop.
LEMMA StopStep ==
  ASSUME IInv, NEW d \in Daemons, Stop(d)
  PROVE  IInv'
<1> USE TunnelAssumption, OwnAssumption DEF Provider, Unset, ProviderUrl
<1>0. /\ TypeOK /\ WorkInv /\ FreshInv /\ LockInv
      /\ UndoInv /\ AloneInv /\ RouteInv /\ SocketInv
      /\ UrlInv
  BY DEF IInv
<1>1. TypeOK'
  <2>1. [daemon[d] EXCEPT !.step = "closing"] \in DaemonState
    BY <1>0 DEF TypeOK, DaemonState
  <2>2. [NoWork EXCEPT !.step = "lock", !.at = d] \in WorkState
    BY DEF NoWork, WorkState, WorkSteps
  <2>3. QED BY <1>0, <2>1, <2>2 DEF Stop, TypeOK
<1>2. WorkInv'
  BY <1>0 DEF Stop, NoWork, WorkInv, LockInv, TypeOK, DaemonState, WorkState, Actors, Choices,
      Calling, Holding, LeftCalls, At, Alive, Listening
<1>3. FreshInv'
  BY <1>0 DEF Stop, NoWork, FreshInv, WorkInv, TypeOK, DaemonState, WorkState, Actors, Choices,
      Calling, Holding, LeftCalls, At, Alive, Listening
<1>4. LockInv'
  BY <1>0 DEF Stop, NoWork, LockInv, WorkInv, FreshInv, TypeOK, DaemonState, WorkState, Actors,
      Choices, Calling, Holding, LeftCalls, At, Alive, Listening
<1>5. UndoInv'
  BY <1>0 DEF Stop, NoWork, UndoInv, LockInv, WorkInv, TypeOK, DaemonState, WorkState, Actors,
      Choices, Calling, Holding, LeftCalls, At, Alive, Listening
<1>6. AloneInv'
  BY <1>0 DEF Stop, NoWork, AloneInv, TypeOK, DaemonState, WorkState, Actors, Choices, Calling,
      Holding, LeftCalls, At, Alive, Listening
<1>7. RouteInv'
  BY <1>0 DEF Stop, NoWork, RouteInv, LockInv, WorkInv, FreshInv, AloneInv, RouteMatches,
      TypeOK, DaemonState, WorkState, Actors, Choices, Calling, Holding, LeftCalls, At, Alive, Listening
<1>8. SocketInv'
  BY <1>0 DEF Stop, NoWork, SocketInv, AloneInv, WorkInv, TypeOK, DaemonState, WorkState,
      Actors, Choices, Calling, Holding, LeftCalls, At, Alive, Listening
<1>9. UrlInv'
  BY <1>0 DEF Stop, NoWork, UrlInv, LockInv, WorkInv, FreshInv, UndoInv, Urls, TypeOK,
      DaemonState, WorkState, Actors, Choices, Calling, Holding, LeftCalls, At, Alive, Listening
<1>10. QED BY <1>1, <1>2, <1>3, <1>4, <1>5, <1>6, <1>7, <1>8, <1>9 DEF IInv

\* It has stopped.
LEMMA ExitStep ==
  ASSUME IInv, NEW d \in Daemons, Exit(d)
  PROVE  IInv'
<1>1. count' \in [failures : 0..MaxFailures, kills : 0..MaxKills, cancels : 0..MaxCancels]
  BY TunnelAssumption DEF Exit, IInv, TypeOK
<1>2. QED BY <1>1, EndsStep DEF Exit, Alive

\* It is killed.
LEMMA KillStep ==
  ASSUME IInv, NEW d \in Daemons, Kill(d)
  PROVE  IInv'
<1>1. count' \in [failures : 0..MaxFailures, kills : 0..MaxKills, cancels : 0..MaxCancels]
  BY TunnelAssumption DEF Kill, IInv, TypeOK
<1>2. QED BY <1>1, EndsStep DEF Kill, Alive

\* Another program takes a port.
LEMMA OccupyStep ==
  ASSUME IInv, NEW p \in Ports, Occupy(p)
  PROVE  IInv'
<1> USE TunnelAssumption, OwnAssumption DEF Provider, Unset, ProviderUrl
<1>0. /\ TypeOK /\ WorkInv /\ FreshInv /\ LockInv
      /\ UndoInv /\ AloneInv /\ RouteInv /\ SocketInv
      /\ UrlInv
  BY DEF IInv
<1>1. TypeOK'
  BY <1>0 DEF Occupy, TypeOK, DaemonState, WorkState, Actors, Choices, Urls, Calling, At
<1>2. WorkInv'
  BY <1>0 DEF Occupy, WorkInv, LockInv, TypeOK, DaemonState, WorkState, Actors, Choices,
      Calling, Holding, LeftCalls, At, Alive, Listening
<1>3. FreshInv'
  BY <1>0 DEF Occupy, FreshInv, WorkInv, TypeOK, DaemonState, WorkState, Actors, Choices,
      Calling, Holding, LeftCalls, At, Alive, Listening
<1>4. LockInv'
  BY <1>0 DEF Occupy, LockInv, WorkInv, FreshInv, TypeOK, DaemonState, WorkState, Actors,
      Choices, Calling, Holding, LeftCalls, At, Alive, Listening
<1>5. UndoInv'
  BY <1>0 DEF Occupy, UndoInv, LockInv, WorkInv, TypeOK, DaemonState, WorkState, Actors,
      Choices, Calling, Holding, LeftCalls, At, Alive, Listening
<1>6. AloneInv'
  BY <1>0 DEF Occupy, AloneInv, TypeOK, DaemonState, WorkState, Actors, Choices, Calling,
      Holding, LeftCalls, At, Alive, Listening
<1>7. RouteInv'
  BY <1>0 DEF Occupy, RouteInv, LockInv, WorkInv, FreshInv, AloneInv, RouteMatches, TypeOK,
      DaemonState, WorkState, Actors, Choices, Calling, Holding, LeftCalls, At, Alive, Listening
<1>8. SocketInv'
  BY <1>0 DEF Occupy, SocketInv, AloneInv, WorkInv, TypeOK, DaemonState, WorkState, Actors,
      Choices, Calling, Holding, LeftCalls, At, Alive, Listening
<1>9. UrlInv'
  BY <1>0 DEF Occupy, UrlInv, LockInv, WorkInv, FreshInv, UndoInv, Urls, TypeOK, DaemonState,
      WorkState, Actors, Choices, Calling, Holding, LeftCalls, At, Alive, Listening
<1>10. QED BY <1>1, <1>2, <1>3, <1>4, <1>5, <1>6, <1>7, <1>8, <1>9 DEF IInv

\* A choice is saved.
LEMMA SaveStep ==
  ASSUME IInv, NEW r \in Requests, NEW choice \in Choices, Save(r, choice)
  PROVE  IInv'
<1> USE TunnelAssumption, OwnAssumption DEF Provider, Unset, ProviderUrl
<1>0. /\ TypeOK /\ WorkInv /\ FreshInv /\ LockInv
      /\ UndoInv /\ AloneInv /\ RouteInv /\ SocketInv
      /\ UrlInv
  BY DEF IInv
<1>1. TypeOK'
  <2>1. \A s \in {"ask", "done"} : [NoWork EXCEPT !.step = s, !.choice = choice] \in WorkState
    BY DEF NoWork, WorkState, WorkSteps
  <2>2. work' \in [Actors -> WorkState]
    BY <1>0, <2>1 DEF Save, TypeOK
  <2>3. QED BY <1>0, <2>2 DEF Save, TypeOK
<1>2. WorkInv'
  BY <1>0 DEF Save, NoWork, Answers, WorkInv, LockInv, TypeOK, DaemonState, WorkState, Actors,
      Choices, Calling, Holding, LeftCalls, At, Alive, Listening
<1>3. FreshInv'
  BY <1>0 DEF Save, NoWork, Answers, FreshInv, WorkInv, TypeOK, DaemonState, WorkState, Actors,
      Choices, Calling, Holding, LeftCalls, At, Alive, Listening
<1>4. LockInv'
  BY <1>0 DEF Save, NoWork, Answers, LockInv, WorkInv, FreshInv, TypeOK, DaemonState, WorkState,
      Actors, Choices, Calling, Holding, LeftCalls, At, Alive, Listening
<1>5. UndoInv'
  BY <1>0 DEF Save, NoWork, Answers, UndoInv, LockInv, WorkInv, TypeOK, DaemonState, WorkState,
      Actors, Choices, Calling, Holding, LeftCalls, At, Alive, Listening
<1>6. AloneInv'
  BY <1>0 DEF Save, NoWork, Answers, AloneInv, TypeOK, DaemonState, WorkState, Actors, Choices,
      Calling, Holding, LeftCalls, At, Alive, Listening
<1>7. RouteInv'
  BY <1>0 DEF Save, NoWork, Answers, RouteInv, LockInv, WorkInv, FreshInv, AloneInv,
      RouteMatches, TypeOK, DaemonState, WorkState, Actors, Choices, Calling, Holding, LeftCalls, At,
      Alive, Listening
<1>8. SocketInv'
  BY <1>0 DEF Save, NoWork, Answers, SocketInv, AloneInv, WorkInv, TypeOK, DaemonState,
      WorkState, Actors, Choices, Calling, Holding, LeftCalls, At, Alive, Listening
<1>9. UrlInv'
  BY <1>0 DEF Save, NoWork, Answers, UrlInv, LockInv, WorkInv, FreshInv, UndoInv, Urls, TypeOK,
      DaemonState, WorkState, Actors, Choices, Calling, Holding, LeftCalls, At, Alive, Listening
<1>10. QED BY <1>1, <1>2, <1>3, <1>4, <1>5, <1>6, <1>7, <1>8, <1>9 DEF IInv

\* The daemon is asked to follow it.
LEMMA AskStep ==
  ASSUME IInv, NEW r \in Requests, Ask(r)
  PROVE  IInv'
<1> USE TunnelAssumption, OwnAssumption DEF Provider, Unset, ProviderUrl
<1>0. /\ TypeOK /\ WorkInv /\ FreshInv /\ LockInv
      /\ UndoInv /\ AloneInv /\ RouteInv /\ SocketInv
      /\ UrlInv
  BY DEF IInv
<1>1. TypeOK'
  <2>a. work[r] \in WorkState
    BY <1>0 DEF TypeOK, Actors
  <2>1. [work[r] EXCEPT !.step = "failed"] \in WorkState
    BY <2>a DEF WorkState, WorkSteps
  <2>b. Answers(socket) => socket \in Daemons /\ url[socket] \in Urls \union {Unset}
    BY <1>0 DEF TypeOK, Answers
  <2>2. Answers(socket) =>
          [work[r] EXCEPT !.step = "compare", !.at = socket, !.current = url[socket]] \in WorkState
    BY <2>a, <2>b DEF WorkState, WorkSteps
  <2>3. work' \in [Actors -> WorkState]
    BY <1>0, <2>1, <2>2 DEF Ask, TypeOK
  <2>4. QED BY <1>0, <2>3 DEF Ask, TypeOK
<1>2. WorkInv'
  BY <1>0 DEF Ask, Answers, WorkInv, LockInv, TypeOK, DaemonState, WorkState, Actors, Choices,
      Calling, Holding, LeftCalls, At, Alive, Listening
<1>3. FreshInv'
  BY <1>0 DEF Ask, Answers, FreshInv, WorkInv, TypeOK, DaemonState, WorkState, Actors, Choices,
      Calling, Holding, LeftCalls, At, Alive, Listening
<1>4. LockInv'
  BY <1>0 DEF Ask, Answers, LockInv, WorkInv, FreshInv, TypeOK, DaemonState, WorkState, Actors,
      Choices, Calling, Holding, LeftCalls, At, Alive, Listening
<1>5. UndoInv'
  BY <1>0 DEF Ask, Answers, UndoInv, LockInv, WorkInv, TypeOK, DaemonState, WorkState, Actors,
      Choices, Calling, Holding, LeftCalls, At, Alive, Listening
<1>6. AloneInv'
  BY <1>0 DEF Ask, Answers, AloneInv, TypeOK, DaemonState, WorkState, Actors, Choices, Calling,
      Holding, LeftCalls, At, Alive, Listening
<1>7. RouteInv'
  BY <1>0 DEF Ask, Answers, RouteInv, LockInv, WorkInv, FreshInv, AloneInv, RouteMatches,
      TypeOK, DaemonState, WorkState, Actors, Choices, Calling, Holding, LeftCalls, At, Alive, Listening
<1>8. SocketInv'
  BY <1>0 DEF Ask, Answers, SocketInv, AloneInv, WorkInv, TypeOK, DaemonState, WorkState,
      Actors, Choices, Calling, Holding, LeftCalls, At, Alive, Listening
<1>9. UrlInv'
  BY <1>0 DEF Ask, Answers, UrlInv, LockInv, WorkInv, FreshInv, UndoInv, Urls, TypeOK,
      DaemonState, WorkState, Actors, Choices, Calling, Holding, LeftCalls, At, Alive, Listening
<1>10. QED BY <1>1, <1>2, <1>3, <1>4, <1>5, <1>6, <1>7, <1>8, <1>9 DEF IInv

\* It may be what the daemon has.
LEMMA CompareStep ==
  ASSUME IInv, NEW r \in Requests, Compare(r)
  PROVE  IInv'
<1> USE TunnelAssumption, OwnAssumption DEF Provider, Unset, ProviderUrl
<1>0. /\ TypeOK /\ WorkInv /\ FreshInv /\ LockInv
      /\ UndoInv /\ AloneInv /\ RouteInv /\ SocketInv
      /\ UrlInv
  BY DEF IInv
<1>1. TypeOK'
  <2>1. PICK step \in WorkSteps : Goes(r, step)
    BY <1>0 DEF Compare, WorkSteps
  <2>2. r \in Actors
    BY DEF Actors
  <2>3. work' \in [Actors -> WorkState]
    BY <1>0, <2>1, <2>2, GoesType
  <2>4. QED BY <1>0, <2>3 DEF Compare, TypeOK
<1>2. WorkInv'
  BY <1>0 DEF Compare, Goes, WorkInv, LockInv, TypeOK, DaemonState, WorkState, Actors, Choices,
      Calling, Holding, LeftCalls, At, Alive, Listening
<1>3. FreshInv'
  BY <1>0 DEF Compare, Goes, FreshInv, WorkInv, TypeOK, DaemonState, WorkState, Actors, Choices,
      Calling, Holding, LeftCalls, At, Alive, Listening
<1>4. LockInv'
  BY <1>0 DEF Compare, Goes, LockInv, WorkInv, FreshInv, TypeOK, DaemonState, WorkState, Actors,
      Choices, Calling, Holding, LeftCalls, At, Alive, Listening
<1>5. UndoInv'
  BY <1>0 DEF Compare, Goes, UndoInv, LockInv, WorkInv, TypeOK, DaemonState, WorkState, Actors,
      Choices, Calling, Holding, LeftCalls, At, Alive, Listening
<1>6. AloneInv'
  BY <1>0 DEF Compare, Goes, AloneInv, TypeOK, DaemonState, WorkState, Actors, Choices, Calling,
      Holding, LeftCalls, At, Alive, Listening
<1>7. RouteInv'
  BY <1>0 DEF Compare, Goes, RouteInv, LockInv, WorkInv, FreshInv, AloneInv, RouteMatches,
      TypeOK, DaemonState, WorkState, Actors, Choices, Calling, Holding, LeftCalls, At, Alive, Listening
<1>8. SocketInv'
  BY <1>0 DEF Compare, Goes, SocketInv, AloneInv, WorkInv, TypeOK, DaemonState, WorkState,
      Actors, Choices, Calling, Holding, LeftCalls, At, Alive, Listening
<1>9. UrlInv'
  BY <1>0 DEF Compare, Goes, UrlInv, LockInv, WorkInv, FreshInv, UndoInv, Urls, TypeOK,
      DaemonState, WorkState, Actors, Choices, Calling, Holding, LeftCalls, At, Alive, Listening
<1>10. QED BY <1>1, <1>2, <1>3, <1>4, <1>5, <1>6, <1>7, <1>8, <1>9 DEF IInv

\* Or nobody waits for the answer.
LEMMA CancelStep ==
  ASSUME IInv, NEW r \in Requests, Cancel(r)
  PROVE  IInv'
<1> USE TunnelAssumption, OwnAssumption DEF Provider, Unset, ProviderUrl
<1>0. /\ TypeOK /\ WorkInv /\ FreshInv /\ LockInv
      /\ UndoInv /\ AloneInv /\ RouteInv /\ SocketInv
      /\ UrlInv
  BY DEF IInv
<1>a. r \in Actors /\ At(r) \in Daemons
  <2>1. r \in Actors
    BY DEF Actors
  <2>2. QED BY <1>0, <2>1, WithDaemon DEF Cancel, Holding
<1>b. /\ work' \in [Actors -> WorkState] /\ work'[r].step \in LeftCalls \union {"failed"}
      /\ work'[r].at = work[r].at /\ work'[r].choice = work[r].choice
      /\ \A y \in Actors : y # r => work'[y] = work[y]
  <2>1. Left(work[r].step) \in LeftCalls \union {"failed"} /\ work[r] \in WorkState
    BY <1>0, <1>a DEF Left, LeftCalls, TypeOK
  <2>2. Left(work[r].step) \in WorkSteps /\ Goes(r, Left(work[r].step))
    BY <2>1 DEF Cancel, WorkSteps
  <2>3. work' \in [Actors -> WorkState]
    BY <1>0, <1>a, <2>2, GoesType
  <2>4. QED BY <1>0, <1>a, <2>1, <2>2, <2>3 DEF Goes, TypeOK, WorkState
<1>c. /\ UNCHANGED <<route, saved, stored, socket, daemon, active, url, alone, overtaken, foreign>>
      /\ \A e \in Daemons : lock'[e] = IF e = At(r) /\ lock[e] = r THEN Nobody ELSE lock[e]
  BY <1>0 DEF Cancel, TypeOK
<1>1. TypeOK'
  <2>2. work' \in [Actors -> WorkState] /\ unsure' \in [Daemons -> BOOLEAN]
    BY <1>0, <1>a, <1>b DEF Cancel, TypeOK
  <2>3. lock' \in [Daemons -> Actors \union {Nobody}]
    BY <1>0, <1>a DEF Cancel, TypeOK
  <2>4. count' \in [failures : 0..MaxFailures, kills : 0..MaxKills, cancels : 0..MaxCancels]
    BY <1>0 DEF Cancel, TypeOK
  <2>5. QED BY <1>0, <2>2, <2>3, <2>4 DEF Cancel, TypeOK
<1>2. WorkInv'
  BY <1>0, <1>a, <1>b, <1>c, SMTT(30) DEF WorkInv, Holding, Calling, LeftCalls, At, Actors
<1>3. FreshInv'
  BY <1>0, <1>c DEF FreshInv
<1>4. LockInv'
  BY <1>0, <1>a, <1>b, <1>c, SMTT(30) DEF LockInv, TypeOK, WorkInv, Holding, Calling, LeftCalls, At
<1>5. UndoInv'
  <2> SUFFICES ASSUME NEW x \in Actors, work'[x].step = "undo"
               PROVE  unsure'[work'[x].at]
    BY DEF UndoInv, At
  <2>1. x # r /\ work'[x] = work[x] /\ unsure[At(x)] /\ At(x) \in Daemons
    BY <1>0, <1>b, WithDaemon DEF UndoInv, LeftCalls, Holding, Calling
  <2>2. QED BY <1>0, <2>1 DEF Cancel, TypeOK, At
<1>6. AloneInv'
  BY <1>0, <1>c DEF AloneInv, Alive
<1>7. RouteInv'
  BY <1>0, <1>b, <1>c DEF RouteInv, LeftCalls, At
<1>8. SocketInv'
  BY <1>0, <1>c DEF SocketInv
<1>9. UrlInv'
  <2> SUFFICES ASSUME NEW d \in Daemons, daemon[d].step \notin {"closing", "ended"},
                      lock'[d] = Nobody, ~unsure'[d]
               PROVE  (url[d] = ProviderUrl) <=> active[d]
    BY <1>0 DEF Cancel, UrlInv
  <2>1. CASE lock[d] = Nobody
    <3>1. ~unsure[d]
      BY <1>0, <1>a DEF Cancel, TypeOK
    <3>2. QED BY <1>0, <2>1, <3>1 DEF UrlInv
  <2>2. CASE lock[d] # Nobody
    <3>1. d = At(r) /\ lock[d] = r
      BY <1>0, <1>a, <2>2 DEF Cancel, TypeOK
    <3>2. QED BY <1>0, <1>a, <3>1 DEF Cancel, TypeOK
  <2>3. QED BY <2>1, <2>2
<1>10. QED BY <1>1, <1>2, <1>3, <1>4, <1>5, <1>6, <1>7, <1>8, <1>9 DEF IInv

-----------------------------------------------------------------------------
(* The theorems.                                                           *)

LEMMA InitInv == Init => IInv
<1> SUFFICES ASSUME Init PROVE IInv
  OBVIOUS
<1> USE TunnelAssumption, OwnAssumption DEF Provider, Unset, ProviderUrl
<1>1. TypeOK
  <2>1. NoWork \in WorkState
    BY DEF NoWork, WorkState, WorkSteps
  <2>2. [step |-> "off", port |-> NoPort, tunnel |-> Unset] \in DaemonState
    BY DEF DaemonState
  <2>3. daemon \in [Daemons -> DaemonState] /\ work \in [Actors -> WorkState]
    BY <2>1, <2>2 DEF Init
  <2>4. count \in [failures : 0..MaxFailures, kills : 0..MaxKills, cancels : 0..MaxCancels]
    BY DEF Init
  <2>5. QED BY <2>3, <2>4 DEF Init, TypeOK, Choices, Urls
<1>2. WorkInv /\ FreshInv /\ LockInv /\ UndoInv
  <2>1. \A x \in Actors : work[x].step = "none" /\ work[x].at = Nobody
    BY DEF Init, NoWork
  <2>2. WorkInv
    BY <2>1 DEF WorkInv, At, Holding, Calling, LeftCalls, Actors
  <2>3. FreshInv /\ LockInv /\ UndoInv
    BY <2>1 DEF Init, FreshInv, LockInv, UndoInv, Holding, Calling, Listening
  <2>4. QED BY <2>2, <2>3
<1>3. AloneInv /\ RouteInv /\ SocketInv /\ UrlInv
  BY DEF Init, AloneInv, RouteInv, SocketInv, UrlInv
<1>4. QED BY <1>1, <1>2, <1>3 DEF IInv

LEMMA NextInv == IInv /\ [Next]_vars => IInv'
<1> SUFFICES ASSUME IInv, [Next]_vars PROVE IInv'
  OBVIOUS
<1>1. ASSUME NEW x \in Actors, Connect(x) PROVE IInv'
  BY <1>1, TakeLockStep, UnrouteStep, OpenNothingStep, OpenProviderStep, CreateStep, ListStep,
     RemoveStep, AddStep, InfoStep, UndoStep DEF Connect
<1>2. ASSUME NEW d \in Daemons, Start(d) \/ Run(d) \/ SocketFails(d) \/ Stop(d) \/ Kill(d)
      PROVE  IInv'
  <2>1. d \in Actors
    BY DEF Actors
  <2>2. CASE Connect(d)
    BY <1>1, <2>1, <2>2
  <2>3. CASE Start(d) \/ SocketFails(d) \/ Stop(d) \/ Kill(d)
    BY <2>3, StartStep, SocketFailsStep, StopStep, KillStep
  <2>4. CASE ResolveTunnel(d) \/ ChoosePorts(d) \/ Bind(d) \/ StartFails(d) \/ OpenSocket(d) \/ Exit(d)
    BY <2>4, ResolveTunnelStep, ChoosePortsStep, BindStep, StartFailsStep, OpenSocketStep, ExitStep
  <2>5. QED BY <1>2, <2>2, <2>3, <2>4 DEF Run
<1>3. ASSUME NEW r \in Requests, Switch(r) \/ Cancel(r) \/ \E choice \in Choices : Save(r, choice)
      PROVE  IInv'
  <2>1. r \in Actors
    BY DEF Actors
  <2>2. CASE Connect(r)
    BY <1>1, <2>1, <2>2
  <2>3. QED BY <1>3, <2>2, AskStep, CompareStep, CancelStep, SaveStep DEF Switch
<1>4. ASSUME NEW x \in Actors, CallFails(x) \/ LateCall(x) PROVE IInv'
  BY <1>4, CallFailsStep, LateCallStep
<1>5. ASSUME NEW p \in Ports, Occupy(p) PROVE IInv'
  BY <1>5, OccupyStep
<1>6. CASE UNCHANGED vars
  BY <1>6 DEF vars, IInv, TypeOK, WorkInv, FreshInv, LockInv, UndoInv, AloneInv, RouteInv, SocketInv,
              UrlInv, At, Alive
<1>7. QED BY <1>1, <1>2, <1>3, <1>4, <1>5, <1>6 DEF Next

\* The inductive invariant holds in every reachable state.
THEOREM Invariance == Spec => []IInv
<1>1. QED BY InitInv, NextInv, PTL DEF Spec

\* Every variable keeps its type, and no failure is counted beyond its bound.
THEOREM TypesHold == Spec => []TypeOK
<1>1. QED BY Invariance, PTL DEF IInv

\* A daemon on its own is the one the commands talk to, and an open tunnel leads to it.
THEOREM SoleDaemonIsTheOneReached == Spec => []SoleDaemonIsReached
<1>1. IInv => SoleDaemonIsReached
  BY DEF IInv, SoleDaemonIsReached, SocketInv, RouteInv, Answers, Listening
<1>2. QED BY Invariance, <1>1, PTL

\* The address a daemon gives out is the one it serves.
THEOREM AddressGivenIsServed == Spec => []AddressIsServed
<1>1. IInv => AddressIsServed
  BY DEF IInv, AddressIsServed, UrlInv, Answers
<1>2. QED BY Invariance, <1>1, PTL
=============================================================================
