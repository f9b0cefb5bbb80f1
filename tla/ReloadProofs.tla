---------------------------- MODULE ReloadProofs ----------------------------
(***************************************************************************)
(* Proofs about Reload, for every number of links, requests, edits and     *)
(* failures. One inductive invariant, IInv.                                *)
(***************************************************************************)
EXTENDS Reload, TLAPS

\* A link is served as its signature says or not at all, except between the
\* moment new signatures are saved and the moment the plans follow.
PlanInv ==
    \A l \in Links :
        IF apply.step = "sync" /\ apply.loaded[l] # Broken
        THEN signatures[l] = Compiled(apply.loaded)[l]
        ELSE plans[l] \in {signatures[l], Absent}

\* The reload still has to revoke only links that are to be revoked.
TodoInv ==
    /\ apply.step = "idle" => apply.todo = {}
    /\ apply.step = "sync" => apply.todo = {} /\ ~apply.failed
    /\ \A l \in apply.todo :
          apply.loaded[l] # Broken /\ (apply.loaded[l] # Absent => apply.loaded[l] # signatures[l])

\* Nobody has been shown anything before the request is in the database.
NewInv ==
    \A r \in Requests :
        /\ request[r].state \in {"new", "found"} => request[r].shown = Never
        /\ request[r].state # "new" => request[r].link \in Links

\* Who was shown a membership was shown the one of the signature, so that a
\* change will be noticed; and a reload that is past the link, having failed
\* nowhere, found it to be the one it is shown as and served as.
Passed(l) == apply.step # "idle" /\ ~apply.failed /\ l \notin apply.todo

ShownInv ==
    \A r \in Requests : Connected(r) /\ r \notin windowed =>
        LET l == request[r].link
            m == request[r].shown IN
        /\ m \in Memberships => signatures[l] = m
        /\ Passed(l) =>
              /\ m \in Memberships => apply.loaded[l] \in {m, Broken}
              /\ plans[l] \in Memberships => apply.loaded[l] \in {plans[l], Broken}

IInv ==
    /\ TypeOK
    /\ PlanInv
    /\ TodoInv
    /\ NewInv
    /\ ShownInv

LEMMA FinishType ==
  ASSUME TypeOK, NEW c \in Callers, Finish(c)
  PROVE  /\ apply' \in ApplyState /\ apply'.step = "idle"
         /\ caller' \in [Callers -> [step : {"idle", "queued"}, current : Contents \union {Never}]]
         /\ serving' \in BOOLEAN
  BY DEF TypeOK, Finish, NoApply, NoCall, ApplyState, Callers, Contents

LEMMA EndedType ==
  ASSUME TypeOK, NEW rs \in SUBSET Requests
  PROVE  EndedAmong(rs) \in [Requests -> RequestState]
<1>1. \A r \in Requests : [request[r] EXCEPT !.state = "ended"] \in RequestState
  BY DEF TypeOK, RequestState
<1>2. QED BY <1>1 DEF TypeOK, EndedAmong

-----------------------------------------------------------------------------
(* One lemma per action: it keeps IInv.                                    *)


\* The file changes, and nothing else.
LEMMA EditStep ==
  ASSUME IInv, NEW contents \in Contents, Edit(contents)
  PROVE  IInv'
<1> USE ReloadAssumption DEF reloader
<1>0. /\ TypeOK /\ PlanInv /\ TodoInv /\ NewInv
      /\ ShownInv
  BY DEF IInv
<1>1. TypeOK'
  BY <1>0 DEF Edit, TypeOK, Settings, Contents, ApplyState, RequestState, Callers
<1>2. PlanInv'
  BY <1>0 DEF Edit, PlanInv, TodoInv, Compiled, TypeOK, Settings, ApplyState, RequestState
<1>3. TodoInv'
  BY <1>0 DEF Edit, TodoInv, TypeOK, Settings, ApplyState, RequestState
<1>4. NewInv'
  BY <1>0 DEF Edit, NewInv, TypeOK, Settings, ApplyState, RequestState
<1>5. ShownInv'
  BY <1>0 DEF Edit, ShownInv, Connected, Passed, NewInv, PlanInv, TodoInv, Compiled, TypeOK,
      Settings, ApplyState, RequestState
<1>6. QED BY <1>1, <1>2, <1>3, <1>4, <1>5 DEF IInv

\* The watcher sees that.
LEMMA NoticeStep ==
  ASSUME IInv, Notice
  PROVE  IInv'
<1> USE ReloadAssumption DEF reloader
<1>0. /\ TypeOK /\ PlanInv /\ TodoInv /\ NewInv
      /\ ShownInv
  BY DEF IInv
<1>1. TypeOK'
  BY <1>0 DEF Notice, TypeOK, Settings, Contents, ApplyState, RequestState, Callers
<1>2. PlanInv'
  BY <1>0 DEF Notice, PlanInv, TodoInv, Compiled, TypeOK, Settings, ApplyState, RequestState
<1>3. TodoInv'
  BY <1>0 DEF Notice, TodoInv, TypeOK, Settings, ApplyState, RequestState
<1>4. NewInv'
  BY <1>0 DEF Notice, NewInv, TypeOK, Settings, ApplyState, RequestState
<1>5. ShownInv'
  BY <1>0 DEF Notice, ShownInv, Connected, Passed, NewInv, PlanInv, TodoInv, Compiled, TypeOK,
      Settings, ApplyState, RequestState
<1>6. QED BY <1>1, <1>2, <1>3, <1>4, <1>5 DEF IInv

\* Or somebody orders a reload.
LEMMA OrderStep ==
  ASSUME IInv, Order
  PROVE  IInv'
<1> USE ReloadAssumption DEF reloader
<1>0. /\ TypeOK /\ PlanInv /\ TodoInv /\ NewInv
      /\ ShownInv
  BY DEF IInv
<1>1. TypeOK'
  BY <1>0 DEF Order, TypeOK, Settings, Contents, ApplyState, RequestState, Callers
<1>2. PlanInv'
  BY <1>0 DEF Order, PlanInv, TodoInv, Compiled, TypeOK, Settings, ApplyState, RequestState
<1>3. TodoInv'
  BY <1>0 DEF Order, TodoInv, TypeOK, Settings, ApplyState, RequestState
<1>4. NewInv'
  BY <1>0 DEF Order, NewInv, TypeOK, Settings, ApplyState, RequestState
<1>5. ShownInv'
  BY <1>0 DEF Order, ShownInv, Connected, Passed, NewInv, PlanInv, TodoInv, Compiled, TypeOK,
      Settings, ApplyState, RequestState
<1>6. QED BY <1>1, <1>2, <1>3, <1>4, <1>5 DEF IInv

\* The settings are loaded, and what is to be revoked is worked out.
LEMMA LoadStep ==
  ASSUME IInv, NEW c \in Callers, Load(c)
  PROVE  IInv'
<1> USE ReloadAssumption DEF reloader
<1>0. /\ TypeOK /\ PlanInv /\ TodoInv /\ NewInv
      /\ ShownInv
  BY DEF IInv
<1>1. TypeOK'
  <2>1. CASE file = Unreadable
    <3>1. Finish(c)
      BY <2>1 DEF Load
    <3>2. QED BY <1>0, <3>1, FinishType DEF Load, TypeOK
  <2>2. CASE file # Unreadable
    <3>1. file \in Settings /\ ToRevoke(file) \in SUBSET Links
      BY <1>0, <2>2 DEF TypeOK, Contents, ToRevoke, Removed, Changed
    <3>2. apply' = [step |-> "revoke", by |-> c, loaded |-> file, todo |-> ToRevoke(file), failed |-> FALSE]
      BY <2>2 DEF Load
    <3>3. apply' \in ApplyState
      BY <3>1, <3>2 DEF ApplyState, Contents
    <3>4. QED BY <1>0, <2>2, <3>1, <3>2, <3>3 DEF Load, TypeOK
  <2>3. QED BY <2>1, <2>2
<1>2. PlanInv'
  BY <1>0 DEF Load, ToRevoke, Removed, Changed, Finish, NoApply, NoCall, On, PlanInv, TodoInv,
      Compiled, TypeOK, Settings, ApplyState, RequestState
<1>3. TodoInv'
  BY <1>0 DEF Load, ToRevoke, Removed, Changed, Finish, NoApply, NoCall, On, TodoInv, TypeOK,
      Settings, ApplyState, RequestState
<1>4. NewInv'
  BY <1>0 DEF Load, ToRevoke, Removed, Changed, Finish, NoApply, NoCall, On, NewInv, TypeOK,
      Settings, ApplyState, RequestState
<1>5. ShownInv'
  <2>1. CASE file = Unreadable
    BY <1>0, <2>1 DEF Load, Finish, NoApply, ShownInv, Connected, Passed
  <2>2. CASE file # Unreadable
    <3>1. /\ file \in Settings
          /\ apply'.step = "revoke" /\ apply'.loaded = file /\ apply'.todo = ToRevoke(file)
      BY <1>0, <2>2 DEF Load, TypeOK, Contents
    <3> SUFFICES ASSUME NEW r \in Requests, Connected(r), r \notin windowed,
                        request[r].link \notin ToRevoke(file)
                 PROVE  LET l == request[r].link IN
                        /\ request[r].shown \in Memberships => file[l] \in {request[r].shown, Broken}
                        /\ plans[l] \in Memberships => file[l] \in {plans[l], Broken}
      BY <1>0, <3>1 DEF Load, ShownInv, Connected, Passed
    <3> DEFINE l == request[r].link
    <3>2. l \in Links
      BY <1>0 DEF Connected, NewInv
    <3>3. plans[l] \in {signatures[l], Absent}
      BY <1>0, <3>2 DEF Load, PlanInv
    <3>4. request[r].shown \in Memberships => signatures[l] = request[r].shown
      BY <1>0 DEF ShownInv
    <3>5. file[l] \in Memberships => file[l] = signatures[l]
      BY <3>2 DEF ToRevoke, Changed
    <3>6. file[l] = Absent => signatures[l] = Absent
      BY <3>2 DEF ToRevoke, Removed
    <3>7. file[l] \in Memberships \union {Absent, Broken}
      BY <3>1, <3>2 DEF Settings
    <3>8. QED BY <3>3, <3>4, <3>5, <3>6, <3>7
  <2>3. QED BY <2>1, <2>2
<1>6. QED BY <1>1, <1>2, <1>3, <1>4, <1>5 DEF IInv

\* Everybody on a changed link is out.
LEMMA RevokeServerStep ==
  ASSUME IInv, NEW l \in Links, RevokeServer(l)
  PROVE  IInv'
<1> USE ReloadAssumption DEF reloader
<1>0. /\ TypeOK /\ PlanInv /\ TodoInv /\ NewInv
      /\ ShownInv
  BY DEF IInv
<1>1. TypeOK'
  BY <1>0 DEF RevokeServer, EndedAmong, Standing, On, TypeOK, Settings, Contents, ApplyState,
      RequestState, Callers
<1>2. PlanInv'
  BY <1>0 DEF RevokeServer, EndedAmong, Standing, On, PlanInv, TodoInv, Compiled, TypeOK,
      Settings, ApplyState, RequestState
<1>3. TodoInv'
  BY <1>0 DEF RevokeServer, EndedAmong, Standing, On, TodoInv, TypeOK, Settings, ApplyState,
      RequestState
<1>4. NewInv'
  BY <1>0 DEF RevokeServer, EndedAmong, Standing, On, NewInv, TypeOK, Settings, ApplyState,
      RequestState
<1>5. ShownInv'
  BY <1>0 DEF RevokeServer, EndedAmong, Standing, On, ShownInv, Connected, Passed, NewInv,
      PlanInv, TodoInv, Compiled, TypeOK, Settings, ApplyState, RequestState
<1>6. QED BY <1>1, <1>2, <1>3, <1>4, <1>5 DEF IInv

\* Or only some; the reload has failed.
LEMMA RevokeFailsStep ==
  ASSUME IInv, NEW l \in Links, RevokeFails(l)
  PROVE  IInv'
<1> USE ReloadAssumption DEF reloader
<1>0. /\ TypeOK /\ PlanInv /\ TodoInv /\ NewInv
      /\ ShownInv
  BY DEF IInv
<1>1. TypeOK'
  <2>1. PICK some \in SUBSET Standing(l) : request' = EndedAmong(some)
    BY DEF RevokeFails
  <2>2. request' \in [Requests -> RequestState]
    BY <1>0, <2>1, EndedType DEF Standing, On
  <2>3. troubles' \in 0..MaxTroubles
    BY <1>0 DEF RevokeFails, TypeOK
  <2>4. apply' \in ApplyState
    BY <1>0 DEF RevokeFails, TypeOK, ApplyState
  <2>5. QED BY <1>0, <2>2, <2>3, <2>4 DEF RevokeFails, TypeOK, ApplyState
<1>2. PlanInv'
  BY <1>0 DEF RevokeFails, EndedAmong, Standing, On, PlanInv, TodoInv, Compiled, TypeOK,
      Settings, ApplyState, RequestState
<1>3. TodoInv'
  BY <1>0 DEF RevokeFails, EndedAmong, Standing, On, TodoInv, TypeOK, Settings, ApplyState,
      RequestState
<1>4. NewInv'
  BY <1>0 DEF RevokeFails, EndedAmong, Standing, On, NewInv, TypeOK, Settings, ApplyState,
      RequestState
<1>5. ShownInv'
  BY <1>0 DEF RevokeFails, EndedAmong, Standing, On, ShownInv, Connected, Passed, NewInv,
      PlanInv, TodoInv, Compiled, TypeOK, Settings, ApplyState, RequestState
<1>6. QED BY <1>1, <1>2, <1>3, <1>4, <1>5 DEF IInv

\* The new signatures are saved if nothing failed.
LEMMA SaveSignaturesStep ==
  ASSUME IInv, SaveSignatures
  PROVE  IInv'
<1> USE ReloadAssumption DEF reloader
<1>0. /\ TypeOK /\ PlanInv /\ TodoInv /\ NewInv
      /\ ShownInv
  BY DEF IInv
<1>1. TypeOK'
  <2>1. CASE apply.failed
    <3>1. Finish(apply.by) /\ apply.by \in Callers
      BY <1>0, <2>1 DEF SaveSignatures, TypeOK, ApplyState
    <3>2. QED BY <1>0, <2>1, <3>1, FinishType DEF SaveSignatures, TypeOK
  <2>2. CASE ~apply.failed
    <3>1. apply.loaded \in Settings
      BY <1>0 DEF SaveSignatures, TypeOK
    <3>2. signatures' \in [Links -> Memberships \union {Absent}]
      BY <1>0, <2>2, <3>1 DEF SaveSignatures, NextSignatures, Compiled, TypeOK, Settings
    <3>3. apply' \in ApplyState
      BY <1>0, <2>2 DEF SaveSignatures, TypeOK, ApplyState
    <3>4. QED BY <1>0, <2>2, <3>1, <3>2, <3>3 DEF SaveSignatures, TypeOK, ApplyState
  <2>3. QED BY <2>1, <2>2
<1>2. PlanInv'
  BY <1>0 DEF SaveSignatures, NextSignatures, Finish, NoApply, NoCall, PlanInv, TodoInv,
      Compiled, TypeOK, Settings, ApplyState, RequestState
<1>3. TodoInv'
  BY <1>0 DEF SaveSignatures, NextSignatures, Finish, NoApply, NoCall, TodoInv, TypeOK,
      Settings, ApplyState, RequestState
<1>4. NewInv'
  BY <1>0 DEF SaveSignatures, NextSignatures, Finish, NoApply, NoCall, NewInv, TypeOK, Settings,
      ApplyState, RequestState
<1>5. ShownInv'
  BY <1>0 DEF SaveSignatures, NextSignatures, Finish, NoApply, NoCall, ShownInv, Connected,
      Passed, NewInv, PlanInv, TodoInv, Compiled, TypeOK, Settings, ApplyState, RequestState
<1>6. QED BY <1>1, <1>2, <1>3, <1>4, <1>5 DEF IInv

\* A statement fails.
LEMMA StoreFailsStep ==
  ASSUME IInv, StoreFails
  PROVE  IInv'
<1> USE ReloadAssumption DEF reloader
<1>0. /\ TypeOK /\ PlanInv /\ TodoInv /\ NewInv
      /\ ShownInv
  BY DEF IInv
<1>1. TypeOK'
  BY <1>0 DEF StoreFails, Finish, NoApply, NoCall, TypeOK, Settings, Contents, ApplyState,
      RequestState, Callers
<1>2. PlanInv'
  BY <1>0 DEF StoreFails, Finish, NoApply, NoCall, PlanInv, TodoInv, Compiled, TypeOK, Settings,
      ApplyState, RequestState
<1>3. TodoInv'
  BY <1>0 DEF StoreFails, Finish, NoApply, NoCall, TodoInv, TypeOK, Settings, ApplyState,
      RequestState
<1>4. NewInv'
  BY <1>0 DEF StoreFails, Finish, NoApply, NoCall, NewInv, TypeOK, Settings, ApplyState,
      RequestState
<1>5. ShownInv'
  BY <1>0 DEF StoreFails, Finish, NoApply, NoCall, ShownInv, Connected, Passed, NewInv, PlanInv,
      TodoInv, Compiled, TypeOK, Settings, ApplyState, RequestState
<1>6. QED BY <1>1, <1>2, <1>3, <1>4, <1>5 DEF IInv

\* The plans follow the signatures.
LEMMA SyncStep ==
  ASSUME IInv, Sync
  PROVE  IInv'
<1> USE ReloadAssumption DEF reloader
<1>0. /\ TypeOK /\ PlanInv /\ TodoInv /\ NewInv
      /\ ShownInv
  BY DEF IInv
<1>1. TypeOK'
  <2>1. apply.loaded \in Settings /\ apply.by \in Callers
    BY <1>0 DEF Sync, TypeOK, ApplyState
  <2>2. plans' \in [Links -> Memberships \union {Absent}]
    BY <2>1 DEF Sync, Compiled, Settings
  <2>3. seen' \in Contents \union {Never}
    BY <1>0, <2>1 DEF Sync, SeenAtTheStart, TypeOK
  <2>4. Finish(apply.by)
    BY DEF Sync
  <2>5. QED BY <1>0, <2>1, <2>2, <2>3, <2>4, FinishType DEF Sync, TypeOK
<1>2. PlanInv'
  BY <1>0 DEF Sync, Finish, NoApply, NoCall, SeenAtTheStart, PlanInv, TodoInv, Compiled, TypeOK,
      Settings, ApplyState, RequestState
<1>3. TodoInv'
  BY <1>0 DEF Sync, Finish, NoApply, NoCall, SeenAtTheStart, TodoInv, TypeOK, Settings,
      ApplyState, RequestState
<1>4. NewInv'
  BY <1>0 DEF Sync, Finish, NoApply, NoCall, SeenAtTheStart, NewInv, TypeOK, Settings,
      ApplyState, RequestState
<1>5. ShownInv'
  BY <1>0 DEF Sync, Finish, NoApply, NoCall, SeenAtTheStart, ShownInv, Connected, Passed,
      NewInv, PlanInv, TodoInv, Compiled, TypeOK, Settings, ApplyState, RequestState
<1>6. QED BY <1>1, <1>2, <1>3, <1>4, <1>5 DEF IInv

\* Nothing is served until the next reload.
LEMMA RestartStep ==
  ASSUME IInv, Restart
  PROVE  IInv'
<1> USE ReloadAssumption DEF reloader
<1>0. /\ TypeOK /\ PlanInv /\ TodoInv /\ NewInv
      /\ ShownInv
  BY DEF IInv
<1>1. TypeOK'
  <2>1. request' \in [Requests -> RequestState]
    BY <1>0, EndedType DEF Restart
  <2>2. apply' \in ApplyState /\ apply'.step = "idle"
    BY DEF Restart, NoApply, ApplyState, Contents, Callers
  <2>3. caller' \in [Callers -> [step : {"idle", "queued"}, current : Contents \union {Never}]]
    BY DEF Restart, NoCall
  <2>4. troubles' \in 0..MaxTroubles
    BY <1>0 DEF Restart, TypeOK
  <2>5. plans' \in [Links -> Memberships \union {Absent}]
    BY DEF Restart, NoPlans
  <2>6. QED BY <1>0, <2>1, <2>2, <2>3, <2>4, <2>5 DEF Restart, TypeOK
<1>2. PlanInv'
  BY <1>0 DEF Restart, EndedAmong, NoPlans, NoApply, NoCall, PlanInv, TodoInv, Compiled, TypeOK,
      Settings, ApplyState, RequestState
<1>3. TodoInv'
  BY <1>0 DEF Restart, EndedAmong, NoPlans, NoApply, NoCall, TodoInv, TypeOK, Settings,
      ApplyState, RequestState
<1>4. NewInv'
  BY <1>0 DEF Restart, EndedAmong, NoPlans, NoApply, NoCall, NewInv, TypeOK, Settings,
      ApplyState, RequestState
<1>5. ShownInv'
  BY <1>0 DEF Restart, EndedAmong, NoPlans, NoApply, NoCall, ShownInv, Connected, Passed,
      NewInv, PlanInv, TodoInv, Compiled, TypeOK, Settings, ApplyState, RequestState
<1>6. QED BY <1>1, <1>2, <1>3, <1>4, <1>5 DEF IInv

\* A request finds its link.
LEMMA FindStep ==
  ASSUME IInv, NEW r \in Requests, NEW l \in Links, Find(r, l)
  PROVE  IInv'
<1> USE ReloadAssumption DEF reloader
<1>0. /\ TypeOK /\ PlanInv /\ TodoInv /\ NewInv
      /\ ShownInv
  BY DEF IInv
<1>1. TypeOK'
  <2>1. request' = [request EXCEPT ![r] = [request[r] EXCEPT !.state = "found", !.link = l]]
    BY <1>0 DEF Find, TypeOK
  <2>2. [request[r] EXCEPT !.state = "found", !.link = l] \in RequestState
    BY <1>0 DEF TypeOK, RequestState
  <2>3. QED BY <1>0, <2>1, <2>2 DEF Find, TypeOK
<1>2. PlanInv'
  BY <1>0 DEF Find, PlanInv, TodoInv, Compiled, TypeOK, Settings, ApplyState, RequestState
<1>3. TodoInv'
  BY <1>0 DEF Find, TodoInv, TypeOK, Settings, ApplyState, RequestState
<1>4. NewInv'
  BY <1>0 DEF Find, NewInv, TypeOK, Settings, ApplyState, RequestState
<1>5. ShownInv'
  BY <1>0 DEF Find, ShownInv, Connected, Passed, NewInv, PlanInv, TodoInv, Compiled, TypeOK,
      Settings, ApplyState, RequestState
<1>6. QED BY <1>1, <1>2, <1>3, <1>4, <1>5 DEF IInv

\* It is filed; in the window of a reload, it is marked.
LEMMA FileStep ==
  ASSUME IInv, NEW r \in Requests, File(r)
  PROVE  IInv'
<1> USE ReloadAssumption DEF reloader
<1>0. /\ TypeOK /\ PlanInv /\ TodoInv /\ NewInv
      /\ ShownInv
  BY DEF IInv
<1>1. TypeOK'
  BY <1>0 DEF File, Become, Outdated, TypeOK, Settings, Contents, ApplyState, RequestState,
      Callers
<1>2. PlanInv'
  BY <1>0 DEF File, Become, Outdated, PlanInv, TodoInv, Compiled, TypeOK, Settings, ApplyState,
      RequestState
<1>3. TodoInv'
  BY <1>0 DEF File, Become, Outdated, TodoInv, TypeOK, Settings, ApplyState, RequestState
<1>4. NewInv'
  BY <1>0 DEF File, Become, Outdated, NewInv, TypeOK, Settings, ApplyState, RequestState
<1>5. ShownInv'
  BY <1>0 DEF File, Become, Outdated, ShownInv, Connected, Passed, NewInv, PlanInv, TodoInv,
      Compiled, TypeOK, Settings, ApplyState, RequestState
<1>6. QED BY <1>1, <1>2, <1>3, <1>4, <1>5 DEF IInv

\* Its page shows what is served.
LEMMA ShowStep ==
  ASSUME IInv, NEW r \in Requests, Show(r)
  PROVE  IInv'
<1> USE ReloadAssumption DEF reloader
<1>0. /\ TypeOK /\ PlanInv /\ TodoInv /\ NewInv
      /\ ShownInv
  BY DEF IInv
<1>1. TypeOK'
  <2>1. request[r].link \in Links
    BY <1>0 DEF Show, NewInv
  <2>2. [request[r] EXCEPT !.shown = plans[request[r].link]] \in RequestState
    BY <1>0, <2>1 DEF TypeOK, RequestState
  <2>3. QED BY <1>0, <2>2 DEF Show, TypeOK
<1>2. PlanInv'
  BY <1>0 DEF Show, PlanInv, TodoInv, Compiled, TypeOK, Settings, ApplyState, RequestState
<1>3. TodoInv'
  BY <1>0 DEF Show, TodoInv, TypeOK, Settings, ApplyState, RequestState
<1>4. NewInv'
  BY <1>0 DEF Show, NewInv, TypeOK, Settings, ApplyState, RequestState
<1>5. ShownInv'
  BY <1>0 DEF Show, ShownInv, Connected, Passed, NewInv, PlanInv, TodoInv, Compiled, TypeOK,
      Settings, ApplyState, RequestState
<1>6. QED BY <1>1, <1>2, <1>3, <1>4, <1>5 DEF IInv

\* A person approves it.
LEMMA ApproveStep ==
  ASSUME IInv, NEW r \in Requests, Approve(r)
  PROVE  IInv'
<1> USE ReloadAssumption DEF reloader
<1>0. /\ TypeOK /\ PlanInv /\ TodoInv /\ NewInv
      /\ ShownInv
  BY DEF IInv
<1>1. TypeOK'
  BY <1>0 DEF Approve, Become, TypeOK, Settings, Contents, ApplyState, RequestState, Callers
<1>2. PlanInv'
  BY <1>0 DEF Approve, Become, PlanInv, TodoInv, Compiled, TypeOK, Settings, ApplyState,
      RequestState
<1>3. TodoInv'
  BY <1>0 DEF Approve, Become, TodoInv, TypeOK, Settings, ApplyState, RequestState
<1>4. NewInv'
  BY <1>0 DEF Approve, Become, NewInv, TypeOK, Settings, ApplyState, RequestState
<1>5. ShownInv'
  BY <1>0 DEF Approve, Become, ShownInv, Connected, Passed, NewInv, PlanInv, TodoInv, Compiled,
      TypeOK, Settings, ApplyState, RequestState
<1>6. QED BY <1>1, <1>2, <1>3, <1>4, <1>5 DEF IInv

\* Its code becomes a grant.
LEMMA ExchangeStep ==
  ASSUME IInv, NEW r \in Requests, Exchange(r)
  PROVE  IInv'
<1> USE ReloadAssumption DEF reloader
<1>0. /\ TypeOK /\ PlanInv /\ TodoInv /\ NewInv
      /\ ShownInv
  BY DEF IInv
<1>1. TypeOK'
  BY <1>0 DEF Exchange, Become, TypeOK, Settings, Contents, ApplyState, RequestState, Callers
<1>2. PlanInv'
  BY <1>0 DEF Exchange, Become, PlanInv, TodoInv, Compiled, TypeOK, Settings, ApplyState,
      RequestState
<1>3. TodoInv'
  BY <1>0 DEF Exchange, Become, TodoInv, TypeOK, Settings, ApplyState, RequestState
<1>4. NewInv'
  BY <1>0 DEF Exchange, Become, NewInv, TypeOK, Settings, ApplyState, RequestState
<1>5. ShownInv'
  BY <1>0 DEF Exchange, Become, ShownInv, Connected, Passed, NewInv, PlanInv, TodoInv, Compiled,
      TypeOK, Settings, ApplyState, RequestState
<1>6. QED BY <1>1, <1>2, <1>3, <1>4, <1>5 DEF IInv

\* It ends for another reason.
LEMMA EndStep ==
  ASSUME IInv, NEW r \in Requests, End(r)
  PROVE  IInv'
<1> USE ReloadAssumption DEF reloader
<1>0. /\ TypeOK /\ PlanInv /\ TodoInv /\ NewInv
      /\ ShownInv
  BY DEF IInv
<1>1. TypeOK'
  BY <1>0 DEF End, Become, TypeOK, Settings, Contents, ApplyState, RequestState, Callers
<1>2. PlanInv'
  BY <1>0 DEF End, Become, PlanInv, TodoInv, Compiled, TypeOK, Settings, ApplyState,
      RequestState
<1>3. TodoInv'
  BY <1>0 DEF End, Become, TodoInv, TypeOK, Settings, ApplyState, RequestState
<1>4. NewInv'
  BY <1>0 DEF End, Become, NewInv, TypeOK, Settings, ApplyState, RequestState
<1>5. ShownInv'
  BY <1>0 DEF End, Become, ShownInv, Connected, Passed, NewInv, PlanInv, TodoInv, Compiled,
      TypeOK, Settings, ApplyState, RequestState
<1>6. QED BY <1>1, <1>2, <1>3, <1>4, <1>5 DEF IInv

-----------------------------------------------------------------------------
(* The invariant, and what follows from it.                                *)

LEMMA InitInv == Init => IInv
<1> SUFFICES ASSUME Init PROVE IInv
  OBVIOUS
<1> USE ReloadAssumption DEF Init, NoPlans, NoCall, NoApply
<1>1. TypeOK
  <2>1. apply \in ApplyState /\ file \in Contents
    BY DEF Contents, ApplyState, Callers
  <2>2. caller \in [Callers -> [step : {"idle", "queued"}, current : Contents \union {Never}]]
    OBVIOUS
  <2>3. request \in [Requests -> RequestState]
    BY DEF RequestState
  <2>4. plans \in [Links -> Memberships \union {Absent}] /\ signatures = plans
    OBVIOUS
  <2>5. plans \in [Links -> Memberships \union {Absent}] /\ signatures \in [Links -> Memberships \union {Absent}]
    BY <2>4
  <2>6. /\ written \in SUBSET Contents /\ windowed \in SUBSET Requests
        /\ edits \in 0..MaxEdits /\ troubles \in 0..MaxTroubles
        /\ seen \in Contents \union {Never} /\ serving \in BOOLEAN
    <3>1. written \in SUBSET Contents
      BY <2>1
    <3>2. windowed \in SUBSET Requests
      OBVIOUS
    <3>3. edits \in 0..MaxEdits
      OBVIOUS
    <3>4. troubles \in 0..MaxTroubles
      OBVIOUS
    <3>5. seen \in Contents \union {Never} /\ serving \in BOOLEAN
      OBVIOUS
    <3>6. QED BY <3>1, <3>2, <3>3, <3>4, <3>5
  <2>7. apply.step # "idle" => apply.loaded \in Settings
    OBVIOUS
  <2>8. QED BY <2>1, <2>2, <2>3, <2>5, <2>6, <2>7 DEF TypeOK
<1>2. PlanInv /\ TodoInv /\ NewInv /\ ShownInv
  BY DEF PlanInv, TodoInv, NewInv, ShownInv, Connected
<1>3. QED BY <1>1, <1>2 DEF IInv

LEMMA NextInv == IInv /\ [Next]_vars => IInv'
<1> SUFFICES ASSUME IInv, [Next]_vars PROVE IInv'
  OBVIOUS
<1>1. ASSUME NEW contents \in Contents, Edit(contents) PROVE IInv'
  BY <1>1, EditStep
<1>2. CASE Reloading
  BY <1>2, NoticeStep, OrderStep, LoadStep, RevokeServerStep, RevokeFailsStep, SaveSignaturesStep,
     StoreFailsStep, SyncStep DEF Reloading
<1>3. CASE Restart
  BY <1>3, RestartStep
<1>4. CASE Connect
  BY <1>4, FindStep, FileStep, ShowStep, ApproveStep, ExchangeStep, EndStep DEF Connect
<1>5. CASE UNCHANGED vars
  BY <1>5 DEF vars, reloader, IInv, TypeOK, PlanInv, TodoInv, NewInv, ShownInv, Connected, Passed
<1>6. QED BY <1>1, <1>2, <1>3, <1>4, <1>5 DEF Next

\* The inductive invariant holds in every reachable state.
THEOREM Invariance == Spec => []IInv
<1>1. QED BY InitInv, NextInv, PTL DEF Spec

\* Whoever is let in, or about to be, was shown the tools the link has, except
\* requests filed while a reload was changing it.
THEOREM ConsentFollowsLinks == Spec => []ConsentMatchesLink
<1>1. IInv => ConsentMatchesLink
  <2> SUFFICES ASSUME IInv, NEW r \in Requests, Connected(r), r \notin windowed,
                      request[r].shown \in Memberships
               PROVE  plans[request[r].link] \in {request[r].shown, Absent}
    BY DEF ConsentMatchesLink, ShownWhatItGets
  <2> DEFINE l == request[r].link
             m == request[r].shown
  <2>1. l \in Links /\ plans[l] \in Memberships \union {Absent}
    BY DEF IInv, NewInv, TypeOK, Connected
  <2>2. signatures[l] = m
    BY DEF IInv, ShownInv
  <2>3. CASE apply.step = "sync" /\ apply.loaded[l] # Broken
    <3>1. Passed(l)
      BY <2>3 DEF IInv, TodoInv, Passed
    <3>2. apply.loaded[l] = m /\ (plans[l] \in Memberships => apply.loaded[l] = plans[l])
      BY <2>3, <3>1 DEF IInv, ShownInv
    <3>3. QED BY <2>1, <3>2
  <2>4. CASE ~(apply.step = "sync" /\ apply.loaded[l] # Broken)
    BY <2>1, <2>2, <2>4 DEF IInv, PlanInv
  <2>5. QED BY <2>3, <2>4
<1>2. QED BY <1>1, Invariance, PTL

\* What a step does that ends a grant while it takes a link off the list.
EndsUnchanged(r, l) ==
    /\ request[r].state = "granted" /\ request[r].link = l /\ request[r].shown \in Memberships
    /\ r \notin windowed /\ l \in apply.todo /\ request'[r].state = "ended"
    /\ apply'.todo # apply.todo

LEMMA RevokedHasChanged ==
  ASSUME IInv, NEW r \in Requests, NEW l \in Links, EndsUnchanged(r, l)
  PROVE  apply.loaded[l] \notin {request[r].shown, Broken}
<1>1. signatures[l] = request[r].shown
  BY DEF IInv, ShownInv, Connected, EndsUnchanged
<1>2. apply.loaded[l] # Broken /\ (apply.loaded[l] # Absent => apply.loaded[l] # signatures[l])
  BY DEF IInv, TodoInv, EndsUnchanged
<1>3. QED BY <1>1, <1>2, ReloadAssumption DEF EndsUnchanged

\* A reload ends no grant of a link that is what the client was shown, or
\* that merely does not compile.
THEOREM UnchangedLinksAreSpared == Spec => UnchangedLinksKeepClients
<1>1. IInv /\ [Next]_vars =>
        [\A r \in Requests, l \in Links :
           (request[r].state = "granted" /\ request[r].link = l /\ request[r].shown \in Memberships
              /\ r \notin windowed /\ l \in apply.todo /\ request'[r].state = "ended"
              /\ apply'.todo # apply.todo)
             => apply.loaded[l] \notin {request[r].shown, Broken}]_vars
  BY RevokedHasChanged DEF EndsUnchanged
<1>2. QED BY <1>1, Invariance, PTL DEF Spec, UnchangedLinksKeepClients

=============================================================================
