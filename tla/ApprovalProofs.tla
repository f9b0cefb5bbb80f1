--------------------------- MODULE ApprovalProofs ---------------------------
(***************************************************************************)
(* Proofs about Approval, for every number of requests, handlers and       *)
(* links. Its own invariants rest on one inductive invariant, IInv. That   *)
(* Approval implements Consent, and that whoever types a code is who       *)
(* asked, rests on IInv and on what a handler knows about the browser it   *)
(* serves.                                                                 *)
(***************************************************************************)
EXTENDS Approval, TLAPS

\* Nothing has happened to r but that its id was generated.
Unfiled(r) ==
    /\ r \notin pending \union grants \union gone
    /\ row[r].attempts = 0
    /\ guesses[r] = 0 /\ minted[r] = 0 /\ granted[r] = 0
    /\ \A c \in codes : c.request # r
    /\ \A a \in approved : a.request # r
    /\ \A p \in Processes : r \notin revoker[p].targets

\* The handlers inside code_lock, and the reload, exclude each other.
LockInv ==
    /\ \A w \in Workers : handler[w].step \in Critical <=> lockedBy = w
    /\ \A p \in Processes :
         p = "daemon" => (revoker[p].step # "idle" <=> lockedBy = Reloader)

\* A handler has a request that was begun, alone while it has not stored it.
HandlerInv ==
    \A w \in Workers :
        /\ handler[w].step = "idle" => handler[w].req = NoRequest
        /\ handler[w].step # "idle" =>
              handler[w].req \in Requests /\ row[handler[w].req].link # NoLink
        /\ handler[w].step = "create" =>
              /\ Unfiled(handler[w].req)
              /\ \A v \in Workers : handler[v].req = handler[w].req => v = w

\* What a handler inside approve_with_code has read is still so, unless the
\* row was deleted under it.
TryInv ==
    \A w \in Workers :
        LET h == handler[w] IN
        /\ h.step \in {"record", "compare"} =>
              h.attempts < MaxAttempts /\ guesses[h.req] <= h.attempts
        /\ h.step = "record" /\ h.req \in pending => row[h.req].attempts = h.attempts
        /\ h.step = "compare" /\ h.req \in pending => row[h.req].attempts = h.attempts + 1
        /\ h.step \in {"record", "compare", "lockout", "read", "remove", "publish"} =>
              minted[h.req] = 0
        /\ h.step \in {"remove", "publish"} => h.now <= row[h.req].expires_at
        /\ h.step = "publish" => h.req \notin pending
        /\ h.step = "grant" =>
              /\ minted[h.req] = 1 /\ granted[h.req] = 0 /\ h.req \notin pending
              /\ \A c \in codes : c.request # h.req

RequestInv ==
    \A r \in Requests :
        /\ row[r].link = NoLink => Unfiled(r)
        /\ r \in pending => guesses[r] <= row[r].attempts /\ minted[r] = 0
        /\ guesses[r] <= MaxAttempts
        /\ minted[r] <= 1 /\ granted[r] <= minted[r]

\* A code is the only one of its request, which has no grant yet.
CodeInv ==
    /\ \A c \in codes : minted[c.request] = 1 /\ granted[c.request] = 0
    /\ \A c, d \in codes : c.request = d.request => c = d

\* The daemon's revocation has so far taken what it had to.
RevokerInv ==
    \A p \in Processes : p = "daemon" =>
        /\ revoker[p].step # "idle" =>
              /\ revoker[p].targets \subseteq On(revoker[p].link)
              /\ revoker[p].targets \intersect grants = {}
              /\ \A w \in Workers : At(w, "create") => handler[w].req \notin revoker[p].targets
        /\ revoker[p].step = "codes" => revoker[p].targets \intersect pending = {}

IInv ==
    /\ TypeOK
    /\ LockInv
    /\ HandlerInv
    /\ TryInv
    /\ RequestInv
    /\ CodeInv
    /\ ApprovedInTime
    /\ RevokerInv
    /\ RevocationIsComplete
-----------------------------------------------------------------------------
(* Types                                                                   *)

LEMMA InitTypes == Init => TypeOK
  BY ApprovalAssumption
  DEF Init, TypeOK, Idle, Doing, HandlerState, RevokerState, NoRevocation, Row, Steps,
      Reloader, Nobody

\* A handler that starts, goes on or returns keeps its shape.
LEMMA DoingType ==
  ASSUME NEW step \in Steps, NEW r \in Requests \union {NoRequest}
  PROVE  Doing(step, r) \in HandlerState
  BY ApprovalAssumption DEF Doing, HandlerState

LEMMA ReturnType ==
  ASSUME TypeOK, NEW w \in Workers, Return(w)
  PROVE  handler' \in [Workers -> HandlerState]
<1>1. Idle \in HandlerState
  BY DoingType DEF Idle, Steps
<1>2. QED BY <1>1 DEF TypeOK, Return

LEMMA GoType ==
  ASSUME TypeOK, NEW w \in Workers, NEW step \in Steps, Go(w, step)
  PROVE  handler' \in [Workers -> HandlerState]
<1>1. [handler[w] EXCEPT !.step = step] \in HandlerState
  BY DEF TypeOK, HandlerState
<1>2. handler' = [handler EXCEPT ![w] = [handler[w] EXCEPT !.step = step]]
  BY DEF Go, TypeOK
<1>3. QED BY <1>1, <1>2 DEF TypeOK

-----------------------------------------------------------------------------
(* One lemma per action: it keeps IInv.                                    *)

\* begin: the id is new, so nothing anywhere knows it.
LEMMA BeginCountStep ==
  ASSUME IInv, NEW w \in Workers, NEW r \in Requests, NEW l \in Links, BeginCount(w, r, l)
  PROVE  IInv'
<1> USE ApprovalAssumption DEF At, db, memory, history
<1>0. /\ TypeOK /\ LockInv /\ HandlerInv /\ TryInv /\ RequestInv
      /\ CodeInv /\ ApprovedInTime /\ RevokerInv /\ RevocationIsComplete
  BY DEF IInv
<1>1. TypeOK'
  <2>1. handler' \in [Workers -> HandlerState]
    BY <1>0, DoingType DEF BeginCount, TypeOK, Steps
  <2>2. NewRow(l, now) \in Row
    BY <1>0 DEF TypeOK, Row, NewRow
  <2>3. row' \in [Requests -> Row]
    BY <1>0, <2>2 DEF BeginCount, TypeOK
  <2>4. QED BY <1>0, <2>1, <2>3 DEF BeginCount, TypeOK
<1>2. HandlerInv'
  <2>1. handler'[w] = Doing("create", r) /\ \A v \in Workers : v # w => handler'[v] = handler[v]
    BY <1>0 DEF BeginCount, TypeOK
  <2>2. row'[r].link = l /\ row'[r].attempts = 0 /\ l # NoLink
        /\ \A q \in Requests : q # r => row'[q] = row[q]
    BY <1>0 DEF BeginCount, NewRow, TypeOK
  <2>3. Unfiled(r) /\ \A v \in Workers : handler[v].req # r
    BY <1>0 DEF BeginCount, RequestInv, HandlerInv, TypeOK, HandlerState
  <2>4. Unfiled(r)'
    BY <2>2, <2>3 DEF BeginCount, Unfiled
  <2>5. \A v \in Workers : v # w /\ handler[v].step = "create" => Unfiled(handler[v].req)'
    BY <1>0, <2>2, <2>3 DEF BeginCount, HandlerInv, Unfiled
  <2>6. QED BY <1>0, <2>1, <2>2, <2>3, <2>4, <2>5 DEF HandlerInv, Doing
<1>3. RevokerInv'
  <2>1. handler'[w] = Doing("create", r) /\ \A v \in Workers : v # w => handler'[v] = handler[v]
    BY <1>0 DEF BeginCount, TypeOK
  <2>2. \A p \in Processes : r \notin revoker[p].targets
    BY <1>0 DEF BeginCount, RequestInv, Unfiled
  <2>3. \A q \in Requests : q # r => row'[q] = row[q]
    BY <1>0 DEF BeginCount, TypeOK
  <2>4. QED BY <1>0, <2>1, <2>2, <2>3 DEF BeginCount, RevokerInv, On, Doing
<1>4. /\ LockInv' /\ TryInv' /\ RequestInv' /\ CodeInv'
      /\ ApprovedInTime' /\ RevocationIsComplete'
  BY <1>0
  DEF BeginCount, Doing, NewRow, TypeOK, HandlerState, LockInv, Critical, Steps,
      Reloader, Nobody, RevokerState, TryInv, HandlerInv, RequestInv, Unfiled, Row,
      CodeInv, Code, ApprovedInTime, RevocationIsComplete, RevokerInv, On
<1>5. QED BY <1>1, <1>2, <1>3, <1>4 DEF IInv

\* The row appears; nobody else has its id.
LEMMA BeginCreateStep ==
  ASSUME IInv, NEW w \in Workers, BeginCreate(w)
  PROVE  IInv'
<1> USE ApprovalAssumption DEF At, db, memory, history
<1>0. /\ TypeOK /\ LockInv /\ HandlerInv /\ TryInv /\ RequestInv
      /\ CodeInv /\ ApprovedInTime /\ RevokerInv /\ RevocationIsComplete
  BY DEF IInv
<1>1. TypeOK'
  <2>1. handler[w].req \in Requests
    BY <1>0 DEF BeginCreate, HandlerInv
  <2>2. QED BY <1>0, <2>1, GoType DEF BeginCreate, TypeOK, Steps
<1>2. /\ LockInv' /\ HandlerInv' /\ TryInv' /\ RequestInv'
      /\ CodeInv' /\ ApprovedInTime' /\ RevokerInv' /\ RevocationIsComplete'
  BY <1>0
  DEF BeginCreate, Go, TypeOK, HandlerState, LockInv, Critical, Steps, Reloader, Nobody,
      RevokerState, HandlerInv, Unfiled, TryInv, RequestInv, Row, CodeInv, Code,
      ApprovedInTime, RevokerInv, On, At, RevocationIsComplete
<1>3. QED BY <1>1, <1>2 DEF IInv

\* The connect page only reads the row.
LEMMA BeginPageStep ==
  ASSUME IInv, NEW w \in Workers, BeginPage(w)
  PROVE  IInv'
<1> USE ApprovalAssumption DEF At, db, memory, history
<1>0. /\ TypeOK /\ LockInv /\ HandlerInv /\ TryInv /\ RequestInv
      /\ CodeInv /\ ApprovedInTime /\ RevokerInv /\ RevocationIsComplete
  BY DEF IInv
<1>1. TypeOK'
  BY <1>0
  DEF BeginPage, Return, Idle, Doing, TypeOK, HandlerState, RevokerState, Code, Row,
      Steps
<1>2. /\ LockInv' /\ HandlerInv' /\ TryInv' /\ RequestInv'
      /\ CodeInv' /\ ApprovedInTime' /\ RevokerInv' /\ RevocationIsComplete'
  BY <1>0
  DEF BeginPage, Return, Idle, Doing, TypeOK, HandlerState, LockInv, Critical, Steps,
      Reloader, Nobody, RevokerState, HandlerInv, Unfiled, TryInv, RequestInv, Row,
      CodeInv, Code, ApprovedInTime, RevokerInv, On, At, RevocationIsComplete
<1>3. QED BY <1>1, <1>2 DEF IInv

\* A live request is typed into; no lock yet.
LEMMA EnterCodeStep ==
  ASSUME IInv, NEW w \in Workers, NEW r \in Requests, NEW own \in BOOLEAN, NEW right \in BOOLEAN, EnterCode(w, r, own, right)
  PROVE  IInv'
<1> USE ApprovalAssumption DEF At, db, memory, history
<1>0. /\ TypeOK /\ LockInv /\ HandlerInv /\ TryInv /\ RequestInv
      /\ CodeInv /\ ApprovedInTime /\ RevokerInv /\ RevocationIsComplete
  BY DEF IInv
<1>1. HandlerInv'
  <2> DEFINE h == [step |-> "entered", req |-> r, own |-> own, right |-> right,
                   attempts |-> 0, now |-> 0]
  <2>1. handler'[w] = h /\ \A v \in Workers : v # w => handler'[v] = handler[v]
    BY <1>0 DEF EnterCode, TypeOK
  <2>2. r \in pending /\ row[r].link # NoLink
    BY <1>0 DEF EnterCode, Live, RequestInv, Unfiled
  <2>3. \A v \in Workers : handler[v].step = "create" => handler[v].req # r
    BY <1>0, <2>2 DEF HandlerInv, Unfiled
  <2>4. QED BY <1>0, <2>1, <2>2, <2>3 DEF EnterCode, HandlerInv, Unfiled
<1>2. TypeOK'
  BY <1>0 DEF EnterCode, Live, TypeOK, HandlerState, RevokerState, Code, Row, Steps
<1>3. /\ LockInv' /\ TryInv' /\ RequestInv' /\ CodeInv'
      /\ ApprovedInTime' /\ RevokerInv' /\ RevocationIsComplete'
  BY <1>0
  DEF EnterCode, Live, TypeOK, HandlerState, LockInv, Critical, Steps, Reloader, Nobody,
      RevokerState, TryInv, HandlerInv, RequestInv, Unfiled, Row, CodeInv, Code,
      ApprovedInTime, RevokerInv, On, At, RevocationIsComplete
<1>4. QED BY <1>1, <1>2, <1>3 DEF IInv

\* Taking code_lock: what is read now stays true until it is released.
LEMMA CheckAttemptsStep ==
  ASSUME IInv, NEW w \in Workers, CheckAttempts(w)
  PROVE  IInv'
<1> USE ApprovalAssumption DEF At, db, memory, history
<1>0. /\ TypeOK /\ LockInv /\ HandlerInv /\ TryInv /\ RequestInv
      /\ CodeInv /\ ApprovedInTime /\ RevokerInv /\ RevocationIsComplete
  BY DEF IInv
<1>1. TypeOK'
  <2> DEFINE r == handler[w].req
             step == IF row[r].attempts >= MaxAttempts THEN "lockout" ELSE "record"
  <2>1. r \in Requests /\ step \in Steps
    BY <1>0 DEF CheckAttempts, HandlerInv, Steps
  <2>2. row[r].attempts \in 0..MaxAttempts
    BY <1>0, <2>1 DEF TypeOK, Row
  <2>0. handler[w] \in HandlerState
    BY <1>0 DEF TypeOK
  <2>3. [handler[w] EXCEPT !.step = step, !.attempts = row[r].attempts] \in HandlerState
    BY <2>0, <2>1, <2>2 DEF HandlerState
  <2>4. handler' = [handler EXCEPT ![w].step = step, ![w].attempts = row[r].attempts]
          => handler' \in [Workers -> HandlerState]
    BY <1>0, <2>3 DEF TypeOK
  <2>5. QED BY <1>0, <2>4, ReturnType DEF CheckAttempts, Acquire, TypeOK
<1>2. RevocationIsComplete'
  <2>1. \A v \in Workers : v # w => handler'[v] = handler[v]
    BY <1>0 DEF CheckAttempts, Return, TypeOK
  <2>2. Live(handler[w].req) => handler[w].req \notin gone /\ handler'[w].req = handler[w].req
    BY <1>0 DEF CheckAttempts, Live, RevocationIsComplete, TypeOK, HandlerState
  <2>3. ~Live(handler[w].req) => handler'[w].req = NoRequest
    BY <1>0 DEF CheckAttempts, Return, Idle, Doing, TypeOK
  <2>4. NoRequest \notin gone
    BY <1>0 DEF TypeOK
  <2>5. QED BY <1>0, <2>1, <2>2, <2>3, <2>4 DEF CheckAttempts, RevocationIsComplete
<1>3. LockInv'
  BY <1>0
  DEF CheckAttempts, Live, Acquire, Return, Idle, Doing, TypeOK, HandlerState, LockInv,
      Critical, Steps, Reloader, Nobody, RevokerState
<1>4. HandlerInv'
  BY <1>0
  DEF CheckAttempts, Live, Acquire, Return, Idle, Doing, TypeOK, HandlerState,
      HandlerInv, Unfiled, Steps
<1>5. TryInv'
  <2> DEFINE r == handler[w].req
             h == handler'[w]
  <2>1. \A v \in Workers : v # w => handler'[v] = handler[v]
    BY <1>0 DEF CheckAttempts, Return, TypeOK
  <2>2. ~Live(r) => h = Idle
    BY <1>0 DEF CheckAttempts, Return, TypeOK
  <2>3. Live(r) =>
          /\ h.step = IF row[r].attempts >= MaxAttempts THEN "lockout" ELSE "record"
          /\ h.req = r
          /\ h.attempts = row[r].attempts
    BY <1>0 DEF CheckAttempts, Live, TypeOK, HandlerState
  <2>4. r \in Requests /\ row[r].attempts \in 0..MaxAttempts
    BY <1>0 DEF CheckAttempts, HandlerInv, TypeOK, Row
  <2>5. Live(r) => guesses[r] <= row[r].attempts /\ minted[r] = 0
    BY <1>0, <2>4 DEF Live, RequestInv
  <2>6. UNCHANGED <<pending, row, codes, guesses, minted, granted>>
    BY DEF CheckAttempts
  <2>7. QED
    BY <1>0, <2>1, <2>2, <2>3, <2>4, <2>5, <2>6 DEF TryInv, Idle, Doing
<1>6. RequestInv'
  BY <1>0
  DEF CheckAttempts, Live, Acquire, Return, Idle, Doing, TypeOK, HandlerState,
      RequestInv, HandlerInv, TryInv, Unfiled, Row
<1>7. CodeInv'
  BY <1>0
  DEF CheckAttempts, Live, Acquire, Return, Idle, Doing, TypeOK, HandlerState, CodeInv,
      TryInv, LockInv, HandlerInv, Critical, Code
<1>8. ApprovedInTime'
  BY <1>0
  DEF CheckAttempts, Live, Acquire, Return, Idle, Doing, TypeOK, HandlerState,
      ApprovedInTime, RequestInv, HandlerInv, TryInv, Unfiled, Row
<1>9. RevokerInv'
  BY <1>0
  DEF CheckAttempts, Live, Acquire, Return, Idle, Doing, TypeOK, HandlerState,
      RevokerInv, HandlerInv, LockInv, Critical, On, At, Unfiled, RevokerState
<1>10. QED BY <1>1, <1>2, <1>3, <1>4, <1>5, <1>6, <1>7, <1>8, <1>9 DEF IInv

\* The try is on record before it is compared.
LEMMA RecordAttemptStep ==
  ASSUME IInv, NEW w \in Workers, RecordAttempt(w)
  PROVE  IInv'
<1> USE ApprovalAssumption DEF At, db, memory, history
<1>0. /\ TypeOK /\ LockInv /\ HandlerInv /\ TryInv /\ RequestInv
      /\ CodeInv /\ ApprovedInTime /\ RevokerInv /\ RevocationIsComplete
  BY DEF IInv
<1>1. TypeOK'
  <2> DEFINE r == handler[w].req
  <2>1. r \in Requests
    BY <1>0 DEF RecordAttempt, HandlerInv
  <2>2. r \in pending => row[r].attempts + 1 \in 0..MaxAttempts
    BY <1>0, <2>1 DEF RecordAttempt, TryInv, TypeOK, HandlerState
  <2>3. row' \in [Requests -> Row]
    BY <1>0, <2>1, <2>2 DEF RecordAttempt, TypeOK, Row
  <2>4. QED BY <1>0, <2>3, GoType DEF RecordAttempt, TypeOK, Steps
<1>2. /\ LockInv' /\ HandlerInv' /\ TryInv' /\ RequestInv'
      /\ CodeInv' /\ ApprovedInTime' /\ RevokerInv' /\ RevocationIsComplete'
  BY <1>0
  DEF RecordAttempt, Go, TypeOK, HandlerState, LockInv, Critical, Steps, Reloader,
      Nobody, RevokerState, HandlerInv, Unfiled, TryInv, RequestInv, Row, CodeInv, Code,
      ApprovedInTime, RevokerInv, On, At, RevocationIsComplete
<1>3. QED BY <1>1, <1>2 DEF IInv

\* The comparison counts against a try that is already recorded.
LEMMA CompareCodeStep ==
  ASSUME IInv, NEW w \in Workers, CompareCode(w)
  PROVE  IInv'
<1> USE ApprovalAssumption DEF At, db, memory, history
<1>0. /\ TypeOK /\ LockInv /\ HandlerInv /\ TryInv /\ RequestInv
      /\ CodeInv /\ ApprovedInTime /\ RevokerInv /\ RevocationIsComplete
  BY DEF IInv
<1>1. TypeOK'
  <2>1. handler[w].req \in Requests
    BY <1>0 DEF CompareCode, HandlerInv
  <2>2. handler' \in [Workers -> HandlerState]
    BY <1>0, GoType, ReturnType DEF CompareCode, Steps
  <2>3. guesses' \in [Requests -> Nat]
    BY <1>0, <2>1 DEF CompareCode, TypeOK
  <2>4. confirmed' \in SUBSET Requests
    BY <1>0, <2>1 DEF CompareCode, TypeOK
  <2>5. QED BY <1>0, <2>2, <2>3, <2>4 DEF CompareCode, Release, TypeOK
<1>2. RevocationIsComplete'
  <2>1. \A v \in Workers : v # w => handler'[v] = handler[v]
    BY <1>0 DEF CompareCode, Go, Return, TypeOK
  <2>2. handler[w].req \notin gone
    BY <1>0 DEF CompareCode, RevocationIsComplete
  <2>3. handler'[w].req \in {handler[w].req, NoRequest}
    BY <1>0 DEF CompareCode, Go, Return, Idle, Doing, TypeOK, HandlerState
  <2>4. NoRequest \notin gone
    BY <1>0 DEF TypeOK
  <2>5. QED BY <1>0, <2>1, <2>2, <2>3, <2>4 DEF CompareCode, RevocationIsComplete
<1>3. LockInv'
  BY <1>0
  DEF CompareCode, Go, Return, Release, Idle, Doing, TypeOK, HandlerState, LockInv,
      Critical, Steps, Reloader, Nobody, RevokerState
<1>4. HandlerInv'
  BY <1>0
  DEF CompareCode, Go, Return, Release, Idle, Doing, TypeOK, HandlerState, HandlerInv,
      Unfiled, Steps
<1>5. TryInv'
  BY <1>0
  DEF CompareCode, Go, Return, Release, Idle, Doing, TypeOK, HandlerState, TryInv,
      LockInv, HandlerInv, RequestInv, Critical, Steps
<1>6. RequestInv'
  BY <1>0
  DEF CompareCode, Go, Return, Release, Idle, Doing, TypeOK, HandlerState, RequestInv,
      HandlerInv, TryInv, Unfiled, Row
<1>7. CodeInv'
  BY <1>0
  DEF CompareCode, Go, Return, Release, Idle, Doing, TypeOK, HandlerState, CodeInv,
      TryInv, LockInv, HandlerInv, Critical, Code
<1>8. ApprovedInTime'
  BY <1>0
  DEF CompareCode, Go, Return, Release, Idle, Doing, TypeOK, HandlerState,
      ApprovedInTime, RequestInv, HandlerInv, TryInv, Unfiled, Row
<1>9. RevokerInv'
  BY <1>0
  DEF CompareCode, Go, Return, Release, Idle, Doing, TypeOK, HandlerState, RevokerInv,
      HandlerInv, LockInv, Critical, On, At, Unfiled, RevokerState
<1>10. QED BY <1>1, <1>2, <1>3, <1>4, <1>5, <1>6, <1>7, <1>8, <1>9 DEF IInv

\* The fifth wrong try deletes the row.
LEMMA LockOutStep ==
  ASSUME IInv, NEW w \in Workers, LockOut(w)
  PROVE  IInv'
<1> USE ApprovalAssumption DEF At, db, memory, history
<1>0. /\ TypeOK /\ LockInv /\ HandlerInv /\ TryInv /\ RequestInv
      /\ CodeInv /\ ApprovedInTime /\ RevokerInv /\ RevocationIsComplete
  BY DEF IInv
<1>1. RevokerInv'
  <2>1. lockedBy = w /\ w # Reloader
    BY <1>0 DEF LockOut, LockInv, Critical, Reloader
  <2>2. \A p \in Processes : p = "daemon" => revoker[p].step = "idle"
    BY <1>0, <2>1 DEF LockInv
  <2>3. QED BY <2>2 DEF LockOut, RevokerInv
<1>2. RevocationIsComplete'
  <2>1. \A v \in Workers : v # w => handler'[v] = handler[v]
    BY <1>0 DEF LockOut, Return, TypeOK
  <2>2. handler'[w].req = NoRequest /\ NoRequest \notin gone
    BY <1>0 DEF LockOut, Return, Idle, Doing, TypeOK
  <2>3. QED BY <1>0, <2>1, <2>2 DEF LockOut, RevocationIsComplete
<1>3. TypeOK'
  BY <1>0
  DEF LockOut, Return, Release, Idle, Doing, TypeOK, HandlerState, RevokerState, Code,
      Row, Steps
<1>4. /\ LockInv' /\ HandlerInv' /\ TryInv' /\ RequestInv'
      /\ CodeInv' /\ ApprovedInTime'
  BY <1>0
  DEF LockOut, Return, Release, Idle, Doing, TypeOK, HandlerState, LockInv, Critical,
      Steps, Reloader, Nobody, RevokerState, HandlerInv, Unfiled, TryInv, RequestInv,
      Row, CodeInv, Code, ApprovedInTime
<1>5. QED BY <1>1, <1>2, <1>3, <1>4 DEF IInv

\* approve reads the row again and checks its expiry.
LEMMA ApproveReadStep ==
  ASSUME IInv, NEW w \in Workers, ApproveRead(w)
  PROVE  IInv'
<1> USE ApprovalAssumption DEF At, db, memory, history
<1>0. /\ TypeOK /\ LockInv /\ HandlerInv /\ TryInv /\ RequestInv
      /\ CodeInv /\ ApprovedInTime /\ RevokerInv /\ RevocationIsComplete
  BY DEF IInv
<1>1. TypeOK'
  <2>0. handler[w] \in HandlerState /\ now \in Nat
    BY <1>0 DEF TypeOK
  <2>1. [handler[w] EXCEPT !.step = "remove", !.now = now] \in HandlerState
    BY <2>0 DEF HandlerState, Steps
  <2>2. handler' = [handler EXCEPT ![w].step = "remove", ![w].now = now]
          => handler' \in [Workers -> HandlerState]
    BY <1>0, <2>1 DEF TypeOK
  <2>3. QED BY <1>0, <2>2, ReturnType DEF ApproveRead, Release, TypeOK
<1>2. LockInv'
  <2>1. lockedBy = w /\ handler \in [Workers -> HandlerState]
    BY <1>0 DEF ApproveRead, LockInv, Critical, TypeOK
  <2>2. CASE Approvable(handler[w].req) /\ handler[w].own
    <3>1. /\ handler' = [handler EXCEPT ![w].step = "remove", ![w].now = now]
          /\ lockedBy' = lockedBy /\ revoker' = revoker
      BY <2>2 DEF ApproveRead
    <3>2. QED BY <1>0, <2>1, <3>1 DEF LockInv, Critical, HandlerState
  <2>3. CASE ~(Approvable(handler[w].req) /\ handler[w].own)
    <3>1. /\ handler' = [handler EXCEPT ![w] = Idle]
          /\ lockedBy' = Nobody /\ revoker' = revoker
      BY <2>3 DEF ApproveRead, Return, Release
    <3>2. QED
      BY <1>0, <2>1, <3>1
      DEF LockInv, Critical, Idle, Doing, Nobody, Reloader
  <2>4. QED BY <2>2, <2>3
<1>3. HandlerInv'
  BY <1>0
  DEF ApproveRead, Approvable, Live, Return, Release, Idle, Doing, TypeOK, HandlerState,
      HandlerInv, Unfiled, Steps
<1>4. TryInv'
  BY <1>0
  DEF ApproveRead, Approvable, Live, Return, Release, Idle, Doing, TypeOK, HandlerState,
      TryInv, LockInv, HandlerInv, RequestInv, Critical, Steps
<1>5. RequestInv'
  BY <1>0
  DEF ApproveRead, Approvable, Live, Return, Release, Idle, Doing, TypeOK, HandlerState,
      RequestInv, HandlerInv, TryInv, Unfiled, Row
<1>6. CodeInv'
  BY <1>0
  DEF ApproveRead, Approvable, Live, Return, Release, Idle, Doing, TypeOK, HandlerState,
      CodeInv, TryInv, LockInv, HandlerInv, Critical, Code
<1>7. ApprovedInTime'
  BY <1>0
  DEF ApproveRead, Approvable, Live, Return, Release, Idle, Doing, TypeOK, HandlerState,
      ApprovedInTime, RequestInv, HandlerInv, TryInv, Unfiled, Row
<1>8. RevokerInv'
  BY <1>0, SMTT(30)
  DEF ApproveRead, Approvable, Live, Return, Release, Idle, Doing, TypeOK, HandlerState,
      RevokerInv, HandlerInv, LockInv, Critical, On, At, Unfiled, RevokerState
<1>9. RevocationIsComplete'
  BY <1>0
  DEF ApproveRead, Approvable, Live, Return, Release, Idle, Doing, TypeOK, HandlerState,
      RevocationIsComplete, RevokerInv, RequestInv, HandlerInv, LockInv, TryInv,
      CodeInv, Critical, On, Unfiled, RevokerState
<1>10. QED BY <1>1, <1>2, <1>3, <1>4, <1>5, <1>6, <1>7, <1>8, <1>9 DEF IInv

\* The row is deleted before a code exists.
LEMMA ApproveRemoveStep ==
  ASSUME IInv, NEW w \in Workers, ApproveRemove(w)
  PROVE  IInv'
<1> USE ApprovalAssumption DEF At, db, memory, history
<1>0. /\ TypeOK /\ LockInv /\ HandlerInv /\ TryInv /\ RequestInv
      /\ CodeInv /\ ApprovedInTime /\ RevokerInv /\ RevocationIsComplete
  BY DEF IInv
<1>1. TypeOK'
  BY <1>0, SMTT(30)
  DEF ApproveRemove, RemoveRow, Go, TypeOK, HandlerState, RevokerState, Code, Row, Steps
<1>2. /\ LockInv' /\ HandlerInv' /\ TryInv' /\ RequestInv'
      /\ CodeInv' /\ ApprovedInTime' /\ RevokerInv' /\ RevocationIsComplete'
  BY <1>0
  DEF ApproveRemove, RemoveRow, Go, TypeOK, HandlerState, LockInv, Critical, Steps,
      Reloader, Nobody, RevokerState, HandlerInv, Unfiled, TryInv, RequestInv, Row,
      CodeInv, Code, ApprovedInTime, RevokerInv, On, At, RevocationIsComplete
<1>3. QED BY <1>1, <1>2 DEF IInv

\* The first and only code of the request.
LEMMA ApprovePublishStep ==
  ASSUME IInv, NEW w \in Workers, ApprovePublish(w)
  PROVE  IInv'
<1> USE ApprovalAssumption DEF At, db, memory, history
<1>0. /\ TypeOK /\ LockInv /\ HandlerInv /\ TryInv /\ RequestInv
      /\ CodeInv /\ ApprovedInTime /\ RevokerInv /\ RevocationIsComplete
  BY DEF IInv
<1>1. TypeOK'
  <2> DEFINE r == handler[w].req
             t == handler[w].now
  <2>1. r \in Requests
    BY <1>0 DEF ApprovePublish, HandlerInv
  <2>2. t \in Nat /\ minted[r] \in Nat
    BY <1>0, <2>1 DEF TypeOK, HandlerState
  <2>3. [request |-> r, serial |-> minted[r], expires_at |-> t + CodeTTL] \in Code
    BY <2>1, <2>2 DEF Code
  <2>4. codes' \in SUBSET Code
    BY <1>0, <2>3 DEF ApprovePublish, TypeOK
  <2>5. approved' \in SUBSET [request : Requests, at : Nat]
    BY <1>0, <2>1, <2>2 DEF ApprovePublish, TypeOK
  <2>6. minted' \in [Requests -> Nat]
    BY <1>0, <2>1, <2>2 DEF ApprovePublish, TypeOK
  <2> HIDE DEF r, t
  <2>7. QED BY <1>0, <2>4, <2>5, <2>6, ReturnType DEF ApprovePublish, Release, TypeOK
<1>2. CodeInv'
  <2> DEFINE r == handler[w].req
             new == [request |-> r, serial |-> minted[r], expires_at |-> handler[w].now + CodeTTL]
  <2>1. r \in Requests /\ minted[r] = 0 /\ granted[r] = 0
    BY <1>0 DEF ApprovePublish, HandlerInv, TryInv, RequestInv, TypeOK
  <2>2. \A c \in codes : c.request # r
    BY <1>0, <2>1 DEF CodeInv
  <2>3. codes' \subseteq codes \union {new} /\ new.request = r
    BY DEF ApprovePublish
  <2>4. minted' = [minted EXCEPT ![r] = 1] /\ granted' = granted
    BY <2>1 DEF ApprovePublish
  <2>5. \A c \in codes : c.request \in Requests
    BY <1>0 DEF TypeOK, Code
  <2> HIDE DEF new, r
  <2>6. QED BY <1>0, <2>1, <2>2, <2>3, <2>4, <2>5 DEF CodeInv, TypeOK
<1>3. /\ LockInv' /\ HandlerInv' /\ TryInv' /\ RequestInv'
      /\ ApprovedInTime' /\ RevokerInv' /\ RevocationIsComplete'
  BY <1>0
  DEF ApprovePublish, Return, Release, Idle, Doing, TypeOK, HandlerState, LockInv,
      Critical, Steps, Reloader, Nobody, RevokerState, HandlerInv, Unfiled, TryInv,
      RequestInv, Row, ApprovedInTime, RevokerInv, On, At, RevocationIsComplete, CodeInv
<1>4. QED BY <1>1, <1>2, <1>3 DEF IInv

\* The code leaves the map before anything else is checked.
LEMMA TakeCodeStep ==
  ASSUME IInv, NEW w \in Workers, NEW c \in codes, NEW matches \in BOOLEAN, TakeCode(w, c, matches)
  PROVE  IInv'
<1> USE ApprovalAssumption DEF At, db, memory, history
<1>0. /\ TypeOK /\ LockInv /\ HandlerInv /\ TryInv /\ RequestInv
      /\ CodeInv /\ ApprovedInTime /\ RevokerInv /\ RevocationIsComplete
  BY DEF IInv
<1>1. TypeOK'
  <2>1. c.request \in Requests
    BY <1>0 DEF TypeOK, Code
  <2>2. Doing("grant", c.request) \in HandlerState
    BY <2>1, DoingType DEF Steps
  <2>3. handler' \in [Workers -> HandlerState]
    BY <1>0, <2>2 DEF TakeCode, TypeOK
  <2>4. QED BY <1>0, <2>3 DEF TakeCode, SpendCode, Acquire, TypeOK
<1>2. HandlerInv'
  <2> SUFFICES ASSUME c.expires_at >= now /\ matches
               PROVE  HandlerInv'
    BY <1>0 DEF TakeCode, SpendCode, HandlerInv, Unfiled
  <2>1. c.request \in Requests /\ row[c.request].link # NoLink
    BY <1>0 DEF TypeOK, Code, CodeInv, RequestInv, Unfiled
  <2>2. handler' = [handler EXCEPT ![w] = Doing("grant", c.request)]
    BY DEF TakeCode
  <2>3. \A v \in Workers : v # w => handler'[v] = handler[v]
    BY <1>0, <2>2 DEF TypeOK
  <2>4. handler'[w] = Doing("grant", c.request)
    BY <1>0, <2>2 DEF TypeOK
  <2>5. \A v \in Workers : handler[v].step = "create" => handler[v].req # c.request
    BY <1>0 DEF HandlerInv, Unfiled
  <2>6. QED BY <1>0, <2>1, <2>3, <2>4, <2>5 DEF TakeCode, SpendCode, HandlerInv, Unfiled, Doing
<1>3. TryInv'
  <2> SUFFICES ASSUME c.expires_at >= now /\ matches
               PROVE  TryInv'
    BY <1>0 DEF TakeCode, SpendCode, TryInv
  <2>1. c.request \in Requests /\ minted[c.request] = 1 /\ granted[c.request] = 0
    BY <1>0 DEF TypeOK, Code, CodeInv
  <2>2. c.request \notin pending
    BY <1>0, <2>1 DEF RequestInv
  <2>3. \A d \in codes' : d.request # c.request
    BY <1>0 DEF TakeCode, SpendCode, CodeInv
  <2>4. handler' = [handler EXCEPT ![w] = Doing("grant", c.request)]
    BY DEF TakeCode
  <2>5. \A v \in Workers : v # w => handler'[v] = handler[v] /\ handler[v].step # "grant"
    BY <1>0, <2>4 DEF TakeCode, Acquire, LockInv, Critical, Nobody, TypeOK
  <2>6. handler'[w] = Doing("grant", c.request)
    BY <1>0, <2>4 DEF TypeOK
  <2>7. QED BY <1>0, <2>1, <2>2, <2>3, <2>5, <2>6 DEF TakeCode, TryInv, Doing
<1>4. /\ LockInv' /\ RequestInv' /\ CodeInv' /\ ApprovedInTime'
      /\ RevokerInv' /\ RevocationIsComplete'
  BY <1>0
  DEF TakeCode, SpendCode, Acquire, Doing, TypeOK, HandlerState, LockInv, Critical,
      Steps, Reloader, Nobody, RevokerState, RequestInv, HandlerInv, TryInv, Unfiled,
      Row, CodeInv, Code, ApprovedInTime, RevokerInv, On, At, RevocationIsComplete
<1>5. QED BY <1>1, <1>2, <1>3, <1>4 DEF IInv

\* The grant of the code that was just taken.
LEMMA InsertGrantStep ==
  ASSUME IInv, NEW w \in Workers, InsertGrant(w)
  PROVE  IInv'
<1> USE ApprovalAssumption DEF At, db, memory, history
<1>0. /\ TypeOK /\ LockInv /\ HandlerInv /\ TryInv /\ RequestInv
      /\ CodeInv /\ ApprovedInTime /\ RevokerInv /\ RevocationIsComplete
  BY DEF IInv
<1>1. TypeOK'
  <2>1. handler[w].req \in Requests
    BY <1>0 DEF InsertGrant, HandlerInv
  <2>2. QED BY <1>0, <2>1, ReturnType DEF InsertGrant, Release, TypeOK
<1>2. RevokerInv'
  <2>1. lockedBy = w /\ w # Reloader
    BY <1>0 DEF InsertGrant, LockInv, Critical, Reloader
  <2>2. \A p \in Processes : p = "daemon" => revoker[p].step = "idle"
    BY <1>0, <2>1 DEF LockInv
  <2>3. QED BY <2>2 DEF InsertGrant, RevokerInv
<1>3. /\ LockInv' /\ HandlerInv' /\ TryInv' /\ RequestInv'
      /\ CodeInv' /\ ApprovedInTime' /\ RevocationIsComplete'
  BY <1>0
  DEF InsertGrant, Return, Release, Idle, Doing, TypeOK, HandlerState, LockInv,
      Critical, Steps, Reloader, Nobody, RevokerState, HandlerInv, Unfiled, TryInv,
      RequestInv, Row, CodeInv, Code, ApprovedInTime, RevocationIsComplete, RevokerInv,
      On
<1>4. QED BY <1>1, <1>2, <1>3 DEF IInv

\* A failed statement lets go of the lock and of nothing else.
LEMMA StoreFailsStep ==
  ASSUME IInv, NEW w \in Workers, StoreFails(w)
  PROVE  IInv'
<1> USE ApprovalAssumption DEF At, db, memory, history
<1>0. /\ TypeOK /\ LockInv /\ HandlerInv /\ TryInv /\ RequestInv
      /\ CodeInv /\ ApprovedInTime /\ RevokerInv /\ RevocationIsComplete
  BY DEF IInv
<1>1. TypeOK'
  BY <1>0
  DEF StoreFails, Return, Idle, Doing, TypeOK, HandlerState, RevokerState, Code, Row,
      Steps
<1>2. /\ LockInv' /\ HandlerInv' /\ TryInv' /\ RequestInv'
      /\ CodeInv' /\ ApprovedInTime' /\ RevokerInv' /\ RevocationIsComplete'
  BY <1>0
  DEF StoreFails, Return, Idle, Doing, TypeOK, HandlerState, LockInv, Critical, Steps,
      Reloader, Nobody, RevokerState, HandlerInv, Unfiled, TryInv, RequestInv, Row,
      CodeInv, Code, ApprovedInTime, RevokerInv, On, At, RevocationIsComplete
<1>3. QED BY <1>1, <1>2 DEF IInv

\* A denial looks the request up.
LEMMA DenyLookStep ==
  ASSUME IInv, NEW r \in Requests, DenyLook(r)
  PROVE  IInv'
<1> USE ApprovalAssumption DEF At, db, memory, history
<1>0. /\ TypeOK /\ LockInv /\ HandlerInv /\ TryInv /\ RequestInv
      /\ CodeInv /\ ApprovedInTime /\ RevokerInv /\ RevocationIsComplete
  BY DEF IInv
<1>1. /\ TypeOK' /\ LockInv' /\ HandlerInv' /\ TryInv'
      /\ RequestInv' /\ CodeInv' /\ ApprovedInTime' /\ RevokerInv'
      /\ RevocationIsComplete'
  BY <1>0
  DEF DenyLook, TypeOK, HandlerState, RevokerState, Code, Row, Steps, LockInv, Critical,
      Reloader, Nobody, HandlerInv, Unfiled, TryInv, RequestInv, CodeInv,
      ApprovedInTime, RevokerInv, On, At, RevocationIsComplete
<1>2. QED BY <1>1 DEF IInv

\* A denial deletes the row under whoever has read it.
LEMMA DenyRemoveStep ==
  ASSUME IInv, NEW r \in Requests, DenyRemove(r)
  PROVE  IInv'
<1> USE ApprovalAssumption DEF At, db, memory, history
<1>0. /\ TypeOK /\ LockInv /\ HandlerInv /\ TryInv /\ RequestInv
      /\ CodeInv /\ ApprovedInTime /\ RevokerInv /\ RevocationIsComplete
  BY DEF IInv
<1>1. /\ TypeOK' /\ LockInv' /\ HandlerInv' /\ TryInv'
      /\ RequestInv' /\ CodeInv' /\ ApprovedInTime' /\ RevokerInv'
      /\ RevocationIsComplete'
  BY <1>0
  DEF DenyRemove, TypeOK, HandlerState, RevokerState, Code, Row, Steps, LockInv,
      Critical, Reloader, Nobody, HandlerInv, Unfiled, TryInv, RequestInv, CodeInv,
      ApprovedInTime, RevokerInv, On, At, RevocationIsComplete
<1>2. QED BY <1>1 DEF IInv

\* The reload takes code_lock: no handler is inside it.
LEMMA RevokeGrantsStep ==
  ASSUME IInv, NEW p \in Processes, NEW l \in Links, RevokeGrants(p, l)
  PROVE  IInv'
<1> USE ApprovalAssumption DEF At, db, memory, history
<1>0. /\ TypeOK /\ LockInv /\ HandlerInv /\ TryInv /\ RequestInv
      /\ CodeInv /\ ApprovedInTime /\ RevokerInv /\ RevocationIsComplete
  BY DEF IInv
<1>1. TypeOK'
  <2>1. Filed(l) \in SUBSET Requests
    BY DEF Filed, On
  <2>2. [step |-> "pending", link |-> l, targets |-> Filed(l)] \in RevokerState
    BY <2>1 DEF RevokerState
  <2>3. revoker' \in [Processes -> RevokerState]
    BY <1>0, <2>2 DEF RevokeGrants, TypeOK
  <2>4. lockedBy' \in Workers \union {Reloader, Nobody}
    BY <1>0 DEF RevokeGrants, Acquire, TypeOK
  <2>5. QED BY <1>0, <2>3, <2>4 DEF RevokeGrants, TypeOK
<1>2. RequestInv'
  <2>1. \A r \in Requests : row[r].link = NoLink => r \notin Filed(l)
    BY DEF Filed, On
  <2>2. \A r \in Requests : row[r].link = NoLink => Unfiled(r)'
    BY <1>0, <2>1 DEF RevokeGrants, RequestInv, Unfiled, TypeOK, RevokerState
  <2>3. QED BY <1>0, <2>2 DEF RevokeGrants, RequestInv
<1>3. /\ LockInv' /\ HandlerInv' /\ TryInv' /\ CodeInv'
      /\ ApprovedInTime' /\ RevokerInv' /\ RevocationIsComplete'
  BY <1>0
  DEF RevokeGrants, Acquire, Filed, TypeOK, HandlerState, LockInv, Critical, Steps,
      Reloader, Nobody, RevokerState, HandlerInv, Unfiled, TryInv, RequestInv, CodeInv,
      Code, ApprovedInTime, Row, RevokerInv, On, At, RevocationIsComplete
<1>4. QED BY <1>1, <1>2, <1>3 DEF IInv

\* The waiting requests of the link go.
LEMMA RevokePendingStep ==
  ASSUME IInv, NEW p \in Processes, RevokePending(p)
  PROVE  IInv'
<1> USE ApprovalAssumption DEF At, db, memory, history
<1>0. /\ TypeOK /\ LockInv /\ HandlerInv /\ TryInv /\ RequestInv
      /\ CodeInv /\ ApprovedInTime /\ RevokerInv /\ RevocationIsComplete
  BY DEF IInv
<1>1. TypeOK'
  BY <1>0 DEF RevokePending, TypeOK, HandlerState, RevokerState, Code, Row, Steps
<1>2. /\ LockInv' /\ HandlerInv' /\ TryInv' /\ RequestInv'
      /\ CodeInv' /\ ApprovedInTime' /\ RevokerInv' /\ RevocationIsComplete'
  BY <1>0
  DEF RevokePending, TypeOK, HandlerState, LockInv, Critical, Steps, Reloader, Nobody,
      RevokerState, HandlerInv, Unfiled, TryInv, RequestInv, Row, CodeInv, Code,
      ApprovedInTime, RevokerInv, On, At, RevocationIsComplete
<1>3. QED BY <1>1, <1>2 DEF IInv

\* The codes of the link go, and the revocation is done.
LEMMA RevokeCodesStep ==
  ASSUME IInv, NEW p \in Processes, RevokeCodes(p)
  PROVE  IInv'
<1> USE ApprovalAssumption DEF At, db, memory, history
<1>0. /\ TypeOK /\ LockInv /\ HandlerInv /\ TryInv /\ RequestInv
      /\ CodeInv /\ ApprovedInTime /\ RevokerInv /\ RevocationIsComplete
  BY DEF IInv
<1>1. RevocationIsComplete'
  <2>1. CASE p # "daemon"
    BY <1>0, <2>1 DEF RevokeCodes, RevocationIsComplete
  <2>2. CASE p = "daemon"
    <3> SUFFICES ASSUME NEW r \in gone'
                 PROVE  /\ r \notin pending' \union grants'
                        /\ \A c \in codes' : c.request # r
                        /\ \A w \in Workers : handler'[w].req = r =>
                              handler'[w].step \in {"page", "entered"}
      BY DEF RevocationIsComplete
    <3>1. CASE r \in gone
      BY <1>0, <2>2, <3>1 DEF RevokeCodes, CodesOn, RevocationIsComplete
    <3>2. CASE r \in revoker[p].targets
      <4>1. r \notin pending \union grants /\ r \in Requests /\ row[r].link = revoker[p].link
        BY <1>0, <2>2, <3>2 DEF RevokeCodes, RevokerInv, On
      <4>2. \A c \in codes' : c.request # r
        BY <2>2, <4>1 DEF RevokeCodes, CodesOn
      <4>3. \A w \in Workers : handler[w].step \notin Critical \union {"create"} \/ handler[w].req # r
        BY <1>0, <2>2, <3>2 DEF RevokeCodes, RevokerInv, LockInv, Reloader
      <4>4. \A w \in Workers : handler[w].step = "idle" => handler[w].req # r
        BY <1>0, <4>1 DEF HandlerInv
      <4>5. \A w \in Workers : handler[w].step \in Steps
        BY <1>0 DEF TypeOK, HandlerState
      <4>6. QED BY <4>1, <4>2, <4>3, <4>4, <4>5 DEF RevokeCodes, Critical, Steps
    <3>3. QED BY <2>2, <3>1, <3>2 DEF RevokeCodes
  <2>3. QED BY <2>1, <2>2
<1>2. TypeOK'
  BY <1>0
  DEF RevokeCodes, CodesOn, Release, NoRevocation, TypeOK, HandlerState, RevokerState,
      Code, Row, Steps
<1>3. /\ LockInv' /\ HandlerInv' /\ TryInv' /\ RequestInv'
      /\ CodeInv' /\ ApprovedInTime' /\ RevokerInv'
  BY <1>0
  DEF RevokeCodes, CodesOn, Release, NoRevocation, TypeOK, HandlerState, LockInv,
      Critical, Steps, Reloader, Nobody, RevokerState, HandlerInv, Unfiled, TryInv,
      RequestInv, Row, CodeInv, Code, ApprovedInTime, RevokerInv, On, At
<1>4. QED BY <1>1, <1>2, <1>3 DEF IInv

\* A revocation that fails promises nothing.
LEMMA RevokeFailsStep ==
  ASSUME IInv, NEW p \in Processes, RevokeFails(p)
  PROVE  IInv'
<1> USE ApprovalAssumption DEF At, db, memory, history
<1>0. /\ TypeOK /\ LockInv /\ HandlerInv /\ TryInv /\ RequestInv
      /\ CodeInv /\ ApprovedInTime /\ RevokerInv /\ RevocationIsComplete
  BY DEF IInv
<1>1. TypeOK'
  BY <1>0
  DEF RevokeFails, NoRevocation, TypeOK, HandlerState, RevokerState, Code, Row, Steps
<1>2. /\ LockInv' /\ HandlerInv' /\ TryInv' /\ RequestInv'
      /\ CodeInv' /\ ApprovedInTime' /\ RevokerInv' /\ RevocationIsComplete'
  BY <1>0
  DEF RevokeFails, NoRevocation, TypeOK, HandlerState, LockInv, Critical, Steps,
      Reloader, Nobody, RevokerState, HandlerInv, Unfiled, TryInv, RequestInv, Row,
      CodeInv, Code, ApprovedInTime, RevokerInv, On, At, RevocationIsComplete
<1>3. QED BY <1>1, <1>2 DEF IInv

\* One grant goes.
LEMMA RevokeGrantStep ==
  ASSUME IInv, NEW r \in Requests, RevokeGrant(r)
  PROVE  IInv'
<1> USE ApprovalAssumption DEF At, db, memory, history
<1>0. /\ TypeOK /\ LockInv /\ HandlerInv /\ TryInv /\ RequestInv
      /\ CodeInv /\ ApprovedInTime /\ RevokerInv /\ RevocationIsComplete
  BY DEF IInv
<1>1. /\ TypeOK' /\ LockInv' /\ HandlerInv' /\ TryInv'
      /\ RequestInv' /\ CodeInv' /\ ApprovedInTime' /\ RevokerInv'
      /\ RevocationIsComplete'
  BY <1>0
  DEF RevokeGrant, TypeOK, HandlerState, RevokerState, Code, Row, Steps, LockInv,
      Critical, Reloader, Nobody, HandlerInv, Unfiled, TryInv, RequestInv, CodeInv,
      ApprovedInTime, RevokerInv, On, At, RevocationIsComplete
<1>2. QED BY <1>1 DEF IInv

\* Every grant goes, in another process.
LEMMA RevokeAllByCliStep ==
  ASSUME IInv, RevokeAllByCli
  PROVE  IInv'
<1> USE ApprovalAssumption DEF At, db, memory, history
<1>0. /\ TypeOK /\ LockInv /\ HandlerInv /\ TryInv /\ RequestInv
      /\ CodeInv /\ ApprovedInTime /\ RevokerInv /\ RevocationIsComplete
  BY DEF IInv
<1>1. /\ TypeOK' /\ LockInv' /\ HandlerInv' /\ TryInv'
      /\ RequestInv' /\ CodeInv' /\ ApprovedInTime' /\ RevokerInv'
      /\ RevocationIsComplete'
  BY <1>0
  DEF RevokeAllByCli, TypeOK, HandlerState, RevokerState, Code, Row, Steps, LockInv,
      Critical, Reloader, Nobody, HandlerInv, Unfiled, TryInv, RequestInv, CodeInv,
      ApprovedInTime, RevokerInv, On, At, RevocationIsComplete
<1>2. QED BY <1>1 DEF IInv

\* The sweep deletes expired rows.
LEMMA SweepStep ==
  ASSUME IInv, Sweep
  PROVE  IInv'
<1> USE ApprovalAssumption DEF At, db, memory, history
<1>0. /\ TypeOK /\ LockInv /\ HandlerInv /\ TryInv /\ RequestInv
      /\ CodeInv /\ ApprovedInTime /\ RevokerInv /\ RevocationIsComplete
  BY DEF IInv
<1>1. /\ TypeOK' /\ LockInv' /\ HandlerInv' /\ TryInv'
      /\ RequestInv' /\ CodeInv' /\ ApprovedInTime' /\ RevokerInv'
      /\ RevocationIsComplete'
  BY <1>0
  DEF Sweep, Overdue, TypeOK, HandlerState, RevokerState, Code, Row, Steps, LockInv,
      Critical, Reloader, Nobody, HandlerInv, Unfiled, TryInv, RequestInv, CodeInv,
      ApprovedInTime, RevokerInv, On, At, RevocationIsComplete
<1>2. QED BY <1>1 DEF IInv

\* Time passes.
LEMMA TickStep ==
  ASSUME IInv, Tick
  PROVE  IInv'
<1> USE ApprovalAssumption DEF At, db, memory, history
<1>0. /\ TypeOK /\ LockInv /\ HandlerInv /\ TryInv /\ RequestInv
      /\ CodeInv /\ ApprovedInTime /\ RevokerInv /\ RevocationIsComplete
  BY DEF IInv
<1>1. /\ TypeOK' /\ LockInv' /\ HandlerInv' /\ TryInv'
      /\ RequestInv' /\ CodeInv' /\ ApprovedInTime' /\ RevokerInv'
      /\ RevocationIsComplete'
  BY <1>0
  DEF Tick, TypeOK, HandlerState, RevokerState, Code, Row, Steps, LockInv, Critical,
      Reloader, Nobody, HandlerInv, Unfiled, TryInv, RequestInv, CodeInv,
      ApprovedInTime, RevokerInv, On, At, RevocationIsComplete
<1>2. QED BY <1>1 DEF IInv

\* The daemon forgets its handlers, codes, approvals and lock.
LEMMA RestartStep ==
  ASSUME IInv, Restart
  PROVE  IInv'
<1> USE ApprovalAssumption DEF At, db, memory, history
<1>0. /\ TypeOK /\ LockInv /\ HandlerInv /\ TryInv /\ RequestInv
      /\ CodeInv /\ ApprovedInTime /\ RevokerInv /\ RevocationIsComplete
  BY DEF IInv
<1>1. TypeOK'
  BY <1>0
  DEF Restart, Idle, Doing, NoRevocation, TypeOK, HandlerState, RevokerState, Code, Row,
      Steps
<1>2. /\ LockInv' /\ HandlerInv' /\ TryInv' /\ RequestInv'
      /\ CodeInv' /\ ApprovedInTime' /\ RevokerInv' /\ RevocationIsComplete'
  BY <1>0
  DEF Restart, Idle, Doing, NoRevocation, TypeOK, HandlerState, LockInv, Critical,
      Steps, Reloader, Nobody, RevokerState, HandlerInv, Unfiled, TryInv, RequestInv,
      Row, CodeInv, Code, ApprovedInTime, RevokerInv, On, At, RevocationIsComplete
<1>3. QED BY <1>1, <1>2 DEF IInv

-----------------------------------------------------------------------------
(* The invariant, and what follows from it.                                *)

LEMMA InitInv == Init => IInv
<1> SUFFICES ASSUME Init PROVE IInv
  OBVIOUS
<1> USE ApprovalAssumption DEF Init, Idle, Doing, NoRevocation
<1>1. TypeOK
  BY InitTypes
<1>2. LockInv
  BY DEF LockInv, Critical, Nobody, Reloader
<1>3. HandlerInv /\ TryInv
  BY DEF HandlerInv, TryInv
<1>4. RequestInv
  BY DEF RequestInv, Unfiled
<1>5. CodeInv /\ ApprovedInTime
  BY DEF CodeInv, ApprovedInTime
<1>6. RevokerInv /\ RevocationIsComplete
  BY DEF RevokerInv, RevocationIsComplete
<1>7. QED BY <1>1, <1>2, <1>3, <1>4, <1>5, <1>6 DEF IInv

LEMMA NextInv == IInv /\ [Next]_vars => IInv'
<1> SUFFICES ASSUME IInv, [Next]_vars PROVE IInv'
  OBVIOUS
<1>1. ASSUME NEW w \in Workers, Begin(w) PROVE IInv'
  BY <1>1, BeginCountStep, BeginCreateStep, BeginPageStep DEF Begin
<1>2. ASSUME NEW w \in Workers, CompleteCode(w) PROVE IInv'
  BY <1>2, EnterCodeStep, CheckAttemptsStep, RecordAttemptStep, CompareCodeStep, LockOutStep,
     ApproveReadStep, ApproveRemoveStep, ApprovePublishStep DEF CompleteCode
<1>3. ASSUME NEW w \in Workers, Exchange(w) PROVE IInv'
  BY <1>3, TakeCodeStep, InsertGrantStep DEF Exchange
<1>4. ASSUME NEW w \in Workers, StoreFails(w) PROVE IInv'
  BY <1>4, StoreFailsStep
<1>5. CASE Deny
  BY <1>5, DenyLookStep, DenyRemoveStep DEF Deny
<1>6. CASE Revoke
  BY <1>6, RevokeGrantsStep, RevokePendingStep, RevokeCodesStep, RevokeFailsStep,
     RevokeGrantStep, RevokeAllByCliStep DEF Revoke
<1>7. CASE Sweep
  BY <1>7, SweepStep
<1>8. CASE Tick
  BY <1>8, TickStep
<1>9. CASE Restart
  BY <1>9, RestartStep
<1>10. CASE UNCHANGED vars
  BY <1>10 DEF vars, db, memory, history, IInv, TypeOK, LockInv, HandlerInv, Unfiled, TryInv,
     RequestInv, CodeInv, ApprovedInTime, RevokerInv, RevocationIsComplete, At, On
<1>11. QED
  BY <1>1, <1>2, <1>3, <1>4, <1>5, <1>6, <1>7, <1>8, <1>9, <1>10 DEF Next

\* The inductive invariant holds in every reachable state.
THEOREM Invariance == Spec => []IInv
<1>1. QED BY InitInv, NextInv, PTL DEF Spec

\* No column ever leaves its type; above all, a row's tries stay within
\* MaxAttempts (auth.rs:260).
THEOREM TypesHold == Spec => []TypeOK
<1>1. IInv => TypeOK
  BY DEF IInv
<1>2. QED BY <1>1, Invariance, PTL

\* The code of a request is compared with at most MaxAttempts tries.
THEOREM GuessesStayBounded == Spec => []GuessesBounded
<1>1. IInv => GuessesBounded
  BY DEF IInv, RequestInv, GuessesBounded
<1>2. QED BY <1>1, Invariance, PTL

\* A request makes at most one code, and a code at most one grant.
THEOREM ConnectsOnce == Spec => []OneConnectionPerRequest
<1>1. IInv => OneConnectionPerRequest
  BY DEF IInv, RequestInv, OneConnectionPerRequest
<1>2. QED BY <1>1, Invariance, PTL

\* Nobody is approved after the request expired.
THEOREM ApprovalsAreInTime == Spec => []ApprovedInTime
<1>1. IInv => ApprovedInTime
  BY DEF IInv
<1>2. QED BY <1>1, Invariance, PTL

\* After the daemon's revoke_server of a link, nothing filed before it is left.
THEOREM RevocationCompletes == Spec => []RevocationIsComplete
<1>1. IInv => RevocationIsComplete
  BY DEF IInv
<1>2. QED BY <1>1, Invariance, PTL

-----------------------------------------------------------------------------
(* What a handler knows of who asked.                                      *)

\* What a handler found out before it went on, and where grants come from.
AskerInv ==
    /\ \A w \in Workers :
         LET h == handler[w] IN
         /\ h.step \in {"entered", "record", "compare", "lockout", "read", "remove", "publish"} =>
               h.own /\ h.req \in cookies
         /\ h.step \in {"read", "remove", "publish"} => h.req \in confirmed
    /\ \A r \in grants : granted[r] # 0

Inv == IInv /\ AskerInv

LEMMA InitAsker == Init => AskerInv
  BY DEF Init, AskerInv, Idle, Doing

LEMMA NextAsker ==
  ASSUME IInv, AskerInv, [Next]_vars
  PROVE  AskerInv'
<1> USE DEF At, db, memory, history, Idle, Doing
<1>0. TypeOK /\ \A w \in Workers : handler[w].step \in Steps
  BY DEF IInv, TypeOK, HandlerState
<1>1. ASSUME NEW w \in Workers, Begin(w) PROVE AskerInv'
  BY <1>0, <1>1 DEF Begin, BeginCount, BeginCreate, BeginPage, Go, Return, TypeOK, HandlerState, AskerInv
<1>2. ASSUME NEW w \in Workers, CompleteCode(w) PROVE AskerInv'
  <2>1. ASSUME NEW r \in Requests, NEW own \in BOOLEAN, NEW right \in BOOLEAN, EnterCode(w, r, own, right)
        PROVE  AskerInv'
    BY <1>0, <2>1 DEF EnterCode, OwnBrowser, TypeOK, HandlerState, AskerInv
  <2>2. CASE CheckAttempts(w)
    BY <1>0, <2>2 DEF CheckAttempts, Return, TypeOK, HandlerState, AskerInv
  <2>3. CASE RecordAttempt(w)
    BY <1>0, <2>3 DEF RecordAttempt, Go, TypeOK, HandlerState, AskerInv
  <2>4. CASE CompareCode(w)
    BY <1>0, <2>4 DEF CompareCode, Go, Return, TypeOK, HandlerState, AskerInv
  <2>5. CASE LockOut(w)
    BY <1>0, <2>5 DEF LockOut, Return, TypeOK, HandlerState, AskerInv
  <2>6. CASE ApproveRead(w)
    BY <1>0, <2>6 DEF ApproveRead, Return, TypeOK, HandlerState, AskerInv
  <2>7. CASE ApproveRemove(w)
    BY <1>0, <2>7 DEF ApproveRemove, Go, TypeOK, HandlerState, AskerInv
  <2>8. CASE ApprovePublish(w)
    BY <1>0, <2>8 DEF ApprovePublish, Return, TypeOK, HandlerState, AskerInv
  <2>9. QED BY <1>2, <2>1, <2>2, <2>3, <2>4, <2>5, <2>6, <2>7, <2>8 DEF CompleteCode
<1>3. ASSUME NEW w \in Workers, Exchange(w) PROVE AskerInv'
  <2>1. ASSUME NEW c \in codes, NEW matches \in BOOLEAN, TakeCode(w, c, matches)
        PROVE  AskerInv'
    BY <1>0, <2>1 DEF TakeCode, TypeOK, HandlerState, AskerInv
  <2>2. CASE InsertGrant(w)
    <3>1. handler[w].req \in Requests
      BY <2>2 DEF InsertGrant, IInv, HandlerInv
    <3>2. \A r \in grants' : granted'[r] # 0
      BY <1>0, <2>2, <3>1 DEF InsertGrant, TypeOK, AskerInv
    <3>3. QED BY <1>0, <2>2, <3>2 DEF InsertGrant, Return, TypeOK, AskerInv
  <2>3. QED BY <1>3, <2>1, <2>2 DEF Exchange
<1>4. ASSUME NEW w \in Workers, StoreFails(w) PROVE AskerInv'
  BY <1>0, <1>4 DEF StoreFails, Return, TypeOK, AskerInv
<1>5. CASE Deny \/ Revoke \/ Sweep \/ Tick
  BY <1>5 DEF Deny, DenyLook, DenyRemove, Revoke, RevokeGrants, RevokePending, RevokeCodes,
     RevokeFails, RevokeGrant, RevokeAllByCli, Sweep, Tick, AskerInv
<1>6. CASE Restart
  BY <1>6 DEF Restart, AskerInv
<1>7. CASE UNCHANGED vars
  BY <1>7 DEF vars, AskerInv
<1>8. QED BY <1>1, <1>2, <1>3, <1>4, <1>5, <1>6, <1>7 DEF Next

LEMMA InvHolds == Spec => []Inv
<1>1. Init => Inv
  BY InitInv, InitAsker DEF Inv
<1>2. Inv /\ [Next]_vars => Inv'
  BY NextInv, NextAsker DEF Inv
<1>3. QED BY <1>1, <1>2, PTL DEF Spec

-----------------------------------------------------------------------------
(* Only who asked spends tries or gets a code.                             *)

\* Rows count a try in one action, and codes are made in one.
LEMMA TriesAndCodes ==
  ASSUME IInv, [Next]_vars, NEW r \in Requests,
         row'[r].attempts > row[r].attempts \/ minted'[r] > minted[r]
  PROVE  \E w \in Workers : handler[w].req = r /\ handler[w].step \in {"record", "publish"}
<1> USE DEF IInv, TypeOK, Row, At, db, history, vars
<1>1. ASSUME NEW w \in Workers, RecordAttempt(w)
      PROVE  handler[w].req = r /\ handler[w].step = "record"
  BY <1>1 DEF RecordAttempt
<1>2. ASSUME NEW w \in Workers, ApprovePublish(w)
      PROVE  handler[w].req = r /\ handler[w].step = "publish"
  BY <1>2 DEF ApprovePublish
<1>3. ASSUME NEW w \in Workers, NEW q \in Requests, NEW l \in Links, BeginCount(w, q, l)
      PROVE  FALSE
  BY <1>3, ApprovalAssumption DEF BeginCount, NewRow
<1>4. CASE row' = row /\ minted' = minted
  BY <1>4
<1>5. QED
  BY <1>1, <1>2, <1>3, <1>4
  DEF Next, Begin, BeginCreate, BeginPage, CompleteCode, EnterCode, CheckAttempts, CompareCode,
      LockOut, ApproveRead, ApproveRemove, Exchange, TakeCode, InsertGrant, StoreFails, Deny,
      DenyLook, DenyRemove, Revoke, RevokeGrants, RevokePending, RevokeCodes, RevokeFails,
      RevokeGrant, RevokeAllByCli, Sweep, Tick, Restart

\* Nobody but the browser that asked spends a try of a request or gets its
\* code, whoever else types at the same time (gateway.rs complete_code).
THEOREM OnlyTheAskerTries == Spec => OnlyAskerSpendsTries
<1>1. Inv /\ [Next]_vars =>
        [\A r \in Requests :
           (row'[r].attempts > row[r].attempts \/ minted'[r] > minted[r])
             => \E w \in Workers : handler[w].req = r /\ handler[w].own /\ r \in cookies]_vars
  BY TriesAndCodes DEF Inv, AskerInv
<1>2. QED BY <1>1, InvHolds, PTL DEF Spec, OnlyAskerSpendsTries

-----------------------------------------------------------------------------
(* The refinement.                                                         *)

\* Not filed yet.
Unborn(r) == row[r].link = NoLink \/ \E w \in Workers : handler[w].req = r /\ At(w, "create")

\* What a request is, is one thing at a time: only a waiting one may at the
\* same time be as good as approved.
LEMMA Exclusive ==
  ASSUME Inv, NEW r \in Requests
  PROVE  /\ r \in grants => r \notin pending /\ ~Deciding(r)
         /\ Unborn(r) => r \notin pending \union grants /\ ~Deciding(r)
         /\ r \in pending /\ Deciding(r) => r \in confirmed
<1> USE DEF Inv, IInv, TypeOK
<1>1. r \in grants => r \notin pending /\ ~Deciding(r)
  <2> HAVE r \in grants
  <2>1. granted[r] # 0 /\ minted[r] # 0
    BY DEF AskerInv, RequestInv
  <2>2. \A c \in codes : c.request # r
    BY <2>1 DEF CodeInv
  <2>3. \A w \in Workers : handler[w].req = r => handler[w].step \notin {"remove", "publish", "grant"}
    BY <2>1 DEF TryInv
  <2>4. QED BY <2>1, <2>2, <2>3 DEF RequestInv, Deciding
<1>2. Unborn(r) => r \notin pending \union grants /\ ~Deciding(r)
  <2> HAVE Unborn(r)
  <2>1. Unfiled(r)
    BY DEF Unborn, HandlerInv, RequestInv, At
  <2>2. \A w \in Workers : handler[w].req = r => handler[w].step \in {"idle", "create"}
    BY DEF Unborn, HandlerInv, At
  <2>3. QED BY <2>1, <2>2 DEF Unfiled, Deciding
<1>3. r \in pending /\ Deciding(r) => r \in confirmed
  BY DEF RequestInv, CodeInv, TryInv, AskerInv, Deciding
<1>4. QED BY <1>1, <1>2, <1>3

StatusTable ==
    \A r \in Requests :
        /\ Status(r) \in Promise!States
        /\ Status(r) = "connected" <=> r \in grants
        /\ Status(r) = "waiting" <=> r \in pending
        /\ Status(r) = "none" <=> Unborn(r)
        /\ Status(r) = "approved" <=> Deciding(r) /\ r \notin pending

LEMMA StatusIs == Inv => StatusTable
  BY Exclusive DEF StatusTable, Status, Unborn, Promise!States

LEMMA StatusBecomes == Inv' => StatusTable'
  BY StatusIs, PTL

\* A step by which nothing comes about only ends requests: a step of Consent.
Fades(r) ==
    /\ r \in grants' => r \in grants
    /\ r \in pending' => r \in pending
    /\ Deciding(r)' => Deciding(r)
    /\ Unborn(r)' => Unborn(r)

LEMMA FadingEnds ==
  ASSUME Inv, Inv', confirmed' = confirmed, guesses' = guesses, \A r \in Requests : Fades(r)
  PROVE  Promise!ConsentNext
<1> DEFINE ending == {r \in Requests : Status(r)' = "ended"}
           decided == {r \in Requests : Status(r) = "waiting" /\ Status(r)' = "approved"}
<1>1. \A r \in Requests : Status(r)' \in {Status(r), "ended"} \/ r \in decided
  BY StatusIs, StatusBecomes, Exclusive DEF StatusTable, Fades, Promise!States
<1>2. \A r \in decided : Status(r) = "waiting" /\ r \in confirmed
  BY StatusIs, StatusBecomes, Exclusive DEF StatusTable, Fades
<1>3. Promise!End(ending, decided)
  BY <1>1, <1>2 DEF Promise!End
<1>4. QED BY <1>3 DEF Promise!ConsentNext

\* One request moves, the others stay.
LEMMA SameStatus ==
  ASSUME NEW r \in Requests,
         r \in grants' <=> r \in grants, r \in pending' <=> r \in pending,
         Deciding(r)' <=> Deciding(r), Unborn(r)' <=> Unborn(r)
  PROVE  Status(r)' = Status(r)
  BY DEF Status, Unborn

\* begin: the request waits.
LEMMA CreateAsks ==
  ASSUME Inv, Inv', NEW w \in Workers, BeginCreate(w)
  PROVE  Promise!ConsentNext
<1>0. TypeOK /\ HandlerInv
  BY DEF Inv, IInv
<1>1. PICK r \in Requests : r = handler[w].req /\ \A v \in Workers : handler[v].req = r => v = w
  BY <1>0 DEF BeginCreate, At, HandlerInv
<1>2. Status(r) = "none" /\ Status(r)' = "waiting"
  BY <1>1, StatusIs, StatusBecomes DEF StatusTable, BeginCreate, At, Unborn
<1>3. \A q \in Requests : q # r => Status(q)' = Status(q)
  <2> TAKE q \in Requests
  <2> HAVE q # r
  <2>1. handler'[w].req = r /\ \A v \in Workers : v # w => handler'[v] = handler[v]
    BY <1>0, <1>1 DEF BeginCreate, Go, TypeOK, HandlerState
  <2>2. (Deciding(q)' <=> Deciding(q)) /\ (Unborn(q)' <=> Unborn(q))
    BY <1>1, <2>1 DEF BeginCreate, Deciding, Unborn, At, db, memory
  <2>3. QED BY <1>1, <2>2, SameStatus DEF BeginCreate
<1>4. Promise!Ask(r)
  BY <1>2, <1>3 DEF Promise!Ask, BeginCreate, history
<1>5. QED BY <1>4 DEF Promise!ConsentNext

\* approve_with_code: one try.
LEMMA CompareTries ==
  ASSUME Inv, Inv', NEW w \in Workers, CompareCode(w)
  PROVE  Promise!ConsentNext
<1>0. TypeOK /\ HandlerInv /\ TryInv /\ LockInv /\ RequestInv /\ CodeInv
  BY DEF Inv, IInv
<1>1. PICK r \in Requests : r = handler[w].req
  BY <1>0 DEF CompareCode, At, HandlerInv
<1>2. \A v \in Workers : v # w => handler[v].step \notin Critical
  BY <1>0 DEF CompareCode, At, LockInv, Critical
<1>3. minted[r] = 0 /\ guesses[r] < MaxAttempts
  BY <1>0, <1>1, ApprovalAssumption DEF CompareCode, At, TryInv, TypeOK, HandlerState
<1>4. ~Deciding(r)
  BY <1>0, <1>1, <1>2, <1>3 DEF CompareCode, At, Deciding, CodeInv, Critical
<1>5. r \notin grants /\ ~Unborn(r)
  BY <1>0, <1>1, <1>3 DEF CompareCode, At, HandlerInv, Unborn, Inv, AskerInv, RequestInv, TypeOK
<1>6. Status(r) \in {"waiting", "ended"}
  BY <1>4, <1>5, StatusIs DEF StatusTable, Promise!States
<1>7. \A q \in Requests : Status(q)' = Status(q)
  <2> TAKE q \in Requests
  <2>1. handler'[w].step \in {"read", "lockout", "idle"} /\ \A v \in Workers : v # w => handler'[v] = handler[v]
    BY <1>0 DEF CompareCode, Go, Return, Idle, Doing, TypeOK, HandlerState
  <2>2. (Deciding(q)' <=> Deciding(q)) /\ (Unborn(q)' <=> Unborn(q))
    BY <2>1 DEF CompareCode, Deciding, Unborn, At, db, memory
  <2>3. QED BY <2>2, SameStatus DEF CompareCode, db
<1>8. PICK right \in BOOLEAN : confirmed' = IF right THEN confirmed \union {r} ELSE confirmed
  BY <1>1 DEF CompareCode
<1>9. Promise!Try(r, right)
  BY <1>0, <1>1, <1>3, <1>6, <1>7, <1>8 DEF Promise!Try, CompareCode, TypeOK
<1>10. QED BY <1>9 DEF Promise!ConsentNext

\* approve reads a request that still waits, and so far changes nothing.
LEMMA ReadStutters ==
  ASSUME Inv, Inv', NEW w \in Workers, ApproveRead(w)
  PROVE  UNCHANGED Promise!consentVars
<1>0. TypeOK
  BY DEF Inv, IInv
<1>1. \A v \in Workers : v # w => handler'[v] = handler[v]
  BY <1>0 DEF ApproveRead, Return, TypeOK
<1>2. /\ handler[w].step = "read"
      /\ \/ handler'[w].step = "idle"
         \/ handler'[w].step = "remove" /\ handler'[w].req = handler[w].req /\ handler[w].req \in pending
  <2>1. CASE Approvable(handler[w].req) /\ handler[w].own
    BY <1>0, <2>1 DEF ApproveRead, Approvable, Live, TypeOK, HandlerState, At
  <2>2. CASE ~(Approvable(handler[w].req) /\ handler[w].own)
    BY <1>0, <2>2 DEF ApproveRead, Return, Idle, Doing, TypeOK, At
  <2>3. QED BY <2>1, <2>2
<1>3. ASSUME NEW r \in Requests PROVE Status(r)' = Status(r)
  <2>1. Unborn(r)' <=> Unborn(r)
    BY <1>1, <1>2 DEF ApproveRead, Unborn, At, db
  <2>2. Deciding(r) => Deciding(r)'
    BY <1>1, <1>2 DEF ApproveRead, Deciding, memory
  <2>3. Deciding(r)' => Deciding(r) \/ r \in pending
    BY <1>1, <1>2 DEF ApproveRead, Deciding, memory
  <2>4. QED BY <2>1, <2>2, <2>3 DEF ApproveRead, Status, Unborn, db
<1>4. QED BY <1>3 DEF ApproveRead, history, Promise!consentVars

\* exchange_code: the approved request connects.
LEMMA InsertConnects ==
  ASSUME Inv, Inv', NEW w \in Workers, InsertGrant(w)
  PROVE  Promise!ConsentNext
<1>0. TypeOK /\ HandlerInv /\ TryInv
  BY DEF Inv, IInv
<1>1. PICK r \in Requests : r = handler[w].req
  BY <1>0 DEF InsertGrant, At, HandlerInv
<1>2. Status(r) = "approved" /\ Status(r)' = "connected"
  BY <1>0, <1>1, StatusIs, StatusBecomes DEF StatusTable, InsertGrant, At, Deciding, TryInv
<1>3. \A q \in Requests : q # r => Status(q)' = Status(q)
  <2> TAKE q \in Requests
  <2> HAVE q # r
  <2>1. handler'[w].step = "idle" /\ \A v \in Workers : v # w => handler'[v] = handler[v]
    BY <1>0 DEF InsertGrant, Return, Idle, Doing, TypeOK
  <2>2. (Deciding(q)' <=> Deciding(q)) /\ (Unborn(q)' <=> Unborn(q))
    BY <1>1, <2>1 DEF InsertGrant, Deciding, Unborn, At, memory
  <2>3. QED BY <1>1, <2>2, SameStatus DEF InsertGrant
<1>4. Promise!Connect(r)
  BY <1>2, <1>3 DEF Promise!Connect, InsertGrant
<1>5. QED BY <1>4 DEF Promise!ConsentNext

\* Every other step of a handler.
LEMMA HandlerFades ==
  ASSUME Inv, NEW w \in Workers, Begin(w) \/ CompleteCode(w) \/ Exchange(w) \/ StoreFails(w),
         ~BeginCreate(w), ~CompareCode(w), ~ApproveRead(w), ~InsertGrant(w)
  PROVE  confirmed' = confirmed /\ guesses' = guesses /\ \A r \in Requests : Fades(r)
<1> USE DEF At, db, memory, history, Idle, Doing, Fades, Deciding, Unborn
<1>0. TypeOK /\ \A v \in Workers : handler[v].step \in Steps
  BY DEF Inv, IInv, TypeOK, HandlerState
<1>1. ASSUME NEW r \in Requests, NEW l \in Links, BeginCount(w, r, l)
      PROVE  confirmed' = confirmed /\ guesses' = guesses /\ \A q \in Requests : Fades(q)
  BY <1>0, <1>1 DEF BeginCount, TypeOK
<1>2. CASE BeginPage(w)
  BY <1>0, <1>2 DEF BeginPage, Return, TypeOK
<1>3. ASSUME NEW r \in Requests, NEW own \in BOOLEAN, NEW right \in BOOLEAN, EnterCode(w, r, own, right)
      PROVE  confirmed' = confirmed /\ guesses' = guesses /\ \A q \in Requests : Fades(q)
  BY <1>0, <1>3 DEF EnterCode, TypeOK
<1>4. CASE CheckAttempts(w)
  BY <1>0, <1>4 DEF CheckAttempts, Return, TypeOK, HandlerState
<1>5. CASE RecordAttempt(w)
  BY <1>0, <1>5 DEF RecordAttempt, Go, TypeOK, HandlerState, Row
<1>6. CASE LockOut(w)
  BY <1>0, <1>6 DEF LockOut, Return, TypeOK
<1>7. CASE ApproveRemove(w)
  BY <1>0, <1>7 DEF ApproveRemove, RemoveRow, Go, TypeOK, HandlerState
<1>8. CASE ApprovePublish(w)
  BY <1>0, <1>8 DEF ApprovePublish, Return, TypeOK
<1>9. ASSUME NEW c \in codes, NEW matches \in BOOLEAN, TakeCode(w, c, matches)
      PROVE  confirmed' = confirmed /\ guesses' = guesses /\ \A q \in Requests : Fades(q)
  BY <1>0, <1>9 DEF TakeCode, SpendCode, TypeOK
<1>10. CASE StoreFails(w)
  BY <1>0, <1>10 DEF StoreFails, Return, TypeOK
<1>11. QED BY <1>1, <1>2, <1>3, <1>4, <1>5, <1>6, <1>7, <1>8, <1>9, <1>10
           DEF Begin, CompleteCode, Exchange

\* What others do to requests only ends them.
LEMMA OthersFade ==
  ASSUME Inv, Deny \/ Revoke \/ Sweep \/ Tick \/ Restart
  PROVE  confirmed' = confirmed /\ guesses' = guesses /\ \A r \in Requests : Fades(r)
<1> USE DEF At, db, memory, history, Fades, Deciding, Unborn
<1>1. CASE Deny
  BY <1>1 DEF Deny, DenyLook, DenyRemove
<1>2. CASE Revoke
  BY <1>2 DEF Revoke, RevokeGrants, RevokePending, RevokeCodes, RevokeFails, RevokeGrant, RevokeAllByCli
<1>3. CASE Sweep \/ Tick
  BY <1>3 DEF Sweep, Tick
<1>4. CASE Restart
  BY <1>4 DEF Restart, Idle, Doing
<1>5. QED BY <1>1, <1>2, <1>3, <1>4

LEMMA InitPromises == Init => Promise!ConsentInit
<1> SUFFICES ASSUME Init PROVE Promise!ConsentInit
  OBVIOUS
<1>1. \A r \in Requests : Status(r) = "none"
  BY DEF Init, Status, Deciding, Idle, Doing
<1>2. QED BY <1>1 DEF Init, Promise!ConsentInit

LEMMA NextPromises ==
  ASSUME Inv, Inv', [Next]_vars
  PROVE  [Promise!ConsentNext]_(Promise!consentVars)
<1>1. ASSUME NEW w \in Workers, Begin(w) \/ CompleteCode(w) \/ Exchange(w) \/ StoreFails(w)
      PROVE  [Promise!ConsentNext]_(Promise!consentVars)
  BY <1>1, CreateAsks, CompareTries, ReadStutters, InsertConnects, HandlerFades, FadingEnds
<1>2. CASE Deny \/ Revoke \/ Sweep \/ Tick \/ Restart
  BY <1>2, OthersFade, FadingEnds
<1>3. CASE UNCHANGED vars
  BY <1>3 DEF vars, db, memory, history, Promise!consentVars, Status, Deciding, At
<1>4. QED BY <1>1, <1>2, <1>3 DEF Next

\* The machine of requests, codes, locks, processes and rows implements what
\* is promised: a request is approved only after its right code was typed in
\* the browser that asked, within MaxAttempts tries, and connects at most once.
THEOREM ApprovalImplementsConsent == Spec => ImplementsConsent
<1>1. QED BY InvHolds, InitPromises, NextPromises, PTL DEF Spec, ImplementsConsent, Promise!Spec

=============================================================================
