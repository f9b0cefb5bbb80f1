------------------------- MODULE StdioSessionsProofs -------------------------
(***************************************************************************)
(* Proofs about StdioSessions, for every number of requests, processes,    *)
(* sessions, keys and troubles. One inductive invariant, IInv.             *)
(***************************************************************************)
EXTENDS StdioSessions, FiniteSetTheorems, TLAPS

Step(r) == request[r].step
Kind(r) == request[r].kind
Id(r) == request[r].id

Opens == {"reserve", "evicting", "spawn", "insert"}
Talks == {"send", "write", "await"}

\* What a handler has at each of its steps.
RequestInv ==
    \A r \in Requests :
        /\ Step(r) = "new" => Kind(r) = "call"
        /\ Step(r) \in {"new", "queue", "reserve", "evicting", "spawn", "done"} =>
              Session(r) = Nobody
        /\ Step(r) \in {"new", "done"} => request[r].answer = Nobody
        /\ Step(r) \in {"insert", "greet"} => Session(r) = r
        /\ Step(r) \in Talks \union {"ending"} => Session(r) # Nobody
        /\ Step(r) = "queue" => Kind(r) = "call"
        /\ Step(r) \in Opens => Kind(r) \in {"initialize", "call"} \/ (Kind(r) = "oneshot" /\ Step(r) = "spawn")
        /\ Step(r) = "greet" => Kind(r) \in {"call", "oneshot"}
        /\ Step(r) \in Talks => Kind(r) \in {"initialize", "oneshot", "call"}
        /\ Step(r) \in Opens \union Talks \union {"queue", "greet"} => Key(r) \in Keys
        /\ Step(r) = "forget" => Kind(r) = "delete"

\* Which session it is about: its own, one its client was told of, or none.
IdInv ==
    \A r \in Requests : Step(r) \notin {"new", "done"} =>
        /\ Kind(r) = "initialize" => Id(r) = r
        /\ Kind(r) = "oneshot" => Id(r) = Nobody
        /\ Kind(r) \in {"call", "delete"} => Id(r) \in Known

\* The lock is held by the one call that resumes, until the process is greeted
\* or gone.
LockInv ==
    /\ resuming # Nobody => Kind(resuming) = "call" /\ Step(resuming) \in Opens \union {"greet", "ending"}
    /\ \A r \in Requests : Kind(r) = "call" /\ Step(r) \in Opens => resuming = r

\* A process that was not started is nowhere.
FreshInv ==
    \A p \in Requests :
        /\ Step(p) \in {"new", "queue", "reserve", "evicting", "spawn"} => proc[p].state = "none"
        /\ proc[p].state = "none" =>
              /\ proc[p].id = Nobody /\ asked[p] = {}
              /\ \A i \in Ids : sessions[i] # p
              /\ \A r \in Requests : Session(r) # p
              /\ \A c \in Closers : closing[c].proc # p

\* A process keeps an id that is its own or that clients know, and its reader
\* reads until it has ended or talked too much.
ProcInv ==
    \A p \in Requests :
        /\ proc[p].state = "none" <=> proc[p].reader = "none"
        /\ proc[p].reader = "ended" => proc[p].state = "dead"
        /\ proc[p].id \in {p, Nobody} \union Known

\* An entry is for a process of that id, and there is none while one is made.
EntryInv ==
    /\ \A i \in Ids : sessions[i] # Nobody => proc[sessions[i]].id = i
    /\ \A r \in Requests :
          /\ Step(r) \in Opens /\ Id(r) # Nobody => sessions[Id(r)] = Nobody
          /\ Step(r) = "insert" => proc[r].id = Id(r) /\ \A i \in Ids : sessions[i] # r
          /\ Kind(r) = "delete" /\ Step(r) \in {"forget", "ending"} /\ Session(r) # Nobody =>
                proc[Session(r)].id = Id(r)

\* A close is run by a handler that waits for it, by the reader of the process,
\* which starts it when it ends, or by the sweeper.
CloseInv ==
    /\ \A c \in Closers :
          /\ closing[c].step = "none" => closing[c] = NoClose
          /\ closing[c].step # "none" => closing[c].proc # Nobody
          /\ closing[c].removed => closing[c].step = "terminate"
    /\ \A r \in Requests :
          /\ closing[Handler(r)].step # "none" <=> Step(r) \in {"evicting", "ending"}
          /\ Step(r) = "ending" => closing[Handler(r)].proc = Session(r)
          /\ closing[Reader(r)].proc \in {r, Nobody}
          /\ proc[r].reader \in {"none", "reading"} => closing[Reader(r)].step = "none"

Removing == {c \in Closers : closing[c].removed}

\* Only so many entries, starts and closes are there at a time.
SlotsInv ==
    /\ IsFiniteSet(Mapped) /\ IsFiniteSet(Opening) /\ IsFiniteSet(Removing)
    /\ live = Cardinality(Mapped) + Cardinality(Opening) + Cardinality(Removing) + lost
    /\ lost <= troubles

\* What a process was asked and has not answered, its asker asked only there.
AskedInv ==
    \A p \in Requests : \A a \in asked[p] :
        /\ Step(a[2]) \in {"await", "ending", "done"}
        /\ Step(a[2]) = "await" => Session(a[2]) = p /\ Key(a[2]) = a[1]

\* Whoever waits and was not cut off is in the table under its key.
WaitInv ==
    /\ \A r \in Requests :
          Step(r) \in {"write", "await"} /\ request[r].answer = Nobody /\ r \notin cut =>
              pending[Session(r)][Key(r)] = r
    /\ \A p \in Requests, k \in Keys \union {Hello} :
          pending[p][k] # Nobody => Step(pending[p][k]) # "new"

\* An answer that went to another request is one nobody waits for any more.
AnswerInv ==
    \A r \in Requests : request[r].answer # Nobody =>
        LET s == request[r].answer IN
        /\ Step(s) \in {"await", "ending", "done"}
        /\ s # r => ~Waits(s)

\* When the close of its reader is past fail_pending, nobody waits on a process.
DeadInv ==
    \A p \in Requests : proc[p].reader = "ended" /\ closing[Reader(p)].step # "remove" =>
        \A r \in Requests : Session(r) = p => ~Waits(r)

\* A process that runs has its entry, will get it, or lost it to another's close.
RunningInv ==
    \A p \in Requests \ stray : proc[p].state = "running" /\ proc[p].id # Nobody =>
        sessions[proc[p].id] = p \/ Step(p) = "insert"

Deletes(r, i) == Kind(r) = "delete" /\ Step(r) = "ending" /\ Id(r) = i
Forgotten(i) == i \in ended \/ \E r \in Requests : Deletes(r, i)

\* A DELETE that forgot the row leaves nothing to resume the session from.
ForgetInv ==
    /\ \A i \in Ids : Forgotten(i) => i \in Known \ saved
    /\ \A i \in Ids \ raced : Forgotten(i) => ~Resumes(i)
    /\ \A i \in ended \ raced : sessions[i] = Nobody
    /\ \A r \in Requests, i \in Ids \ raced : Deletes(r, i) =>
          /\ sessions[i] \in {Nobody, Session(r)}
          /\ closing[Handler(r)].step = "terminate" => sessions[i] = Nobody

IInv ==
    /\ TypeOK
    /\ RequestInv /\ IdInv /\ LockInv
    /\ FreshInv /\ ProcInv /\ EntryInv /\ CloseInv
    /\ SlotsInv
    /\ AskedInv /\ WaitInv /\ AnswerInv /\ DeadInv
    /\ RunningInv /\ ForgetInv

-----------------------------------------------------------------------------
(* What the helpers of the actions do.                                     *)

Others(r) ==
    /\ request' \in [Requests -> RequestState]
    /\ \A s \in Requests : s # r => request'[s] = request[s]

Moved(r, step, p) ==
    /\ Others(r)
    /\ request'[r].step = step /\ request'[r].proc = p
    /\ request'[r].kind = request[r].kind /\ request'[r].id = request[r].id
    /\ request'[r].key = request[r].key /\ request'[r].answer = request[r].answer

Blanked(r, kind) ==
    /\ Others(r)
    /\ request'[r].step = "done" /\ request'[r].proc = Nobody
    /\ request'[r].kind = kind /\ request'[r].id = Nobody
    /\ request'[r].answer = Nobody

Closes(c, p) ==
    /\ closing' \in [Closers -> ClosingState]
    /\ closing'[c].step = "remove" /\ closing'[c].proc = p /\ ~closing'[c].removed
    /\ \A d \in Closers : d # c => closing'[d] = closing[d]

Sets(p, k, r) ==
    /\ pending' \in [Requests -> [Keys \union {Hello} -> Requests \union {Nobody}]]
    /\ pending'[p][k] = r
    /\ \A q \in Requests, j \in Keys \union {Hello} :
          q # p \/ j # k => pending'[q][j] = pending[q][j]

\* Where the values of the variables are, and which sets are apart.
Shape ==
    /\ Nobody \notin Requests /\ Nobody \notin Ids /\ Hello \notin Keys
    /\ Requests \subseteq Ids
    /\ resuming \in Requests \union {Nobody}
    /\ \A p \in Requests : \A a \in asked[p] : a[1] \in Keys /\ a[2] \in Requests
    /\ \A i \in Ids : sessions[i] \in Requests \union {Nobody}
    /\ \A r \in Requests : /\ request[r].proc \in Requests \union {Nobody}
                           /\ request[r].answer \in Requests \union {Nobody}
                           /\ request[r].id \in Ids \union {Nobody}
                           /\ request[r].key \in Keys \union {Hello}
                           /\ proc[r].id \in Ids \union {Nobody}
    /\ \A c \in Closers : closing[c].proc \in Requests \union {Nobody}
    /\ \A p \in Requests, k \in Keys \union {Hello} : pending[p][k] \in Requests \union {Nobody}
    /\ Known \subseteq Ids /\ \A r \in Requests : r \in Known => request[r].step = "done"

LEMMA Shapes ==
  ASSUME TypeOK
  PROVE  Shape
<1>1. /\ Nobody \notin Requests /\ Nobody \notin Ids /\ Hello \notin Keys
      /\ Requests \subseteq Ids
  BY StdioAssumption DEF Ids
<1>2. \A p \in Requests : \A a \in asked[p] : a[1] \in Keys /\ a[2] \in Requests
  <2> SUFFICES ASSUME NEW p \in Requests, NEW a \in asked[p]
               PROVE  a[1] \in Keys /\ a[2] \in Requests
    OBVIOUS
  <2>1. a \in Keys \X Requests
    BY DEF TypeOK
  <2>2. QED BY <2>1
<1>3. \A r \in Requests : /\ request[r].proc \in Requests \union {Nobody}
                          /\ request[r].answer \in Requests \union {Nobody}
                          /\ request[r].id \in Ids \union {Nobody}
                          /\ request[r].key \in Keys \union {Hello}
                          /\ proc[r].id \in Ids \union {Nobody}
  BY DEF TypeOK, RequestState, ProcState
<1>4. \A c \in Closers : closing[c].proc \in Requests \union {Nobody}
  BY DEF TypeOK, ClosingState
<1>5. \A p \in Requests, k \in Keys \union {Hello} : pending[p][k] \in Requests \union {Nobody}
  BY DEF TypeOK
<1>6. /\ resuming \in Requests \union {Nobody}
      /\ \A i \in Ids : sessions[i] \in Requests \union {Nobody}
  BY DEF TypeOK
<1>7. Known \subseteq Ids /\ \A r \in Requests : r \in Known => request[r].step = "done"
  BY StdioAssumption DEF Known, Ids
<1>8. QED BY <1>1, <1>2, <1>3, <1>4, <1>5, <1>6, <1>7 DEF Shape

\* The closers are handlers, readers and the sweeper, all of them different.
LEMMA CloserNames ==
  /\ Sweeper \in Closers
  /\ \A r \in Requests : Handler(r) \in Closers /\ Reader(r) \in Closers
  /\ \A r \in Requests : Handler(r)[1] = "handler" /\ Handler(r)[2] = r
  /\ \A r \in Requests : Reader(r)[1] = "reader" /\ Reader(r)[2] = r
  /\ Sweeper[1] = "sweeper"
  /\ \A c \in Closers : c[1] = "handler" => c[2] \in Requests /\ c = Handler(c[2])
  BY DEF Closers, Sweeper, Handler, Reader

LEMMA ClosersDiffer ==
  \A q \in Requests :
      /\ Handler(q) \in Closers /\ Reader(q) \in Closers
      /\ Handler(q) # Sweeper /\ Reader(q) # Sweeper
      /\ \A s \in Requests : /\ Handler(q) # Reader(s)
                             /\ s # q => Handler(q) # Handler(s) /\ Reader(q) # Reader(s)
  BY CloserNames

LEMMA MovesTo ==
  ASSUME TypeOK, NEW r \in Requests, NEW step \in RequestSteps, NEW p \in Requests \union {Nobody},
         request' = [request EXCEPT ![r].proc = p, ![r].step = step]
  PROVE  Moved(r, step, p)
<1>1. request[r] \in RequestState
  BY DEF TypeOK
<1>2. request'[r] = [request[r] EXCEPT !.proc = p, !.step = step]
  BY DEF TypeOK
<1>3. /\ request'[r].step = step /\ request'[r].proc = p
      /\ request'[r].kind = request[r].kind /\ request'[r].id = request[r].id
      /\ request'[r].key = request[r].key /\ request'[r].answer = request[r].answer
      /\ request'[r] = [step |-> step, kind |-> request[r].kind, id |-> request[r].id,
                        key |-> request[r].key, proc |-> p, answer |-> request[r].answer]
  <2>1. PICK one \in RequestSteps, two \in {"initialize", "oneshot", "call", "delete"},
             three \in Ids \union {Nobody}, four \in Keys \union {Hello},
             five \in Requests \union {Nobody}, six \in Requests \union {Nobody} :
           request[r] = [step |-> one, kind |-> two, id |-> three, key |-> four,
                         proc |-> five, answer |-> six]
    BY <1>1 DEF RequestState
  <2>2. QED BY <1>2, <2>1
<1>4. request'[r] \in RequestState
  BY <1>1, <1>3 DEF RequestState
<1>5. Others(r)
  BY <1>4 DEF TypeOK, Others
<1>6. QED BY <1>3, <1>5 DEF Moved

LEMMA GoMoves ==
  ASSUME TypeOK, NEW r \in Requests, NEW step \in RequestSteps, Go(r, step)
  PROVE  Moved(r, step, Session(r))
<1>1. request[r] \in RequestState
  BY DEF TypeOK
<1>2. request'[r] = [request[r] EXCEPT !.step = step]
  BY DEF TypeOK, Go
<1>3. request'[r] \in RequestState
  BY <1>1, <1>2 DEF RequestState
<1>4. Others(r)
  BY <1>3 DEF TypeOK, Others, Go
<1>5. QED BY <1>1, <1>2, <1>4 DEF Moved, RequestState, Session

LEMMA DoneBlanks ==
  ASSUME TypeOK, NEW r \in Requests, NEW kind \in {"initialize", "call"}, Done(r, kind)
  PROVE  Blanked(r, kind)
<1>1. Blank("done", kind) \in RequestState
  BY DEF Blank, RequestState, RequestSteps
<1>2. request'[r] = Blank("done", kind)
  BY DEF TypeOK, Done
<1>3. Others(r)
  BY <1>1 DEF TypeOK, Others, Done
<1>4. QED BY <1>2, <1>3 DEF Blanked, Blank

LEMMA FinishBlanks ==
  ASSUME TypeOK, NEW r \in Requests, Finish(r)
  PROVE  /\ \E kind \in {"initialize", "call"} :
               Blanked(r, kind) /\ (kind = "initialize" => Kind(r) = "initialize")
         /\ Unlock(r)
  BY DoneBlanks DEF Finish, Kind

LEMMA ClosingCloses ==
  ASSUME TypeOK, NEW c \in Closers, NEW p \in Requests,
         closing' = [closing EXCEPT ![c] = ClosingOf(p)]
  PROVE  Closes(c, p)
<1>1. ClosingOf(p) \in ClosingState
  BY DEF ClosingOf, ClosingState
<1>2. closing'[c] = ClosingOf(p)
  BY DEF TypeOK
<1>3. QED BY <1>1, <1>2 DEF TypeOK, Closes, ClosingOf

LEMMA CloseMoves ==
  ASSUME TypeOK, NEW r \in Requests, NEW step \in RequestSteps, NEW p \in Requests, Close(r, p, step)
  PROVE  Moved(r, step, Session(r)) /\ Closes(Handler(r), p)
  BY GoMoves, ClosingCloses, CloserNames DEF Close

LEMMA PendingSets ==
  ASSUME TypeOK, NEW p \in Requests, NEW k \in Keys \union {Hello},
         NEW r \in Requests \union {Nobody}, SetPending(p, k, r)
  PROVE  Sets(p, k, r)
  BY DEF TypeOK, SetPending, Sets

Entered(r, kind, id, key, step, p) ==
    /\ Others(r)
    /\ request'[r].step = step /\ request'[r].kind = kind /\ request'[r].id = id
    /\ request'[r].key = key /\ request'[r].proc = p /\ request'[r].answer = Nobody

LEMMA EnterEnters ==
  ASSUME TypeOK, NEW r \in Requests, NEW kind \in {"initialize", "oneshot", "call", "delete"},
         NEW id \in Ids \union {Nobody}, NEW key \in Keys \union {Hello}, NEW step \in RequestSteps,
         NEW p \in Requests \union {Nobody}, Enter(r, kind, id, key, step, p)
  PROVE  Step(r) = "new" /\ Entered(r, kind, id, key, step, p)
<1>1. request'[r] = [step |-> step, kind |-> kind, id |-> id, key |-> key, proc |-> p, answer |-> Nobody]
  BY DEF TypeOK, Enter
<1>2. request'[r] \in RequestState
  BY <1>1 DEF RequestState
<1>3. Others(r)
  BY <1>2 DEF TypeOK, Others, Enter
<1>4. QED BY <1>1, <1>3 DEF Entered, Enter, Step

\* A request that leaves the table: what it finds under its key goes.
Quits(r) ==
    /\ Sets(Session(r), Key(r), Nobody)
    /\ cut' \in SUBSET Requests
    /\ \A s \in Requests : s \in cut' <=> s # r /\ (s \in cut \/ s = pending[Session(r)][Key(r)])

LEMMA WithdrawQuits ==
  ASSUME TypeOK, NEW r \in Requests, Session(r) \in Requests, Withdraw(r)
  PROVE  Quits(r)
<1>1. Key(r) \in Keys \union {Hello}
  BY DEF TypeOK, RequestState, Key
<1>2. Sets(Session(r), Key(r), Nobody)
  BY <1>1, PendingSets DEF Withdraw
<1>3. pending[Session(r)][Key(r)] \in Requests \union {Nobody}
  BY <1>1 DEF TypeOK
<1>4. Nobody \notin Requests
  BY StdioAssumption
<1>5. QED BY <1>2, <1>3, <1>4 DEF Withdraw, TypeOK, Quits

\* Or the table is as it was, for a request that is in no place of it.
Emptied(r) ==
    /\ pending' \in [Requests -> [Keys \union {Hello} -> Requests \union {Nobody}]]
    /\ cut' \in SUBSET Requests
    /\ \A s \in Requests : s # r /\ s \in cut => s \in cut'
    /\ \A q \in Requests, k \in Keys \union {Hello} :
          /\ pending'[q][k] \in {pending[q][k], Nobody}
          /\ pending[q][k] \in Requests \ ({r} \union cut') => pending'[q][k] = pending[q][k]

LEMMA QuitsEmpties ==
  ASSUME TypeOK, NEW r \in Requests, Session(r) \in Requests, Quits(r)
  PROVE  Emptied(r)
<1>1. Key(r) \in Keys \union {Hello}
  BY DEF TypeOK, RequestState, Key
<1>2. QED BY <1>1 DEF Emptied, Quits, Sets, TypeOK

LEMMA KeepsEmpties ==
  ASSUME TypeOK, NEW r \in Requests, UNCHANGED <<pending, cut>>
  PROVE  Emptied(r)
  BY DEF Emptied, TypeOK

\* The reader hands s to whoever waits under k, if that one is still there.
Answers(p, k, s) ==
    /\ request' \in [Requests -> RequestState]
    /\ \A t \in Requests :
          /\ request'[t].step = request[t].step /\ request'[t].kind = request[t].kind
          /\ request'[t].id = request[t].id /\ request'[t].key = request[t].key
          /\ request'[t].proc = request[t].proc
          /\ \/ request'[t].answer = request[t].answer
             \/ t = pending[p][k] /\ Step(t) # "done" /\ request'[t].answer = s
          /\ t = pending[p][k] /\ Step(t) # "done" => request'[t].answer = s

LEMMA DeliverAnswers ==
  ASSUME TypeOK, NEW p \in Requests, NEW k \in Keys, NEW s \in Requests, Deliver(p, k, s)
  PROVE  Answers(p, k, s)
<1> DEFINE r == pending[p][k]
<1>1. r \in Requests \union {Nobody} /\ Nobody \notin Requests
  BY StdioAssumption DEF TypeOK
<1>2. CASE r # Nobody /\ ~Over(r)
  <2>1. r \in Requests /\ request[r] \in RequestState
    BY <1>1, <1>2 DEF TypeOK
  <2>2. request' = [request EXCEPT ![r].answer = s]
    BY <1>2 DEF Deliver
  <2>3. request'[r] = [request[r] EXCEPT !.answer = s]
    BY <2>1, <2>2 DEF TypeOK
  <2>4. request'[r] \in RequestState /\ request'[r].answer = s
    BY <2>1, <2>3 DEF RequestState
  <2>5. /\ request'[r].step = request[r].step /\ request'[r].kind = request[r].kind
        /\ request'[r].id = request[r].id /\ request'[r].key = request[r].key
        /\ request'[r].proc = request[r].proc
    BY <2>1, <2>3 DEF RequestState
  <2>6. /\ request' \in [Requests -> RequestState]
        /\ \A t \in Requests : t # r => request'[t] = request[t]
    BY <2>1, <2>2, <2>4 DEF TypeOK
  <2>7. Step(r) # "done"
    BY <1>2 DEF Over, Step
  <2>8. QED BY <2>1, <2>4, <2>5, <2>6, <2>7 DEF Answers
<1>3. CASE r = Nobody \/ Over(r)
  <2>1. request' = request
    BY <1>3 DEF Deliver
  <2>2. \A t \in Requests : t = r => Step(t) = "done"
    BY <1>1, <1>3 DEF Over, Step
  <2>3. QED BY <2>1, <2>2 DEF Answers, TypeOK
<1>4. QED BY <1>2, <1>3

\* A close is done: the process has ended and the slot is free.
Gone(c) ==
    LET p == closing[c].proc IN
    /\ closing[c].step = "terminate"
    /\ proc' \in [Requests -> ProcState]
    /\ proc'[p].state = "dead" /\ proc'[p].id = proc[p].id /\ proc'[p].reader = proc[p].reader
    /\ \A q \in Requests : q # p => proc'[q] = proc[q]
    /\ closing' \in [Closers -> ClosingState]
    /\ closing'[c] = NoClose
    /\ \A d \in Closers : d # c => closing'[d] = closing[d]
    /\ live' = IF closing[c].removed THEN live - 1 ELSE live

LEMMA TerminateGoes ==
  ASSUME IInv, NEW c \in Closers, Terminate(c)
  PROVE  /\ Gone(c) /\ UNCHANGED <<sessions, pending, asked, troubles, cut, lost, stray, raced>>
         /\ saved' \subseteq saved /\ (c # Sweeper => saved' = saved)
<1> DEFINE p == closing[c].proc
<1>1. TypeOK /\ CloseInv /\ Shape
  BY Shapes DEF IInv
<1>2. p \in Requests /\ proc[p] \in ProcState
  BY <1>1 DEF Shape, CloseInv, Terminate, TypeOK
<1>3. proc' = [proc EXCEPT ![p].state = "dead"] /\ closing' = [closing EXCEPT ![c] = NoClose]
  BY DEF Terminate
<1>4. [proc[p] EXCEPT !.state = "dead"] \in ProcState /\ NoClose \in ClosingState
  BY <1>2 DEF ProcState, NoClose, ClosingState
<1>5. proc'[p] = [proc[p] EXCEPT !.state = "dead"]
  BY <1>1, <1>2, <1>3 DEF TypeOK
<1>6. proc'[p].state = "dead" /\ proc'[p].id = proc[p].id /\ proc'[p].reader = proc[p].reader
  BY <1>2, <1>5 DEF ProcState
<1>7. /\ proc' \in [Requests -> ProcState] /\ closing' \in [Closers -> ClosingState]
      /\ \A q \in Requests : q # p => proc'[q] = proc[q]
      /\ closing'[c] = NoClose /\ \A d \in Closers : d # c => closing'[d] = closing[d]
  BY <1>1, <1>2, <1>3, <1>4 DEF TypeOK
<1>8. saved' \subseteq saved /\ (c # Sweeper => saved' = saved)
  BY DEF Terminate, Remember, Swept
<1>9. QED BY <1>6, <1>7, <1>8 DEF Terminate, TookEntry, Gone

\* Its slot is given back once.
LEMMA GoneSlots ==
  ASSUME IInv, NEW c \in Closers, Gone(c), UNCHANGED <<sessions, troubles, lost>>, Opening' = Opening
  PROVE  SlotsInv' /\ live' \in 0..MaxSessions
<1>1. TypeOK /\ SlotsInv
  BY DEF IInv
<1>2. Mapped' = Mapped
  BY DEF Mapped
<1>3. Removing' = Removing \ {c}
  BY DEF Removing, Gone, NoClose
<1>4. /\ IsFiniteSet(Removing')
      /\ Cardinality(Removing') = IF c \in Removing THEN Cardinality(Removing) - 1 ELSE Cardinality(Removing)
  BY <1>1, <1>3, FS_RemoveElement DEF SlotsInv
<1>5. /\ Cardinality(Mapped) \in Nat /\ Cardinality(Opening) \in Nat
      /\ Cardinality(Removing) \in Nat /\ Cardinality(Removing') \in Nat
  BY <1>1, <1>4, FS_CardinalityType DEF SlotsInv
<1>6. c \in Removing <=> closing[c].removed
  BY DEF Removing
<1>7. live' = Cardinality(Mapped') + Cardinality(Opening') + Cardinality(Removing') + lost'
  BY <1>1, <1>2, <1>4, <1>5, <1>6 DEF SlotsInv, Gone, TypeOK
<1>8. live' \in 0..MaxSessions
  BY <1>1, <1>2, <1>5, <1>7, StdioAssumption DEF Gone, TypeOK
<1>9. QED BY <1>1, <1>2, <1>4, <1>7, <1>8 DEF SlotsInv

\* The slots are as they were if the entries, starts and closes are.
LEMMA SlotsKeep ==
  ASSUME TypeOK, TypeOK', SlotsInv, UNCHANGED <<sessions, live, lost>>,
         troubles' = troubles \/ troubles <= troubles',
         \A d \in Closers : closing'[d].removed <=> closing[d].removed,
         \A s \in Requests : s \in Opening' <=> s \in Opening
  PROVE  SlotsInv'
<1>1. Mapped' = Mapped
  BY DEF Mapped
<1>2. Opening' = Opening
  BY DEF Opening
<1>3. Removing' = Removing
  BY DEF Removing
<1>4. lost <= troubles'
  BY DEF SlotsInv, TypeOK
<1>5. QED BY <1>1, <1>2, <1>3, <1>4 DEF SlotsInv

\* And what is forgotten stays so if no new DELETE or resume comes in between.
LEMMA ForgetKeep ==
  ASSUME ForgetInv, UNCHANGED <<sessions, ended, raced>>, saved' \subseteq saved,
         \A j \in Ids : j \in Known => j \in Known',
         \A s \in Requests, j \in Ids : Deletes(s, j)' =>
            /\ Deletes(s, j) /\ request'[s] = request[s]
            /\ closing'[Handler(s)] = closing[Handler(s)],
         \A j \in Ids : Resumes(j)' => Resumes(j)
  PROVE  ForgetInv'
<1>1. \A i \in Ids : Forgotten(i)' => Forgotten(i)
  BY DEF Forgotten
<1>2. QED BY <1>1 DEF ForgetInv, Session

\* The place of the greeting is written, those of the messages are not.
Greets(r) ==
    /\ pending' \in [Requests -> [Keys \union {Hello} -> Requests \union {Nobody}]]
    /\ \A q \in Requests, k \in Keys : pending'[q][k] = pending[q][k]
    /\ \A q \in Requests : pending'[q][Hello] \in {pending[q][Hello], r, Nobody}

LEMMA HelloGreets ==
  ASSUME Shape, NEW r \in Requests, NEW s \in {r, Nobody}, Sets(r, Hello, s)
  PROVE  Greets(r)
<1>1. \A k \in Keys : k # Hello
  BY DEF Shape
<1>2. \A q \in Requests, k \in Keys : pending'[q][k] = pending[q][k]
  BY <1>1 DEF Sets
<1>3. \A q \in Requests : pending'[q][Hello] \in {pending[q][Hello], r, Nobody}
  BY DEF Sets
<1>4. pending' \in [Requests -> [Keys \union {Hello} -> Requests \union {Nobody}]]
  BY DEF Sets
<1>5. QED BY <1>2, <1>3, <1>4 DEF Greets

-----------------------------------------------------------------------------
(* One lemma per kind of step: it keeps IInv.                              *)

\* A client asks for a session.
LEMMA InitializeStep ==
  ASSUME IInv, NEW r \in Requests, NEW k \in Keys, Initialize(r, k)
  PROVE  IInv'
<1> USE StdioAssumption DEF Step, Kind, Id, Session, Opens, Talks
<1>0. /\ TypeOK /\ RequestInv /\ IdInv /\ LockInv /\ FreshInv
      /\ ProcInv /\ EntryInv /\ CloseInv /\ SlotsInv /\ AskedInv
      /\ WaitInv /\ AnswerInv /\ DeadInv /\ RunningInv /\ ForgetInv
  BY DEF IInv
<1>s. Shape
  BY <1>0, Shapes
<1>a. /\ Entered(r, "initialize", r, k, "reserve", Nobody)
      /\ Step(r) = "new"
      /\ UNCHANGED <<sessions, live, saved, resuming, proc, pending, asked, closing,
                     troubles, cut, lost, stray, ended, raced>>
  <2>1. UNCHANGED <<sessions, live, saved, resuming, proc, pending, asked, closing,
                    troubles, cut, lost, stray, ended, raced>>
    BY DEF Initialize, Enter, history
  <2>2. QED BY <1>0, <1>s, <2>1, EnterEnters DEF Initialize, RequestSteps, Shape
<1>k. \A j \in Ids : j \in Known => j \in Known'
  BY <1>0, <1>s, <1>a DEF Shape, Entered, Others, Known
<1>1. TypeOK'
  BY <1>0, <1>s, <1>a DEF Shape, Entered, Others, TypeOK
<1>2. RequestInv'
  BY <1>0, <1>s, <1>a DEF Shape, Entered, Others, RequestInv, Key
<1>3. IdInv'
  BY <1>0, <1>s, <1>a, <1>k DEF Shape, Entered, Others, IdInv, RequestInv
<1>4. LockInv'
  BY <1>0, <1>s, <1>a DEF Shape, Entered, Others, LockInv, RequestInv
<1>5. FreshInv'
  BY <1>0, <1>s, <1>a DEF Shape, Entered, Others, FreshInv, RequestInv
<1>6. ProcInv'
  BY <1>0, <1>s, <1>a, <1>k DEF Shape, Entered, Others, ProcInv
<1>7. EntryInv'
  <2>1. \A j \in Ids : sessions'[j] # Nobody => proc'[sessions'[j]].id = j
    BY <1>0, <1>s, <1>a, <1>k DEF Shape, Entered, Others, EntryInv, FreshInv, ProcInv
  <2>2. ASSUME NEW q \in Requests, Step(q)' \in Opens, Id(q)' # Nobody
        PROVE  sessions'[Id(q)'] = Nobody
    BY <1>0, <1>s, <1>a, <2>2, <1>k DEF Shape, Entered, Others, EntryInv, RequestInv, IdInv,
        FreshInv, ProcInv
  <2>3. ASSUME NEW q \in Requests, Step(q)' = "insert"
        PROVE  proc'[q].id = Id(q)' /\ \A j \in Ids : sessions'[j] # q
    BY <1>0, <1>s, <1>a, <2>3, <1>k DEF Shape, Entered, Others, EntryInv, FreshInv, RequestInv,
        ProcInv
  <2>4. ASSUME NEW q \in Requests, Kind(q)' = "delete", Step(q)' \in {"forget", "ending"}, Session(q)' # Nobody
        PROVE  proc'[Session(q)'].id = Id(q)'
    BY <1>0, <1>s, <1>a, <2>4, <1>k DEF Shape, Entered, Others, EntryInv, RequestInv, FreshInv,
        ProcInv
  <2>5. QED BY <2>1, <2>2, <2>3, <2>4 DEF EntryInv
<1>8. CloseInv'
  BY <1>0, <1>s, <1>a DEF Shape, Entered, Others, CloseInv, RequestInv
<1>9. SlotsInv'
  <2>1. \A d \in Closers : closing'[d].removed <=> closing[d].removed
    BY <1>0, <1>s, <1>a DEF Shape, Removing
  <2>2. \A s \in Requests : s \in Opening' <=> s \in Opening
    BY <1>0, <1>s, <1>a DEF Shape, Entered, Others, Opening, Slot, RequestInv
  <2>3. QED BY <1>0, <1>1, <1>a, <2>1, <2>2, SlotsKeep
<1>10. AskedInv'
  BY <1>0, <1>s, <1>a DEF Shape, Entered, Others, AskedInv, RequestInv, Key
<1>11. WaitInv'
  <2>1. ASSUME NEW s \in Requests, request'[s].step \in {"write", "await"},
               request'[s].answer = Nobody, s \notin cut'
        PROVE  pending'[request'[s].proc][request'[s].key] = s
    BY <1>0, <1>s, <1>a, <2>1 DEF Shape, Entered, Others, WaitInv, RequestInv, Key
  <2>2. ASSUME NEW q \in Requests, NEW j \in Keys \union {Hello}, pending'[q][j] # Nobody
        PROVE  request'[pending'[q][j]].step # "new"
    BY <1>0, <1>s, <1>a, <2>2 DEF Shape, Entered, Others, WaitInv, RequestInv
  <2>3. QED BY <2>1, <2>2 DEF WaitInv, Key
<1>12. AnswerInv'
  BY <1>0, <1>s, <1>a DEF Shape, Entered, Others, AnswerInv, Waits, RequestInv
<1>13. DeadInv'
  <2>1. ASSUME NEW q \in Requests, proc'[q].reader = "ended", closing'[Reader(q)].step # "remove",
               NEW s \in Requests, Session(s)' = q
        PROVE  ~Waits(s)'
    BY <1>0, <1>s, <1>a, <2>1 DEF Shape, Entered, Others, DeadInv, Waits, RequestInv
  <2>2. QED BY <2>1 DEF DeadInv
<1>14. RunningInv'
  <2>1. ASSUME NEW q \in Requests, q \notin stray', proc'[q].state = "running", proc'[q].id # Nobody
        PROVE  sessions'[proc'[q].id] = q \/ Step(q)' = "insert"
    BY <1>0, <1>s, <1>a, <2>1 DEF Shape, Entered, Others, RunningInv, RequestInv
  <2>2. QED BY <2>1 DEF RunningInv
<1>15. ForgetInv'
  <2>1. \A s \in Requests, j \in Ids : Deletes(s, j)' =>
            /\ Deletes(s, j) /\ request'[s] = request[s]
            /\ closing'[Handler(s)] = closing[Handler(s)]
    BY <1>0, <1>s, <1>a DEF Shape, Entered, Others, Deletes, RequestInv
  <2>2. \A j \in Ids : Resumes(j)' => Resumes(j)
    BY <1>0, <1>s, <1>a DEF Shape, Entered, Others, Resumes, LockInv, RequestInv
  <2>3. QED BY <1>0, <1>k, <1>a, <2>1, <2>2, ForgetKeep
<1>16. QED BY <1>1, <1>2, <1>3, <1>4, <1>5, <1>6, <1>7, <1>8, <1>9, <1>10, <1>11, <1>12, <1>13,
    <1>14, <1>15 DEF IInv

\* Or for an answer without one.
LEMMA OneShotStep ==
  ASSUME IInv, NEW r \in Requests, NEW k \in Keys, OneShot(r, k)
  PROVE  IInv'
<1> USE StdioAssumption DEF Step, Kind, Id, Session, Opens, Talks
<1>0. /\ TypeOK /\ RequestInv /\ IdInv /\ LockInv /\ FreshInv
      /\ ProcInv /\ EntryInv /\ CloseInv /\ SlotsInv /\ AskedInv
      /\ WaitInv /\ AnswerInv /\ DeadInv /\ RunningInv /\ ForgetInv
  BY DEF IInv
<1>s. Shape
  BY <1>0, Shapes
<1>a. /\ Entered(r, "oneshot", Nobody, k, "spawn", Nobody)
      /\ Step(r) = "new"
      /\ UNCHANGED <<sessions, live, saved, resuming, proc, pending, asked, closing,
                     troubles, cut, lost, stray, ended, raced>>
  <2>1. UNCHANGED <<sessions, live, saved, resuming, proc, pending, asked, closing,
                    troubles, cut, lost, stray, ended, raced>>
    BY DEF OneShot, Enter, history
  <2>2. QED BY <1>0, <1>s, <2>1, EnterEnters DEF OneShot, RequestSteps, Shape
<1>k. \A j \in Ids : j \in Known => j \in Known'
  BY <1>0, <1>s, <1>a DEF Shape, Entered, Others, Known
<1>1. TypeOK'
  BY <1>0, <1>s, <1>a DEF Shape, Entered, Others, TypeOK
<1>2. RequestInv'
  BY <1>0, <1>s, <1>a DEF Shape, Entered, Others, RequestInv, Key
<1>3. IdInv'
  BY <1>0, <1>s, <1>a, <1>k DEF Shape, Entered, Others, IdInv, RequestInv
<1>4. LockInv'
  BY <1>0, <1>s, <1>a DEF Shape, Entered, Others, LockInv, RequestInv
<1>5. FreshInv'
  BY <1>0, <1>s, <1>a DEF Shape, Entered, Others, FreshInv, RequestInv
<1>6. ProcInv'
  BY <1>0, <1>s, <1>a, <1>k DEF Shape, Entered, Others, ProcInv
<1>7. EntryInv'
  <2>1. \A j \in Ids : sessions'[j] # Nobody => proc'[sessions'[j]].id = j
    BY <1>0, <1>s, <1>a, <1>k DEF Shape, Entered, Others, EntryInv, FreshInv, ProcInv
  <2>2. ASSUME NEW q \in Requests, Step(q)' \in Opens, Id(q)' # Nobody
        PROVE  sessions'[Id(q)'] = Nobody
    BY <1>0, <1>s, <1>a, <2>2, <1>k DEF Shape, Entered, Others, EntryInv, RequestInv, IdInv,
        FreshInv, ProcInv
  <2>3. ASSUME NEW q \in Requests, Step(q)' = "insert"
        PROVE  proc'[q].id = Id(q)' /\ \A j \in Ids : sessions'[j] # q
    BY <1>0, <1>s, <1>a, <2>3, <1>k DEF Shape, Entered, Others, EntryInv, FreshInv, RequestInv,
        ProcInv
  <2>4. ASSUME NEW q \in Requests, Kind(q)' = "delete", Step(q)' \in {"forget", "ending"}, Session(q)' # Nobody
        PROVE  proc'[Session(q)'].id = Id(q)'
    BY <1>0, <1>s, <1>a, <2>4, <1>k DEF Shape, Entered, Others, EntryInv, RequestInv, FreshInv,
        ProcInv
  <2>5. QED BY <2>1, <2>2, <2>3, <2>4 DEF EntryInv
<1>8. CloseInv'
  BY <1>0, <1>s, <1>a DEF Shape, Entered, Others, CloseInv, RequestInv
<1>9. SlotsInv'
  <2>1. \A d \in Closers : closing'[d].removed <=> closing[d].removed
    BY <1>0, <1>s, <1>a DEF Shape, Removing
  <2>2. \A s \in Requests : s \in Opening' <=> s \in Opening
    BY <1>0, <1>s, <1>a DEF Shape, Entered, Others, Opening, Slot, RequestInv
  <2>3. QED BY <1>0, <1>1, <1>a, <2>1, <2>2, SlotsKeep
<1>10. AskedInv'
  BY <1>0, <1>s, <1>a DEF Shape, Entered, Others, AskedInv, RequestInv, Key
<1>11. WaitInv'
  <2>1. ASSUME NEW s \in Requests, request'[s].step \in {"write", "await"},
               request'[s].answer = Nobody, s \notin cut'
        PROVE  pending'[request'[s].proc][request'[s].key] = s
    BY <1>0, <1>s, <1>a, <2>1 DEF Shape, Entered, Others, WaitInv, RequestInv, Key
  <2>2. ASSUME NEW q \in Requests, NEW j \in Keys \union {Hello}, pending'[q][j] # Nobody
        PROVE  request'[pending'[q][j]].step # "new"
    BY <1>0, <1>s, <1>a, <2>2 DEF Shape, Entered, Others, WaitInv, RequestInv
  <2>3. QED BY <2>1, <2>2 DEF WaitInv, Key
<1>12. AnswerInv'
  BY <1>0, <1>s, <1>a DEF Shape, Entered, Others, AnswerInv, Waits, RequestInv
<1>13. DeadInv'
  <2>1. ASSUME NEW q \in Requests, proc'[q].reader = "ended", closing'[Reader(q)].step # "remove",
               NEW s \in Requests, Session(s)' = q
        PROVE  ~Waits(s)'
    BY <1>0, <1>s, <1>a, <2>1 DEF Shape, Entered, Others, DeadInv, Waits, RequestInv
  <2>2. QED BY <2>1 DEF DeadInv
<1>14. RunningInv'
  <2>1. ASSUME NEW q \in Requests, q \notin stray', proc'[q].state = "running", proc'[q].id # Nobody
        PROVE  sessions'[proc'[q].id] = q \/ Step(q)' = "insert"
    BY <1>0, <1>s, <1>a, <2>1 DEF Shape, Entered, Others, RunningInv, RequestInv
  <2>2. QED BY <2>1 DEF RunningInv
<1>15. ForgetInv'
  <2>1. \A s \in Requests, j \in Ids : Deletes(s, j)' =>
            /\ Deletes(s, j) /\ request'[s] = request[s]
            /\ closing'[Handler(s)] = closing[Handler(s)]
    BY <1>0, <1>s, <1>a DEF Shape, Entered, Others, Deletes, RequestInv
  <2>2. \A j \in Ids : Resumes(j)' => Resumes(j)
    BY <1>0, <1>s, <1>a DEF Shape, Entered, Others, Resumes, LockInv, RequestInv
  <2>3. QED BY <1>0, <1>k, <1>a, <2>1, <2>2, ForgetKeep
<1>16. QED BY <1>1, <1>2, <1>3, <1>4, <1>5, <1>6, <1>7, <1>8, <1>9, <1>10, <1>11, <1>12, <1>13,
    <1>14, <1>15 DEF IInv

\* Or it names a session.
LEMMA FindStep ==
  ASSUME IInv, NEW r \in Requests, NEW i \in Ids, NEW k \in Keys, Find(r, i, k)
  PROVE  IInv'
<1> USE StdioAssumption DEF Step, Kind, Id, Session, Opens, Talks
<1>0. /\ TypeOK /\ RequestInv /\ IdInv /\ LockInv /\ FreshInv
      /\ ProcInv /\ EntryInv /\ CloseInv /\ SlotsInv /\ AskedInv
      /\ WaitInv /\ AnswerInv /\ DeadInv /\ RunningInv /\ ForgetInv
  BY DEF IInv
<1>s. Shape
  BY <1>0, Shapes
<1>a. /\ i \in Known
      /\ Entered(r, "call", i, k, IF sessions[i] # Nobody THEN "send" ELSE "queue", sessions[i])
      /\ Step(r) = "new"
      /\ UNCHANGED <<sessions, live, saved, resuming, proc, pending, asked, closing,
                     troubles, cut, lost, stray, ended, raced>>
  <2>1. UNCHANGED <<sessions, live, saved, resuming, proc, pending, asked, closing,
                    troubles, cut, lost, stray, ended, raced>>
    BY DEF Find, Enter, history
  <2>2. QED BY <1>0, <1>s, <2>1, EnterEnters DEF Find, RequestSteps, Shape
<1>k. \A j \in Ids : j \in Known => j \in Known'
  BY <1>0, <1>s, <1>a DEF Shape, Entered, Others, Known
<1>1. TypeOK'
  BY <1>0, <1>s, <1>a DEF Shape, Entered, Others, TypeOK
<1>2. RequestInv'
  BY <1>0, <1>s, <1>a DEF Shape, Entered, Others, RequestInv, Key
<1>3. IdInv'
  BY <1>0, <1>s, <1>a, <1>k DEF Shape, Entered, Others, IdInv, RequestInv
<1>4. LockInv'
  BY <1>0, <1>s, <1>a DEF Shape, Entered, Others, LockInv, RequestInv
<1>5. FreshInv'
  BY <1>0, <1>s, <1>a DEF Shape, Entered, Others, FreshInv, RequestInv
<1>6. ProcInv'
  BY <1>0, <1>s, <1>a, <1>k DEF Shape, Entered, Others, ProcInv
<1>7. EntryInv'
  <2>1. \A j \in Ids : sessions'[j] # Nobody => proc'[sessions'[j]].id = j
    BY <1>0, <1>s, <1>a, <1>k DEF Shape, Entered, Others, EntryInv, FreshInv, ProcInv
  <2>2. ASSUME NEW q \in Requests, Step(q)' \in Opens, Id(q)' # Nobody
        PROVE  sessions'[Id(q)'] = Nobody
    BY <1>0, <1>s, <1>a, <2>2, <1>k DEF Shape, Entered, Others, EntryInv, RequestInv, IdInv,
        FreshInv, ProcInv
  <2>3. ASSUME NEW q \in Requests, Step(q)' = "insert"
        PROVE  proc'[q].id = Id(q)' /\ \A j \in Ids : sessions'[j] # q
    BY <1>0, <1>s, <1>a, <2>3, <1>k DEF Shape, Entered, Others, EntryInv, FreshInv, RequestInv,
        ProcInv
  <2>4. ASSUME NEW q \in Requests, Kind(q)' = "delete", Step(q)' \in {"forget", "ending"}, Session(q)' # Nobody
        PROVE  proc'[Session(q)'].id = Id(q)'
    BY <1>0, <1>s, <1>a, <2>4, <1>k DEF Shape, Entered, Others, EntryInv, RequestInv, FreshInv,
        ProcInv
  <2>5. QED BY <2>1, <2>2, <2>3, <2>4 DEF EntryInv
<1>8. CloseInv'
  BY <1>0, <1>s, <1>a DEF Shape, Entered, Others, CloseInv, RequestInv
<1>9. SlotsInv'
  <2>1. \A d \in Closers : closing'[d].removed <=> closing[d].removed
    BY <1>0, <1>s, <1>a DEF Shape, Removing
  <2>2. \A s \in Requests : s \in Opening' <=> s \in Opening
    BY <1>0, <1>s, <1>a DEF Shape, Entered, Others, Opening, Slot, RequestInv
  <2>3. QED BY <1>0, <1>1, <1>a, <2>1, <2>2, SlotsKeep
<1>10. AskedInv'
  BY <1>0, <1>s, <1>a DEF Shape, Entered, Others, AskedInv, RequestInv, Key
<1>11. WaitInv'
  <2>1. ASSUME NEW s \in Requests, request'[s].step \in {"write", "await"},
               request'[s].answer = Nobody, s \notin cut'
        PROVE  pending'[request'[s].proc][request'[s].key] = s
    BY <1>0, <1>s, <1>a, <2>1 DEF Shape, Entered, Others, WaitInv, RequestInv, Key
  <2>2. ASSUME NEW q \in Requests, NEW j \in Keys \union {Hello}, pending'[q][j] # Nobody
        PROVE  request'[pending'[q][j]].step # "new"
    BY <1>0, <1>s, <1>a, <2>2 DEF Shape, Entered, Others, WaitInv, RequestInv
  <2>3. QED BY <2>1, <2>2 DEF WaitInv, Key
<1>12. AnswerInv'
  BY <1>0, <1>s, <1>a DEF Shape, Entered, Others, AnswerInv, Waits, RequestInv
<1>13. DeadInv'
  <2>1. ASSUME NEW q \in Requests, proc'[q].reader = "ended", closing'[Reader(q)].step # "remove",
               NEW s \in Requests, Session(s)' = q
        PROVE  ~Waits(s)'
    BY <1>0, <1>s, <1>a, <2>1 DEF Shape, Entered, Others, DeadInv, Waits, RequestInv
  <2>2. QED BY <2>1 DEF DeadInv
<1>14. RunningInv'
  <2>1. ASSUME NEW q \in Requests, q \notin stray', proc'[q].state = "running", proc'[q].id # Nobody
        PROVE  sessions'[proc'[q].id] = q \/ Step(q)' = "insert"
    BY <1>0, <1>s, <1>a, <2>1 DEF Shape, Entered, Others, RunningInv, RequestInv
  <2>2. QED BY <2>1 DEF RunningInv
<1>15. ForgetInv'
  <2>1. \A s \in Requests, j \in Ids : Deletes(s, j)' =>
            /\ Deletes(s, j) /\ request'[s] = request[s]
            /\ closing'[Handler(s)] = closing[Handler(s)]
    BY <1>0, <1>s, <1>a DEF Shape, Entered, Others, Deletes, RequestInv
  <2>2. \A j \in Ids : Resumes(j)' => Resumes(j)
    BY <1>0, <1>s, <1>a DEF Shape, Entered, Others, Resumes, LockInv, RequestInv
  <2>3. QED BY <1>0, <1>k, <1>a, <2>1, <2>2, ForgetKeep
<1>16. QED BY <1>1, <1>2, <1>3, <1>4, <1>5, <1>6, <1>7, <1>8, <1>9, <1>10, <1>11, <1>12, <1>13,
    <1>14, <1>15 DEF IInv

\* Or it ends one.
LEMMA DeleteStep ==
  ASSUME IInv, NEW r \in Requests, NEW i \in Ids, Delete(r, i)
  PROVE  IInv'
<1> USE StdioAssumption DEF Step, Kind, Id, Session, Opens, Talks
<1>0. /\ TypeOK /\ RequestInv /\ IdInv /\ LockInv /\ FreshInv
      /\ ProcInv /\ EntryInv /\ CloseInv /\ SlotsInv /\ AskedInv
      /\ WaitInv /\ AnswerInv /\ DeadInv /\ RunningInv /\ ForgetInv
  BY DEF IInv
<1>s. Shape
  BY <1>0, Shapes
<1>a. /\ i \in Known /\ Entered(r, "delete", i, Hello, "forget", sessions[i])
      /\ Step(r) = "new"
      /\ UNCHANGED <<sessions, live, saved, resuming, proc, pending, asked, closing,
                     troubles, cut, lost, stray, ended, raced>>
  <2>1. UNCHANGED <<sessions, live, saved, resuming, proc, pending, asked, closing,
                    troubles, cut, lost, stray, ended, raced>>
    BY DEF Delete, Enter, history
  <2>2. QED BY <1>0, <1>s, <2>1, EnterEnters DEF Delete, RequestSteps, Shape
<1>k. \A j \in Ids : j \in Known => j \in Known'
  BY <1>0, <1>s, <1>a DEF Shape, Entered, Others, Known
<1>1. TypeOK'
  BY <1>0, <1>s, <1>a DEF Shape, Entered, Others, TypeOK
<1>2. RequestInv'
  BY <1>0, <1>s, <1>a DEF Shape, Entered, Others, RequestInv, Key
<1>3. IdInv'
  BY <1>0, <1>s, <1>a, <1>k DEF Shape, Entered, Others, IdInv, RequestInv
<1>4. LockInv'
  BY <1>0, <1>s, <1>a DEF Shape, Entered, Others, LockInv, RequestInv
<1>5. FreshInv'
  BY <1>0, <1>s, <1>a DEF Shape, Entered, Others, FreshInv, RequestInv
<1>6. ProcInv'
  BY <1>0, <1>s, <1>a, <1>k DEF Shape, Entered, Others, ProcInv
<1>7. EntryInv'
  <2>1. \A j \in Ids : sessions'[j] # Nobody => proc'[sessions'[j]].id = j
    BY <1>0, <1>s, <1>a, <1>k DEF Shape, Entered, Others, EntryInv, FreshInv, ProcInv
  <2>2. ASSUME NEW q \in Requests, Step(q)' \in Opens, Id(q)' # Nobody
        PROVE  sessions'[Id(q)'] = Nobody
    BY <1>0, <1>s, <1>a, <2>2, <1>k DEF Shape, Entered, Others, EntryInv, RequestInv, IdInv,
        FreshInv, ProcInv
  <2>3. ASSUME NEW q \in Requests, Step(q)' = "insert"
        PROVE  proc'[q].id = Id(q)' /\ \A j \in Ids : sessions'[j] # q
    BY <1>0, <1>s, <1>a, <2>3, <1>k DEF Shape, Entered, Others, EntryInv, FreshInv, RequestInv,
        ProcInv
  <2>4. ASSUME NEW q \in Requests, Kind(q)' = "delete", Step(q)' \in {"forget", "ending"}, Session(q)' # Nobody
        PROVE  proc'[Session(q)'].id = Id(q)'
    BY <1>0, <1>s, <1>a, <2>4, <1>k DEF Shape, Entered, Others, EntryInv, RequestInv, FreshInv,
        ProcInv
  <2>5. QED BY <2>1, <2>2, <2>3, <2>4 DEF EntryInv
<1>8. CloseInv'
  BY <1>0, <1>s, <1>a DEF Shape, Entered, Others, CloseInv, RequestInv
<1>9. SlotsInv'
  <2>1. \A d \in Closers : closing'[d].removed <=> closing[d].removed
    BY <1>0, <1>s, <1>a DEF Shape, Removing
  <2>2. \A s \in Requests : s \in Opening' <=> s \in Opening
    BY <1>0, <1>s, <1>a DEF Shape, Entered, Others, Opening, Slot, RequestInv
  <2>3. QED BY <1>0, <1>1, <1>a, <2>1, <2>2, SlotsKeep
<1>10. AskedInv'
  BY <1>0, <1>s, <1>a DEF Shape, Entered, Others, AskedInv, RequestInv, Key
<1>11. WaitInv'
  <2>1. ASSUME NEW s \in Requests, request'[s].step \in {"write", "await"},
               request'[s].answer = Nobody, s \notin cut'
        PROVE  pending'[request'[s].proc][request'[s].key] = s
    BY <1>0, <1>s, <1>a, <2>1 DEF Shape, Entered, Others, WaitInv, RequestInv, Key
  <2>2. ASSUME NEW q \in Requests, NEW j \in Keys \union {Hello}, pending'[q][j] # Nobody
        PROVE  request'[pending'[q][j]].step # "new"
    BY <1>0, <1>s, <1>a, <2>2 DEF Shape, Entered, Others, WaitInv, RequestInv
  <2>3. QED BY <2>1, <2>2 DEF WaitInv, Key
<1>12. AnswerInv'
  BY <1>0, <1>s, <1>a DEF Shape, Entered, Others, AnswerInv, Waits, RequestInv
<1>13. DeadInv'
  <2>1. ASSUME NEW q \in Requests, proc'[q].reader = "ended", closing'[Reader(q)].step # "remove",
               NEW s \in Requests, Session(s)' = q
        PROVE  ~Waits(s)'
    BY <1>0, <1>s, <1>a, <2>1 DEF Shape, Entered, Others, DeadInv, Waits, RequestInv
  <2>2. QED BY <2>1 DEF DeadInv
<1>14. RunningInv'
  <2>1. ASSUME NEW q \in Requests, q \notin stray', proc'[q].state = "running", proc'[q].id # Nobody
        PROVE  sessions'[proc'[q].id] = q \/ Step(q)' = "insert"
    BY <1>0, <1>s, <1>a, <2>1 DEF Shape, Entered, Others, RunningInv, RequestInv
  <2>2. QED BY <2>1 DEF RunningInv
<1>15. ForgetInv'
  <2>1. \A s \in Requests, j \in Ids : Deletes(s, j)' =>
            /\ Deletes(s, j) /\ request'[s] = request[s]
            /\ closing'[Handler(s)] = closing[Handler(s)]
    BY <1>0, <1>s, <1>a DEF Shape, Entered, Others, Deletes, RequestInv
  <2>2. \A j \in Ids : Resumes(j)' => Resumes(j)
    BY <1>0, <1>s, <1>a DEF Shape, Entered, Others, Resumes, LockInv, RequestInv
  <2>3. QED BY <1>0, <1>k, <1>a, <2>1, <2>2, ForgetKeep
<1>16. QED BY <1>1, <1>2, <1>3, <1>4, <1>5, <1>6, <1>7, <1>8, <1>9, <1>10, <1>11, <1>12, <1>13,
    <1>14, <1>15 DEF IInv

\* The session is there when it is looked for under the lock.
LEMMA FoundStep ==
  ASSUME IInv, NEW r \in Requests, NEW p \in Requests, Step(r) = "queue",
         sessions[Id(r)] = p, Moved(r, "send", p),
         UNCHANGED <<sessions, live, saved, resuming, proc, pending, asked, closing,
                     troubles, cut, lost, stray, ended, raced>>
  PROVE  IInv'
<1> USE StdioAssumption DEF Step, Kind, Id, Session, Opens, Talks
<1>0. /\ TypeOK /\ RequestInv /\ IdInv /\ LockInv /\ FreshInv
      /\ ProcInv /\ EntryInv /\ CloseInv /\ SlotsInv /\ AskedInv
      /\ WaitInv /\ AnswerInv /\ DeadInv /\ RunningInv /\ ForgetInv
  BY DEF IInv
<1>s. Shape
  BY <1>0, Shapes
<1>k. \A j \in Ids : j \in Known => j \in Known'
  BY <1>0, <1>s DEF Shape, Moved, Others, Known
<1>1. TypeOK'
  BY <1>0, <1>s DEF Shape, Moved, Others, TypeOK
<1>2. RequestInv'
  BY <1>0, <1>s DEF Shape, Moved, Others, RequestInv, Key
<1>3. IdInv'
  BY <1>0, <1>s, <1>k DEF Shape, Moved, Others, IdInv, RequestInv
<1>4. LockInv'
  BY <1>0, <1>s DEF Shape, Moved, Others, LockInv, RequestInv
<1>5. FreshInv'
  BY <1>0, <1>s DEF Shape, Moved, Others, FreshInv, RequestInv, IdInv
<1>6. ProcInv'
  BY <1>0, <1>s, <1>k DEF Shape, Moved, Others, ProcInv
<1>7. EntryInv'
  BY <1>0, <1>s, <1>k DEF Shape, Moved, Others, EntryInv, RequestInv, IdInv
<1>8. CloseInv'
  BY <1>0, <1>s DEF Shape, Moved, Others, CloseInv, RequestInv
<1>9. SlotsInv'
  <2>1. \A d \in Closers : closing'[d].removed <=> closing[d].removed
    BY <1>0, <1>s DEF Shape, Removing
  <2>2. \A s \in Requests : s \in Opening' <=> s \in Opening
    BY <1>0, <1>s DEF Shape, Moved, Others, Opening, Slot, RequestInv
  <2>3. QED BY <1>0, <1>1, <2>1, <2>2, SlotsKeep
<1>10. AskedInv'
  BY <1>0, <1>s DEF Shape, Moved, Others, AskedInv, RequestInv, Key
<1>11. WaitInv'
  <2>1. ASSUME NEW s \in Requests, request'[s].step \in {"write", "await"},
               request'[s].answer = Nobody, s \notin cut'
        PROVE  pending'[request'[s].proc][request'[s].key] = s
    BY <1>0, <1>s, <2>1 DEF Shape, Moved, Others, WaitInv, RequestInv, Key
  <2>2. ASSUME NEW q \in Requests, NEW j \in Keys \union {Hello}, pending'[q][j] # Nobody
        PROVE  request'[pending'[q][j]].step # "new"
    BY <1>0, <1>s, <2>2 DEF Shape, Moved, Others, WaitInv, RequestInv
  <2>3. QED BY <2>1, <2>2 DEF WaitInv, Key
<1>12. AnswerInv'
  BY <1>0, <1>s DEF Shape, Moved, Others, AnswerInv, Waits, RequestInv
<1>13. DeadInv'
  <2>1. ASSUME NEW q \in Requests, proc'[q].reader = "ended", closing'[Reader(q)].step # "remove",
               NEW s \in Requests, Session(s)' = q
        PROVE  ~Waits(s)'
    BY <1>0, <1>s, <2>1 DEF Shape, Moved, Others, DeadInv, Waits, RequestInv
  <2>2. QED BY <2>1 DEF DeadInv
<1>14. RunningInv'
  <2>1. ASSUME NEW q \in Requests, q \notin stray', proc'[q].state = "running", proc'[q].id # Nobody
        PROVE  sessions'[proc'[q].id] = q \/ Step(q)' = "insert"
    BY <1>0, <1>s, <2>1 DEF Shape, Moved, Others, RunningInv, RequestInv
  <2>2. QED BY <2>1 DEF RunningInv
<1>15. ForgetInv'
  <2>1. \A s \in Requests, j \in Ids : Deletes(s, j)' =>
            /\ Deletes(s, j) /\ request'[s] = request[s]
            /\ closing'[Handler(s)] = closing[Handler(s)]
    BY <1>0, <1>s DEF Shape, Moved, Others, Deletes, RequestInv
  <2>2. \A j \in Ids : Resumes(j)' => Resumes(j)
    BY <1>0, <1>s DEF Shape, Moved, Others, Resumes, LockInv, RequestInv
  <2>3. QED BY <1>0, <1>k, <2>1, <2>2, ForgetKeep
<1>16. QED BY <1>1, <1>2, <1>3, <1>4, <1>5, <1>6, <1>7, <1>8, <1>9, <1>10, <1>11, <1>12, <1>13,
    <1>14, <1>15 DEF IInv

\* Or it has a row, and the lock is kept.
LEMMA LockStep ==
  ASSUME IInv, NEW r \in Requests, Step(r) = "queue", resuming = Nobody,
         sessions[Id(r)] = Nobody, Id(r) \in saved, Moved(r, "reserve", Session(r)), resuming' = r,
         UNCHANGED <<sessions, live, saved, proc, pending, asked, closing, troubles,
                     cut, lost, stray, ended, raced>>
  PROVE  IInv'
<1> USE StdioAssumption DEF Step, Kind, Id, Session, Opens, Talks
<1>0. /\ TypeOK /\ RequestInv /\ IdInv /\ LockInv /\ FreshInv
      /\ ProcInv /\ EntryInv /\ CloseInv /\ SlotsInv /\ AskedInv
      /\ WaitInv /\ AnswerInv /\ DeadInv /\ RunningInv /\ ForgetInv
  BY DEF IInv
<1>s. Shape
  BY <1>0, Shapes
<1>k. \A j \in Ids : j \in Known => j \in Known'
  BY <1>0, <1>s DEF Shape, Moved, Others, Known
<1>1. TypeOK'
  BY <1>0, <1>s DEF Shape, Moved, Others, TypeOK
<1>2. RequestInv'
  BY <1>0, <1>s DEF Shape, Moved, Others, RequestInv, Key
<1>3. IdInv'
  BY <1>0, <1>s, <1>k DEF Shape, Moved, Others, IdInv, RequestInv
<1>4. LockInv'
  BY <1>0, <1>s DEF Shape, Moved, Others, LockInv, RequestInv
<1>5. FreshInv'
  BY <1>0, <1>s DEF Shape, Moved, Others, FreshInv, RequestInv
<1>6. ProcInv'
  BY <1>0, <1>s, <1>k DEF Shape, Moved, Others, ProcInv
<1>7. EntryInv'
  BY <1>0, <1>s, <1>k DEF Shape, Moved, Others, EntryInv, RequestInv, IdInv
<1>8. CloseInv'
  BY <1>0, <1>s DEF Shape, Moved, Others, CloseInv, RequestInv
<1>9. SlotsInv'
  <2>1. \A d \in Closers : closing'[d].removed <=> closing[d].removed
    BY <1>0, <1>s DEF Shape, Removing
  <2>2. \A s \in Requests : s \in Opening' <=> s \in Opening
    BY <1>0, <1>s DEF Shape, Moved, Others, Opening, Slot, RequestInv
  <2>3. QED BY <1>0, <1>1, <2>1, <2>2, SlotsKeep
<1>10. AskedInv'
  BY <1>0, <1>s DEF Shape, Moved, Others, AskedInv, RequestInv, Key
<1>11. WaitInv'
  <2>1. ASSUME NEW s \in Requests, request'[s].step \in {"write", "await"},
               request'[s].answer = Nobody, s \notin cut'
        PROVE  pending'[request'[s].proc][request'[s].key] = s
    BY <1>0, <1>s, <2>1 DEF Shape, Moved, Others, WaitInv, RequestInv, Key
  <2>2. ASSUME NEW q \in Requests, NEW j \in Keys \union {Hello}, pending'[q][j] # Nobody
        PROVE  request'[pending'[q][j]].step # "new"
    BY <1>0, <1>s, <2>2 DEF Shape, Moved, Others, WaitInv, RequestInv
  <2>3. QED BY <2>1, <2>2 DEF WaitInv, Key
<1>12. AnswerInv'
  BY <1>0, <1>s DEF Shape, Moved, Others, AnswerInv, Waits, RequestInv
<1>13. DeadInv'
  <2>1. ASSUME NEW q \in Requests, proc'[q].reader = "ended", closing'[Reader(q)].step # "remove",
               NEW s \in Requests, Session(s)' = q
        PROVE  ~Waits(s)'
    BY <1>0, <1>s, <2>1 DEF Shape, Moved, Others, DeadInv, Waits, RequestInv
  <2>2. QED BY <2>1 DEF DeadInv
<1>14. RunningInv'
  <2>1. ASSUME NEW q \in Requests, q \notin stray', proc'[q].state = "running", proc'[q].id # Nobody
        PROVE  sessions'[proc'[q].id] = q \/ Step(q)' = "insert"
    BY <1>0, <1>s, <2>1 DEF Shape, Moved, Others, RunningInv, RequestInv
  <2>2. QED BY <2>1 DEF RunningInv
<1>15. ForgetInv'
  <2>1. \A s \in Requests, j \in Ids : Deletes(s, j)' =>
            /\ Deletes(s, j) /\ request'[s] = request[s]
            /\ closing'[Handler(s)] = closing[Handler(s)]
    BY <1>0, <1>s DEF Shape, Moved, Others, Deletes, RequestInv
  <2>2. \A i \in Ids : Forgotten(i)' => Forgotten(i)
    BY <1>0, <1>s, <2>1 DEF Forgotten
  <2>3. \A i \in Ids : Resumes(i)' => i \in saved
    BY <1>s DEF Shape, Resumes, Moved
  <2>4. QED BY <1>0, <1>s, <1>k, <2>1, <2>2, <2>3 DEF ForgetInv
<1>16. QED BY <1>1, <1>2, <1>3, <1>4, <1>5, <1>6, <1>7, <1>8, <1>9, <1>10, <1>11, <1>12, <1>13,
    <1>14, <1>15 DEF IInv

\* A handler comes to its end.
LEMMA FinishStep ==
  ASSUME IInv, NEW r \in Requests, NEW kind \in {"initialize", "call"}, Blanked(r, kind),
         kind = "initialize" => Kind(r) = "initialize",
         Unlock(r), Step(r) \in Talks \union {"queue", "reserve"}, Emptied(r),
         UNCHANGED <<sessions, live, saved, proc, asked, closing, troubles, lost,
                     stray, ended, raced>>
  PROVE  IInv'
<1> USE StdioAssumption DEF Step, Kind, Id, Session, Opens, Talks
<1>0. /\ TypeOK /\ RequestInv /\ IdInv /\ LockInv /\ FreshInv
      /\ ProcInv /\ EntryInv /\ CloseInv /\ SlotsInv /\ AskedInv
      /\ WaitInv /\ AnswerInv /\ DeadInv /\ RunningInv /\ ForgetInv
  BY DEF IInv
<1>s. Shape
  BY <1>0, Shapes
<1>k. \A j \in Ids : j \in Known => j \in Known'
  BY <1>0, <1>s DEF Shape, Blanked, Others, Known
<1>1. TypeOK'
  BY <1>0, <1>s DEF Shape, Blanked, Others, Unlock, Emptied, TypeOK
<1>2. RequestInv'
  BY <1>0, <1>s DEF Shape, Blanked, Others, RequestInv, Key
<1>3. IdInv'
  BY <1>0, <1>s, <1>k DEF Shape, Blanked, Others, IdInv, RequestInv
<1>4. LockInv'
  BY <1>0, <1>s DEF Shape, Blanked, Others, Unlock, LockInv, RequestInv
<1>5. FreshInv'
  BY <1>0, <1>s DEF Shape, Blanked, Others, FreshInv, RequestInv
<1>6. ProcInv'
  BY <1>0, <1>s, <1>k DEF Shape, Blanked, Others, ProcInv
<1>7. EntryInv'
  BY <1>0, <1>s, <1>k DEF Shape, Blanked, Others, EntryInv, RequestInv, IdInv
<1>8. CloseInv'
  BY <1>0, <1>s DEF Shape, Blanked, Others, CloseInv, RequestInv
<1>9. SlotsInv'
  <2>1. \A d \in Closers : closing'[d].removed <=> closing[d].removed
    BY <1>0, <1>s DEF Shape, Removing
  <2>2. \A s \in Requests : s \in Opening' <=> s \in Opening
    BY <1>0, <1>s DEF Shape, Blanked, Others, Opening, Slot, RequestInv
  <2>3. QED BY <1>0, <1>1, <2>1, <2>2, SlotsKeep
<1>10. AskedInv'
  BY <1>0, <1>s DEF Shape, Blanked, Others, AskedInv, RequestInv, Key
<1>11. WaitInv'
  <2>1. ASSUME NEW s \in Requests, request'[s].step \in {"write", "await"},
               request'[s].answer = Nobody, s \notin cut'
        PROVE  pending'[request'[s].proc][request'[s].key] = s
    <3>1. s # r /\ request'[s] = request[s] /\ Step(s) \in {"write", "await"} /\ s \notin cut
      BY <2>1 DEF Blanked, Others, Emptied
    <3>2. Session(s) \in Requests /\ Key(s) \in Keys /\ pending[Session(s)][Key(s)] = s
      BY <1>0, <1>s, <2>1, <3>1 DEF Shape, WaitInv, RequestInv, Key
    <3>3. pending'[Session(s)][Key(s)] = s
      BY <2>1, <3>1, <3>2 DEF Emptied
    <3>4. QED BY <3>1, <3>3 DEF Key
  <2>2. ASSUME NEW q \in Requests, NEW j \in Keys \union {Hello}, pending'[q][j] # Nobody
        PROVE  request'[pending'[q][j]].step # "new"
    <3>1. pending'[q][j] = pending[q][j] /\ pending[q][j] \in Requests
      BY <1>s, <2>2 DEF Emptied, Shape
    <3>2. request'[r].step # "new"
      BY DEF Blanked
    <3>3. QED BY <1>0, <2>2, <3>1, <3>2 DEF Blanked, Others, WaitInv
  <2>3. QED BY <2>1, <2>2 DEF WaitInv, Key
<1>12. AnswerInv'
  <2>1. ASSUME NEW q \in Requests, request'[q].answer # Nobody
        PROVE  request'[q].answer = request[q].answer /\ request[q].answer \in Requests
    BY <1>0, <1>s, <2>1 DEF Shape, Blanked, Others, Emptied, RequestInv
  <2>2. ASSUME NEW s \in Requests, Step(s) \in {"await", "ending", "done"}
        PROVE  /\ Step(s)' \in {"await", "ending", "done"}
               /\ Waits(s)' => Waits(s)
    BY <1>0, <1>s, <2>2 DEF Shape, Blanked, Others, Emptied, Waits, RequestInv
  <2>3. QED BY <2>1, <2>2, <1>0 DEF AnswerInv
<1>13. DeadInv'
  <2>1. ASSUME NEW q \in Requests, proc'[q].reader = "ended", closing'[Reader(q)].step # "remove",
               NEW s \in Requests, Session(s)' = q
        PROVE  ~Waits(s)'
    BY <1>0, <1>s, <2>1 DEF Shape, Blanked, Others, Emptied, DeadInv, Waits, RequestInv
  <2>2. QED BY <2>1 DEF DeadInv
<1>14. RunningInv'
  <2>1. ASSUME NEW q \in Requests, q \notin stray', proc'[q].state = "running", proc'[q].id # Nobody
        PROVE  sessions'[proc'[q].id] = q \/ Step(q)' = "insert"
    BY <1>0, <1>s, <2>1 DEF Shape, Blanked, Others, RunningInv, RequestInv
  <2>2. QED BY <2>1 DEF RunningInv
<1>15. ForgetInv'
  <2>1. \A s \in Requests, j \in Ids : Deletes(s, j)' =>
            /\ Deletes(s, j) /\ request'[s] = request[s]
            /\ closing'[Handler(s)] = closing[Handler(s)]
    BY <1>0, <1>s DEF Shape, Blanked, Others, Deletes, RequestInv
  <2>2. \A j \in Ids : Resumes(j)' => Resumes(j)
    BY <1>0, <1>s DEF Shape, Blanked, Others, Unlock, Resumes, LockInv, RequestInv
  <2>3. QED BY <1>0, <1>k, <2>1, <2>2, ForgetKeep
<1>16. QED BY <1>1, <1>2, <1>3, <1>4, <1>5, <1>6, <1>7, <1>8, <1>9, <1>10, <1>11, <1>12, <1>13,
    <1>14, <1>15 DEF IInv

\* Or it closes what it started.
LEMMA EndStep ==
  ASSUME IInv, NEW r \in Requests, Moved(r, "ending", Session(r)), Closes(Handler(r), Session(r)),
         Step(r) \in Talks, Kind(r) \in {"oneshot", "initialize"}, Emptied(r),
         UNCHANGED <<sessions, live, saved, resuming, proc, asked, troubles, lost,
                     stray, ended, raced>>
  PROVE  IInv'
<1> USE StdioAssumption DEF Step, Kind, Id, Session, Opens, Talks
<1>0. /\ TypeOK /\ RequestInv /\ IdInv /\ LockInv /\ FreshInv
      /\ ProcInv /\ EntryInv /\ CloseInv /\ SlotsInv /\ AskedInv
      /\ WaitInv /\ AnswerInv /\ DeadInv /\ RunningInv /\ ForgetInv
  BY DEF IInv
<1>s. Shape
  BY <1>0, Shapes
<1>k. \A j \in Ids : j \in Known => j \in Known'
  BY <1>0, <1>s DEF Shape, Moved, Others, Known
<1>1. TypeOK'
  BY <1>0, <1>s, ClosersDiffer DEF Shape, Moved, Others, Closes, Emptied, TypeOK
<1>2. RequestInv'
  BY <1>0, <1>s, ClosersDiffer DEF Shape, Moved, Others, RequestInv, Key
<1>3. IdInv'
  BY <1>0, <1>s, ClosersDiffer, <1>k DEF Shape, Moved, Others, IdInv, RequestInv
<1>4. LockInv'
  BY <1>0, <1>s, ClosersDiffer DEF Shape, Moved, Others, LockInv, RequestInv
<1>5. FreshInv'
  <2>1. ASSUME NEW q \in Requests, Step(q)' \in {"new", "queue", "reserve", "evicting", "spawn"}
        PROVE  proc'[q].state = "none"
    BY <1>0, <1>s, ClosersDiffer, <2>1 DEF Shape, Moved, Others, Closes, FreshInv, RequestInv
  <2>2. ASSUME NEW q \in Requests, proc'[q].state = "none"
        PROVE  /\ proc'[q].id = Nobody /\ asked'[q] = {}
               /\ \A j \in Ids : sessions'[j] # q
    BY <1>0, <1>s, ClosersDiffer, <2>2 DEF Shape, Moved, Others, Closes, FreshInv
  <2>3. ASSUME NEW q \in Requests, proc'[q].state = "none"
        PROVE  \A s \in Requests : request'[s].proc # q
    BY <1>0, <1>s, ClosersDiffer, <2>3 DEF Shape, Moved, Others, Closes, FreshInv
  <2>4. ASSUME NEW q \in Requests, proc'[q].state = "none"
        PROVE  \A d \in Closers : closing'[d].proc # q
    BY <1>0, <1>s, ClosersDiffer, <2>4 DEF Shape, Moved, Others, Closes, FreshInv, RequestInv
  <2>5. QED BY <2>1, <2>2, <2>3, <2>4 DEF FreshInv
<1>6. ProcInv'
  BY <1>0, <1>s, ClosersDiffer, <1>k DEF Shape, Moved, Others, ProcInv
<1>7. EntryInv'
  BY <1>0, <1>s, ClosersDiffer, <1>k DEF Shape, Moved, Others, EntryInv, RequestInv, IdInv
<1>8. CloseInv'
  <2>1. ASSUME NEW d \in Closers
        PROVE  /\ closing'[d].step = "none" => closing'[d] = NoClose
               /\ closing'[d].step # "none" => closing'[d].proc # Nobody
               /\ closing'[d].removed => closing'[d].step = "terminate"
    BY <1>0, <1>s, ClosersDiffer, <2>1 DEF Shape, Moved, Others, Closes, CloseInv, RequestInv
  <2>2. ASSUME NEW q \in Requests
        PROVE  closing'[Handler(q)].step # "none" <=> Step(q)' \in {"evicting", "ending"}
    BY <1>0, <1>s, ClosersDiffer, <2>2 DEF Shape, Moved, Others, Closes, CloseInv
  <2>3. ASSUME NEW q \in Requests, Step(q)' = "ending"
        PROVE  closing'[Handler(q)].proc = Session(q)'
    BY <1>0, <1>s, ClosersDiffer, <2>3 DEF Shape, Moved, Others, Closes, CloseInv, RequestInv
  <2>4. ASSUME NEW q \in Requests
        PROVE  /\ closing'[Reader(q)].proc \in {q, Nobody}
               /\ proc'[q].reader \in {"none", "reading"} => closing'[Reader(q)].step = "none"
    BY <1>0, <1>s, ClosersDiffer, <2>4 DEF Shape, Moved, Others, Closes, CloseInv, FreshInv, ProcInv
  <2>5. QED BY <2>1, <2>2, <2>3, <2>4 DEF CloseInv
<1>9. SlotsInv'
  <2>0. ~closing[Handler(r)].removed
    BY <1>0, <1>s, ClosersDiffer DEF CloseInv
  <2>1. \A d \in Closers : closing'[d].removed <=> closing[d].removed
    BY <1>0, <1>s, ClosersDiffer, <2>0 DEF Shape, Closes, Removing
  <2>2. \A s \in Requests : s \in Opening' <=> s \in Opening
    BY <1>0, <1>s, ClosersDiffer DEF Shape, Moved, Others, Opening, Slot, RequestInv
  <2>3. QED BY <1>0, <1>1, <2>1, <2>2, SlotsKeep
<1>10. AskedInv'
  BY <1>0, <1>s, ClosersDiffer DEF Shape, Moved, Others, AskedInv, RequestInv, Key
<1>11. WaitInv'
  <2>1. ASSUME NEW s \in Requests, request'[s].step \in {"write", "await"},
               request'[s].answer = Nobody, s \notin cut'
        PROVE  pending'[request'[s].proc][request'[s].key] = s
    <3>1. s # r /\ request'[s] = request[s] /\ Step(s) \in {"write", "await"} /\ s \notin cut
      BY <2>1 DEF Moved, Others, Emptied
    <3>2. Session(s) \in Requests /\ Key(s) \in Keys /\ pending[Session(s)][Key(s)] = s
      BY <1>0, <1>s, <2>1, <3>1 DEF Shape, WaitInv, RequestInv, Key
    <3>3. pending'[Session(s)][Key(s)] = s
      BY <2>1, <3>1, <3>2 DEF Emptied
    <3>4. QED BY <3>1, <3>3 DEF Key
  <2>2. ASSUME NEW q \in Requests, NEW j \in Keys \union {Hello}, pending'[q][j] # Nobody
        PROVE  request'[pending'[q][j]].step # "new"
    <3>1. pending'[q][j] = pending[q][j] /\ pending[q][j] \in Requests
      BY <1>s, <2>2 DEF Emptied, Shape
    <3>2. request'[r].step # "new"
      BY DEF Moved
    <3>3. QED BY <1>0, <2>2, <3>1, <3>2 DEF Moved, Others, WaitInv
  <2>3. QED BY <2>1, <2>2 DEF WaitInv, Key
<1>12. AnswerInv'
  <2>1. ASSUME NEW q \in Requests, request'[q].answer # Nobody
        PROVE  request'[q].answer = request[q].answer /\ request[q].answer \in Requests
    BY <1>0, <1>s, ClosersDiffer, <2>1 DEF Shape, Moved, Others, Emptied, RequestInv
  <2>2. ASSUME NEW s \in Requests, Step(s) \in {"await", "ending", "done"}
        PROVE  /\ Step(s)' \in {"await", "ending", "done"}
               /\ Waits(s)' => Waits(s)
    BY <1>0, <1>s, ClosersDiffer, <2>2 DEF Shape, Moved, Others, Emptied, Waits, RequestInv
  <2>3. QED BY <2>1, <2>2, <1>0 DEF AnswerInv
<1>13. DeadInv'
  <2>1. ASSUME NEW q \in Requests, proc'[q].reader = "ended", closing'[Reader(q)].step # "remove",
               NEW s \in Requests, Session(s)' = q
        PROVE  ~Waits(s)'
    BY <1>0, <1>s, ClosersDiffer, <2>1 DEF Shape, Moved, Others, Closes, Emptied, DeadInv, Waits,
        RequestInv
  <2>2. QED BY <2>1 DEF DeadInv
<1>14. RunningInv'
  <2>1. ASSUME NEW q \in Requests, q \notin stray', proc'[q].state = "running", proc'[q].id # Nobody
        PROVE  sessions'[proc'[q].id] = q \/ Step(q)' = "insert"
    BY <1>0, <1>s, ClosersDiffer, <2>1 DEF Shape, Moved, Others, RunningInv, RequestInv
  <2>2. QED BY <2>1 DEF RunningInv
<1>15. ForgetInv'
  <2>1. \A s \in Requests, j \in Ids : Deletes(s, j)' =>
            /\ Deletes(s, j) /\ request'[s] = request[s]
            /\ closing'[Handler(s)] = closing[Handler(s)]
    BY <1>0, <1>s, ClosersDiffer DEF Shape, Moved, Others, Closes, Deletes, RequestInv
  <2>2. \A j \in Ids : Resumes(j)' => Resumes(j)
    BY <1>0, <1>s, ClosersDiffer DEF Shape, Moved, Others, Resumes, LockInv, RequestInv
  <2>3. QED BY <1>0, <1>k, <2>1, <2>2, ForgetKeep
<1>16. QED BY <1>1, <1>2, <1>3, <1>4, <1>5, <1>6, <1>7, <1>8, <1>9, <1>10, <1>11, <1>12, <1>13,
    <1>14, <1>15 DEF IInv

\* A slot is taken.
LEMMA ReserveStep ==
  ASSUME IInv, NEW r \in Requests, Reserve(r)
  PROVE  IInv'
<1> USE StdioAssumption DEF Step, Kind, Id, Session, Opens, Talks
<1>0. /\ TypeOK /\ RequestInv /\ IdInv /\ LockInv /\ FreshInv
      /\ ProcInv /\ EntryInv /\ CloseInv /\ SlotsInv /\ AskedInv
      /\ WaitInv /\ AnswerInv /\ DeadInv /\ RunningInv /\ ForgetInv
  BY DEF IInv
<1>s. Shape
  BY <1>0, Shapes
<1>a. /\ Step(r) = "reserve" /\ live < MaxSessions /\ live' = live + 1
      /\ Moved(r, "spawn", Session(r))
      /\ UNCHANGED <<sessions, saved, resuming, proc, pending, asked, closing,
                     troubles, cut, lost, stray, ended, raced>>
  BY <1>0, GoMoves DEF Reserve, Room, history, RequestSteps
<1>k. \A j \in Ids : j \in Known => j \in Known'
  BY <1>0, <1>s, <1>a DEF Shape, Moved, Others, Known
<1>1. TypeOK'
  <2>1. live' \in 0..MaxSessions
    BY <1>0, <1>a DEF TypeOK
  <2>2. QED BY <1>0, <1>a, <2>1 DEF Moved, Others, TypeOK
<1>2. RequestInv'
  BY <1>0, <1>s, <1>a DEF Shape, Moved, Others, RequestInv, Key
<1>3. IdInv'
  BY <1>0, <1>s, <1>a, <1>k DEF Shape, Moved, Others, IdInv, RequestInv
<1>4. LockInv'
  BY <1>0, <1>s, <1>a DEF Shape, Moved, Others, LockInv, RequestInv
<1>5. FreshInv'
  BY <1>0, <1>s, <1>a DEF Shape, Moved, Others, FreshInv, RequestInv
<1>6. ProcInv'
  BY <1>0, <1>s, <1>a, <1>k DEF Shape, Moved, Others, ProcInv
<1>7. EntryInv'
  BY <1>0, <1>s, <1>a, <1>k DEF Shape, Moved, Others, EntryInv, RequestInv, IdInv
<1>8. CloseInv'
  BY <1>0, <1>s, <1>a DEF Shape, Moved, Others, CloseInv, RequestInv
<1>9. SlotsInv'
  <2>1. Mapped' = Mapped /\ Removing' = Removing
    BY <1>a DEF Mapped, Removing
  <2>2. Opening' = Opening \union {r} /\ r \notin Opening
    BY <1>0, <1>s, <1>a DEF Shape, Opening, Slot, RequestInv, Moved, Others
  <2>3. IsFiniteSet(Opening') /\ Cardinality(Opening') = Cardinality(Opening) + 1
    BY <1>0, <2>2, FS_AddElement DEF SlotsInv
  <2>4. QED BY <1>0, <1>a, <2>1, <2>3, FS_CardinalityType DEF SlotsInv, TypeOK
<1>10. AskedInv'
  BY <1>0, <1>s, <1>a DEF Shape, Moved, Others, AskedInv, RequestInv, Key
<1>11. WaitInv'
  <2>1. ASSUME NEW s \in Requests, request'[s].step \in {"write", "await"},
               request'[s].answer = Nobody, s \notin cut'
        PROVE  pending'[request'[s].proc][request'[s].key] = s
    BY <1>0, <1>s, <1>a, <2>1 DEF Shape, Moved, Others, WaitInv, RequestInv, Key
  <2>2. ASSUME NEW q \in Requests, NEW j \in Keys \union {Hello}, pending'[q][j] # Nobody
        PROVE  request'[pending'[q][j]].step # "new"
    BY <1>0, <1>s, <1>a, <2>2 DEF Shape, Moved, Others, WaitInv, RequestInv
  <2>3. QED BY <2>1, <2>2 DEF WaitInv, Key
<1>12. AnswerInv'
  BY <1>0, <1>s, <1>a DEF Shape, Moved, Others, AnswerInv, Waits, RequestInv
<1>13. DeadInv'
  <2>1. ASSUME NEW q \in Requests, proc'[q].reader = "ended", closing'[Reader(q)].step # "remove",
               NEW s \in Requests, Session(s)' = q
        PROVE  ~Waits(s)'
    BY <1>0, <1>s, <1>a, <2>1 DEF Shape, Moved, Others, DeadInv, Waits, RequestInv
  <2>2. QED BY <2>1 DEF DeadInv
<1>14. RunningInv'
  <2>1. ASSUME NEW q \in Requests, q \notin stray', proc'[q].state = "running", proc'[q].id # Nobody
        PROVE  sessions'[proc'[q].id] = q \/ Step(q)' = "insert"
    BY <1>0, <1>s, <1>a, <2>1 DEF Shape, Moved, Others, RunningInv, RequestInv
  <2>2. QED BY <2>1 DEF RunningInv
<1>15. ForgetInv'
  <2>1. \A s \in Requests, j \in Ids : Deletes(s, j)' =>
            /\ Deletes(s, j) /\ request'[s] = request[s]
            /\ closing'[Handler(s)] = closing[Handler(s)]
    BY <1>0, <1>s, <1>a DEF Shape, Moved, Others, Deletes, RequestInv
  <2>2. \A j \in Ids : Resumes(j)' => Resumes(j)
    BY <1>0, <1>s, <1>a DEF Shape, Moved, Others, Resumes, LockInv, RequestInv
  <2>3. QED BY <1>0, <1>k, <1>a, <2>1, <2>2, ForgetKeep
<1>16. QED BY <1>1, <1>2, <1>3, <1>4, <1>5, <1>6, <1>7, <1>8, <1>9, <1>10, <1>11, <1>12, <1>13,
    <1>14, <1>15 DEF IInv

\* Another session has to go for it.
LEMMA EvictStep ==
  ASSUME IInv, NEW r \in Requests, NEW p \in Mapped, Step(r) = "reserve", Close(r, p, "evicting"),
         UNCHANGED <<sessions, live, saved, resuming, proc, pending, asked, troubles,
                     cut, lost, stray, ended, raced>>
  PROVE  IInv'
<1> USE StdioAssumption DEF Step, Kind, Id, Session, Opens, Talks
<1>0. /\ TypeOK /\ RequestInv /\ IdInv /\ LockInv /\ FreshInv
      /\ ProcInv /\ EntryInv /\ CloseInv /\ SlotsInv /\ AskedInv
      /\ WaitInv /\ AnswerInv /\ DeadInv /\ RunningInv /\ ForgetInv
  BY DEF IInv
<1>s. Shape
  BY <1>0, Shapes
<1>a. /\ Moved(r, "evicting", Session(r)) /\ Closes(Handler(r), p)
      /\ p \in Requests /\ \E i \in Ids : sessions[i] = p
  <2>1. p \in Requests /\ \E i \in Ids : sessions[i] = p
    BY <1>s DEF Shape, Mapped
  <2>2. QED BY <1>0, <2>1, CloseMoves DEF RequestSteps
<1>k. \A j \in Ids : j \in Known => j \in Known'
  BY <1>0, <1>s, ClosersDiffer, <1>a DEF Shape, Moved, Others, Known
<1>1. TypeOK'
  BY <1>0, <1>s, ClosersDiffer, <1>a DEF Shape, Moved, Others, Closes, TypeOK
<1>2. RequestInv'
  BY <1>0, <1>s, ClosersDiffer, <1>a DEF Shape, Moved, Others, RequestInv, Key
<1>3. IdInv'
  BY <1>0, <1>s, ClosersDiffer, <1>a, <1>k DEF Shape, Moved, Others, IdInv, RequestInv
<1>4. LockInv'
  BY <1>0, <1>s, ClosersDiffer, <1>a DEF Shape, Moved, Others, LockInv, RequestInv
<1>5. FreshInv'
  BY <1>0, <1>s, ClosersDiffer, <1>a DEF Shape, Moved, Others, Closes, FreshInv, RequestInv
<1>6. ProcInv'
  BY <1>0, <1>s, ClosersDiffer, <1>a, <1>k DEF Shape, Moved, Others, ProcInv
<1>7. EntryInv'
  BY <1>0, <1>s, ClosersDiffer, <1>a, <1>k DEF Shape, Moved, Others, EntryInv, RequestInv, IdInv
<1>8. CloseInv'
  BY <1>0, <1>s, ClosersDiffer, <1>a DEF Shape, Moved, Others, Closes, CloseInv, RequestInv
<1>9. SlotsInv'
  <2>0. ~closing[Handler(r)].removed
    BY <1>0, <1>s, ClosersDiffer, <1>a DEF CloseInv
  <2>1. \A d \in Closers : closing'[d].removed <=> closing[d].removed
    BY <1>0, <1>s, ClosersDiffer, <1>a, <2>0 DEF Shape, Closes, Removing
  <2>2. \A s \in Requests : s \in Opening' <=> s \in Opening
    BY <1>0, <1>s, ClosersDiffer, <1>a DEF Shape, Moved, Others, Opening, Slot, RequestInv
  <2>3. QED BY <1>0, <1>1, <1>a, <2>1, <2>2, SlotsKeep
<1>10. AskedInv'
  BY <1>0, <1>s, ClosersDiffer, <1>a DEF Shape, Moved, Others, AskedInv, RequestInv, Key
<1>11. WaitInv'
  <2>1. ASSUME NEW s \in Requests, request'[s].step \in {"write", "await"},
               request'[s].answer = Nobody, s \notin cut'
        PROVE  pending'[request'[s].proc][request'[s].key] = s
    BY <1>0, <1>s, ClosersDiffer, <1>a, <2>1 DEF Shape, Moved, Others, WaitInv, RequestInv, Key
  <2>2. ASSUME NEW q \in Requests, NEW j \in Keys \union {Hello}, pending'[q][j] # Nobody
        PROVE  request'[pending'[q][j]].step # "new"
    BY <1>0, <1>s, ClosersDiffer, <1>a, <2>2 DEF Shape, Moved, Others, WaitInv, RequestInv
  <2>3. QED BY <2>1, <2>2 DEF WaitInv, Key
<1>12. AnswerInv'
  BY <1>0, <1>s, ClosersDiffer, <1>a DEF Shape, Moved, Others, AnswerInv, Waits, RequestInv
<1>13. DeadInv'
  <2>1. ASSUME NEW q \in Requests, proc'[q].reader = "ended", closing'[Reader(q)].step # "remove",
               NEW s \in Requests, Session(s)' = q
        PROVE  ~Waits(s)'
    BY <1>0, <1>s, ClosersDiffer, <1>a, <2>1 DEF Shape, Moved, Others, Closes, DeadInv, Waits,
        RequestInv
  <2>2. QED BY <2>1 DEF DeadInv
<1>14. RunningInv'
  <2>1. ASSUME NEW q \in Requests, q \notin stray', proc'[q].state = "running", proc'[q].id # Nobody
        PROVE  sessions'[proc'[q].id] = q \/ Step(q)' = "insert"
    BY <1>0, <1>s, ClosersDiffer, <1>a, <2>1 DEF Shape, Moved, Others, RunningInv, RequestInv
  <2>2. QED BY <2>1 DEF RunningInv
<1>15. ForgetInv'
  <2>1. \A s \in Requests, j \in Ids : Deletes(s, j)' =>
            /\ Deletes(s, j) /\ request'[s] = request[s]
            /\ closing'[Handler(s)] = closing[Handler(s)]
    BY <1>0, <1>s, ClosersDiffer, <1>a DEF Shape, Moved, Others, Closes, Deletes, RequestInv
  <2>2. \A j \in Ids : Resumes(j)' => Resumes(j)
    BY <1>0, <1>s, ClosersDiffer, <1>a DEF Shape, Moved, Others, Resumes, LockInv, RequestInv
  <2>3. QED BY <1>0, <1>k, <1>a, <2>1, <2>2, ForgetKeep
<1>16. QED BY <1>1, <1>2, <1>3, <1>4, <1>5, <1>6, <1>7, <1>8, <1>9, <1>10, <1>11, <1>12, <1>13,
    <1>14, <1>15 DEF IInv

\* The process starts.
LEMMA SpawnStep ==
  ASSUME IInv, NEW r \in Requests, Spawn(r)
  PROVE  IInv'
<1> USE StdioAssumption DEF Step, Kind, Id, Session, Opens, Talks
<1>0. /\ TypeOK /\ RequestInv /\ IdInv /\ LockInv /\ FreshInv
      /\ ProcInv /\ EntryInv /\ CloseInv /\ SlotsInv /\ AskedInv
      /\ WaitInv /\ AnswerInv /\ DeadInv /\ RunningInv /\ ForgetInv
  BY DEF IInv
<1>s. Shape
  BY <1>0, Shapes
<1> DEFINE step == IF Kind(r) = "oneshot" THEN "greet" ELSE "insert"
<1>a. /\ Step(r) = "spawn" /\ proc' \in [Requests -> ProcState]
      /\ proc'[r].id = Id(r) /\ proc'[r].state = "running" /\ proc'[r].reader = "reading"
      /\ \A q \in Requests : q # r => proc'[q] = proc[q]
      /\ step \in {"greet", "insert"} /\ (step = "greet" <=> Kind(r) = "oneshot")
      /\ Moved(r, step, r)
      /\ Greets(r)
      /\ UNCHANGED <<sessions, live, saved, resuming, asked, closing, troubles, cut,
                     lost, stray, ended, raced>>
  <2>1. UNCHANGED <<sessions, live, saved, resuming, asked, closing, troubles, cut,
                    lost, stray, ended, raced>>
    BY DEF Spawn, history
  <2>0. Step(r) = "spawn"
    BY DEF Spawn
  <2>2. [id |-> request[r].id, state |-> "running", reader |-> "reading"] \in ProcState
    BY <1>s DEF Shape, ProcState
  <2>3. /\ proc' \in [Requests -> ProcState]
        /\ proc'[r].id = Id(r) /\ proc'[r].state = "running" /\ proc'[r].reader = "reading"
        /\ \A q \in Requests : q # r => proc'[q] = proc[q]
    BY <1>0, <2>2 DEF Spawn, TypeOK
  <2>4. CASE Kind(r) = "oneshot"
    <3>1. /\ request' = [request EXCEPT ![r].proc = r, ![r].step = "greet"]
          /\ SetPending(r, Hello, r)
      BY <2>4 DEF Spawn, Slot
    <3>2. Moved(r, "greet", r) /\ Sets(r, Hello, r)
      BY <1>0, <3>1, MovesTo, PendingSets DEF RequestSteps
    <3>3. Greets(r)
      BY <1>s, <3>2, HelloGreets
    <3>4. QED BY <2>0, <2>1, <2>3, <2>4, <3>2, <3>3
  <2>5. CASE Kind(r) # "oneshot"
    <3>1. /\ request' = [request EXCEPT ![r].proc = r, ![r].step = "insert"]
          /\ pending' = pending
      BY <2>5 DEF Spawn, Slot
    <3>2. Moved(r, "insert", r)
      BY <1>0, <3>1, MovesTo DEF RequestSteps
    <3>3. Greets(r)
      BY <1>0, <3>1 DEF Greets, TypeOK
    <3>4. QED BY <2>0, <2>1, <2>3, <2>5, <3>2, <3>3
  <2>6. QED BY <2>4, <2>5
<1> HIDE DEF step
<1>k. \A j \in Ids : j \in Known => j \in Known'
  BY <1>0, <1>s, <1>a DEF Shape, Moved, Others, Known
<1>1. TypeOK'
  BY <1>0, <1>s, <1>a DEF Shape, Moved, Others, Greets, TypeOK
<1>2. RequestInv'
  BY <1>0, <1>s, <1>a DEF Shape, Moved, Others, RequestInv, Key
<1>3. IdInv'
  BY <1>0, <1>s, <1>a, <1>k DEF Shape, Moved, Others, IdInv, RequestInv
<1>4. LockInv'
  BY <1>0, <1>s, <1>a DEF Shape, Moved, Others, LockInv, RequestInv
<1>5. FreshInv'
  <2>1. ASSUME NEW q \in Requests, Step(q)' \in {"new", "queue", "reserve", "evicting", "spawn"}
        PROVE  proc'[q].state = "none"
    BY <1>0, <1>s, <1>a, <2>1 DEF Shape, Moved, Others, FreshInv, RequestInv, IdInv
  <2>2. ASSUME NEW q \in Requests, proc'[q].state = "none"
        PROVE  /\ proc'[q].id = Nobody /\ asked'[q] = {}
               /\ \A j \in Ids : sessions'[j] # q
    BY <1>0, <1>s, <1>a, <2>2 DEF Shape, Moved, Others, FreshInv, IdInv
  <2>3. ASSUME NEW q \in Requests, proc'[q].state = "none"
        PROVE  \A s \in Requests : request'[s].proc # q
    BY <1>0, <1>s, <1>a, <2>3 DEF Shape, Moved, Others, FreshInv, IdInv
  <2>4. ASSUME NEW q \in Requests, proc'[q].state = "none"
        PROVE  \A d \in Closers : closing'[d].proc # q
    BY <1>0, <1>s, <1>a, <2>4 DEF Shape, Moved, Others, FreshInv, RequestInv, IdInv
  <2>5. QED BY <2>1, <2>2, <2>3, <2>4 DEF FreshInv
<1>6. ProcInv'
  BY <1>0, <1>s, <1>a, <1>k DEF Shape, Moved, Others, ProcInv, IdInv, RequestInv
<1>7. EntryInv'
  <2>1. \A j \in Ids : sessions'[j] # Nobody => proc'[sessions'[j]].id = j
    BY <1>0, <1>s, <1>a, <1>k DEF Shape, Moved, Others, EntryInv, FreshInv
  <2>2. ASSUME NEW q \in Requests, Step(q)' \in Opens, Id(q)' # Nobody
        PROVE  sessions'[Id(q)'] = Nobody
    BY <1>0, <1>s, <1>a, <2>2, <1>k DEF Shape, Moved, Others, EntryInv, RequestInv, IdInv, FreshInv
  <2>3. ASSUME NEW q \in Requests, Step(q)' = "insert"
        PROVE  proc'[q].id = Id(q)' /\ \A j \in Ids : sessions'[j] # q
    BY <1>0, <1>s, <1>a, <2>3, <1>k DEF Shape, Moved, Others, EntryInv, FreshInv, RequestInv
  <2>4. ASSUME NEW q \in Requests, Kind(q)' = "delete", Step(q)' \in {"forget", "ending"}, Session(q)' # Nobody
        PROVE  proc'[Session(q)'].id = Id(q)'
    BY <1>0, <1>s, <1>a, <2>4, <1>k DEF Shape, Moved, Others, EntryInv, RequestInv, FreshInv
  <2>5. QED BY <2>1, <2>2, <2>3, <2>4 DEF EntryInv
<1>8. CloseInv'
  <2>1. ASSUME NEW d \in Closers
        PROVE  /\ closing'[d].step = "none" => closing'[d] = NoClose
               /\ closing'[d].step # "none" => closing'[d].proc # Nobody
               /\ closing'[d].removed => closing'[d].step = "terminate"
    BY <1>0, <1>s, <1>a, <2>1 DEF Shape, Moved, Others, CloseInv, RequestInv, FreshInv
  <2>2. ASSUME NEW q \in Requests
        PROVE  closing'[Handler(q)].step # "none" <=> Step(q)' \in {"evicting", "ending"}
    BY <1>0, <1>s, <1>a, <2>2 DEF Shape, Moved, Others, CloseInv, FreshInv
  <2>3. ASSUME NEW q \in Requests, Step(q)' = "ending"
        PROVE  closing'[Handler(q)].proc = Session(q)'
    BY <1>0, <1>s, <1>a, <2>3 DEF Shape, Moved, Others, CloseInv, RequestInv, FreshInv
  <2>4. ASSUME NEW q \in Requests
        PROVE  /\ closing'[Reader(q)].proc \in {q, Nobody}
               /\ proc'[q].reader \in {"none", "reading"} => closing'[Reader(q)].step = "none"
    BY <1>0, <1>s, <1>a, <2>4 DEF Shape, Moved, Others, CloseInv, FreshInv, ProcInv
  <2>5. QED BY <2>1, <2>2, <2>3, <2>4 DEF CloseInv
<1>9. SlotsInv'
  <2>1. \A d \in Closers : closing'[d].removed <=> closing[d].removed
    BY <1>0, <1>s, <1>a DEF Shape, Removing
  <2>2. \A s \in Requests : s \in Opening' <=> s \in Opening
    BY <1>0, <1>s, <1>a DEF Shape, Moved, Others, Opening, Slot, RequestInv
  <2>3. QED BY <1>0, <1>1, <1>a, <2>1, <2>2, SlotsKeep
<1>10. AskedInv'
  BY <1>0, <1>s, <1>a DEF Shape, Moved, Others, AskedInv, RequestInv, Key
<1>11. WaitInv'
  <2>1. ASSUME NEW s \in Requests, request'[s].step \in {"write", "await"},
               request'[s].answer = Nobody, s \notin cut'
        PROVE  pending'[request'[s].proc][request'[s].key] = s
    <3>1. s # r /\ request'[s] = request[s] /\ Step(s) \in {"write", "await"}
      BY <1>0, <1>s, <1>a, <2>1 DEF Moved, Others
    <3>2. Session(s) \in Requests /\ Key(s) \in Keys /\ pending[Session(s)][Key(s)] = s
      BY <1>0, <1>s, <1>a, <2>1, <3>1 DEF Shape, WaitInv, RequestInv, Key
    <3>3. QED BY <1>a, <3>1, <3>2 DEF Greets, Key
  <2>2. ASSUME NEW q \in Requests, NEW j \in Keys \union {Hello}, pending'[q][j] # Nobody
        PROVE  request'[pending'[q][j]].step # "new"
    <3>1. pending'[q][j] \in {pending[q][j], r}
      BY <1>a, <2>2 DEF Greets
    <3>2. request'[r].step # "new"
      BY <1>a DEF Moved
    <3>3. QED BY <1>0, <1>s, <1>a, <2>2, <3>1, <3>2 DEF Shape, Moved, Others, WaitInv
  <2>3. QED BY <2>1, <2>2 DEF WaitInv, Key
<1>12. AnswerInv'
  <2>1. ASSUME NEW q \in Requests, request'[q].answer # Nobody
        PROVE  request'[q].answer = request[q].answer /\ request[q].answer \in Requests
    BY <1>0, <1>s, <1>a, <2>1 DEF Shape, Moved, Others, RequestInv
  <2>2. ASSUME NEW s \in Requests, Step(s) \in {"await", "ending", "done"}
        PROVE  /\ Step(s)' \in {"await", "ending", "done"}
               /\ Waits(s)' => Waits(s)
    BY <1>0, <1>s, <1>a, <2>2 DEF Shape, Moved, Others, Waits, RequestInv
  <2>3. QED BY <2>1, <2>2, <1>0 DEF AnswerInv
<1>13. DeadInv'
  <2>1. ASSUME NEW q \in Requests, proc'[q].reader = "ended", closing'[Reader(q)].step # "remove",
               NEW s \in Requests, Session(s)' = q
        PROVE  ~Waits(s)'
    BY <1>0, <1>s, <1>a, <2>1 DEF Shape, Moved, Others, DeadInv, Waits, RequestInv
  <2>2. QED BY <2>1 DEF DeadInv
<1>14. RunningInv'
  <2>1. ASSUME NEW q \in Requests, q \notin stray', proc'[q].state = "running", proc'[q].id # Nobody
        PROVE  sessions'[proc'[q].id] = q \/ Step(q)' = "insert"
    BY <1>0, <1>s, <1>a, <2>1 DEF Shape, Moved, Others, RunningInv, RequestInv, IdInv
  <2>2. QED BY <2>1 DEF RunningInv
<1>15. ForgetInv'
  <2>1. \A s \in Requests, j \in Ids : Deletes(s, j)' =>
            /\ Deletes(s, j) /\ request'[s] = request[s]
            /\ closing'[Handler(s)] = closing[Handler(s)]
    BY <1>0, <1>s, <1>a DEF Shape, Moved, Others, Deletes, RequestInv
  <2>2. \A j \in Ids : Resumes(j)' => Resumes(j)
    BY <1>0, <1>s, <1>a DEF Shape, Moved, Others, Resumes, LockInv, RequestInv
  <2>3. QED BY <1>0, <1>k, <1>a, <2>1, <2>2, ForgetKeep
<1>16. QED BY <1>1, <1>2, <1>3, <1>4, <1>5, <1>6, <1>7, <1>8, <1>9, <1>10, <1>11, <1>12, <1>13,
    <1>14, <1>15 DEF IInv

\* It does not.
LEMMA SpawnFailsStep ==
  ASSUME IInv, NEW r \in Requests, SpawnFails(r)
  PROVE  IInv'
<1> USE StdioAssumption DEF Step, Kind, Id, Session, Opens, Talks
<1>0. /\ TypeOK /\ RequestInv /\ IdInv /\ LockInv /\ FreshInv
      /\ ProcInv /\ EntryInv /\ CloseInv /\ SlotsInv /\ AskedInv
      /\ WaitInv /\ AnswerInv /\ DeadInv /\ RunningInv /\ ForgetInv
  BY DEF IInv
<1>s. Shape
  BY <1>0, Shapes
<1>a. /\ Step(r) = "spawn" /\ troubles < MaxTroubles /\ troubles' = troubles + 1
      /\ live' = live - Slot(r)
      /\ \E kind \in {"initialize", "call"} :
            Blanked(r, kind) /\ (kind = "initialize" => Kind(r) = "initialize")
      /\ Unlock(r)
      /\ UNCHANGED <<sessions, saved, proc, pending, asked, closing, cut, lost, stray,
                     ended, raced>>
  BY <1>0, FinishBlanks DEF SpawnFails, Trouble, history
<1>k. \A j \in Ids : j \in Known => j \in Known'
  BY <1>0, <1>s, <1>a DEF Shape, Blanked, Others, Known
<1>1. TypeOK'
  <2>1. troubles' \in 0..MaxTroubles
    BY <1>0, <1>a DEF TypeOK
  <2>2. live' \in 0..MaxSessions
    <3>1. CASE Slot(r) = 1
      <4>1. r \in Opening
        BY <1>a, <3>1 DEF Opening
      <4>2. Cardinality(Opening) # 0
        BY <1>0, <4>1, FS_EmptySet DEF SlotsInv
      <4>3. live > 0
        BY <1>0, <4>2, FS_CardinalityType DEF SlotsInv, TypeOK
      <4>4. QED BY <1>0, <1>a, <3>1, <4>3 DEF TypeOK
    <3>2. CASE Slot(r) = 0
      BY <1>0, <1>a, <3>2 DEF TypeOK
    <3>3. QED BY <3>1, <3>2 DEF Slot
  <2>3. QED BY <1>0, <1>s, <1>a, <2>1, <2>2 DEF Shape, Blanked, Others, Unlock, TypeOK
<1>2. RequestInv'
  BY <1>0, <1>s, <1>a DEF Shape, Blanked, Others, RequestInv, Key
<1>3. IdInv'
  BY <1>0, <1>s, <1>a, <1>k DEF Shape, Blanked, Others, IdInv, RequestInv
<1>4. LockInv'
  BY <1>0, <1>s, <1>a DEF Shape, Blanked, Others, Unlock, LockInv, RequestInv
<1>5. FreshInv'
  BY <1>0, <1>s, <1>a DEF Shape, Blanked, Others, FreshInv, RequestInv
<1>6. ProcInv'
  BY <1>0, <1>s, <1>a, <1>k DEF Shape, Blanked, Others, ProcInv
<1>7. EntryInv'
  BY <1>0, <1>s, <1>a, <1>k DEF Shape, Blanked, Others, EntryInv, RequestInv, IdInv
<1>8. CloseInv'
  BY <1>0, <1>s, <1>a DEF Shape, Blanked, Others, CloseInv, RequestInv
<1>9. SlotsInv'
  <2>1. Mapped' = Mapped /\ Removing' = Removing
    BY <1>a DEF Mapped, Removing
  <2>2. Opening' = Opening \ {r} /\ (r \in Opening <=> Slot(r) = 1)
    BY <1>0, <1>s, <1>a DEF Shape, Opening, Slot, Blanked, Others
  <2>3. /\ IsFiniteSet(Opening')
        /\ Cardinality(Opening') = IF r \in Opening THEN Cardinality(Opening) - 1 ELSE Cardinality(Opening)
    BY <1>0, <2>2, FS_RemoveElement DEF SlotsInv
  <2>4. Slot(r) \in {0, 1}
    BY DEF Slot
  <2>5. QED BY <1>0, <1>a, <2>1, <2>2, <2>3, <2>4, FS_CardinalityType DEF SlotsInv, TypeOK
<1>10. AskedInv'
  BY <1>0, <1>s, <1>a DEF Shape, Blanked, Others, AskedInv, RequestInv, Key
<1>11. WaitInv'
  <2>1. ASSUME NEW s \in Requests, request'[s].step \in {"write", "await"},
               request'[s].answer = Nobody, s \notin cut'
        PROVE  pending'[request'[s].proc][request'[s].key] = s
    BY <1>0, <1>s, <1>a, <2>1 DEF Shape, Blanked, Others, WaitInv, RequestInv, Key
  <2>2. ASSUME NEW q \in Requests, NEW j \in Keys \union {Hello}, pending'[q][j] # Nobody
        PROVE  request'[pending'[q][j]].step # "new"
    BY <1>0, <1>s, <1>a, <2>2 DEF Shape, Blanked, Others, WaitInv, RequestInv
  <2>3. QED BY <2>1, <2>2 DEF WaitInv, Key
<1>12. AnswerInv'
  BY <1>0, <1>s, <1>a DEF Shape, Blanked, Others, AnswerInv, Waits, RequestInv
<1>13. DeadInv'
  <2>1. ASSUME NEW q \in Requests, proc'[q].reader = "ended", closing'[Reader(q)].step # "remove",
               NEW s \in Requests, Session(s)' = q
        PROVE  ~Waits(s)'
    BY <1>0, <1>s, <1>a, <2>1 DEF Shape, Blanked, Others, DeadInv, Waits, RequestInv
  <2>2. QED BY <2>1 DEF DeadInv
<1>14. RunningInv'
  <2>1. ASSUME NEW q \in Requests, q \notin stray', proc'[q].state = "running", proc'[q].id # Nobody
        PROVE  sessions'[proc'[q].id] = q \/ Step(q)' = "insert"
    BY <1>0, <1>s, <1>a, <2>1 DEF Shape, Blanked, Others, RunningInv, RequestInv
  <2>2. QED BY <2>1 DEF RunningInv
<1>15. ForgetInv'
  <2>1. \A s \in Requests, j \in Ids : Deletes(s, j)' =>
            /\ Deletes(s, j) /\ request'[s] = request[s]
            /\ closing'[Handler(s)] = closing[Handler(s)]
    BY <1>0, <1>s, <1>a DEF Shape, Blanked, Others, Deletes, RequestInv
  <2>2. \A j \in Ids : Resumes(j)' => Resumes(j)
    BY <1>0, <1>s, <1>a DEF Shape, Blanked, Others, Unlock, Resumes, LockInv, RequestInv
  <2>3. QED BY <1>0, <1>k, <1>a, <2>1, <2>2, ForgetKeep
<1>16. QED BY <1>1, <1>2, <1>3, <1>4, <1>5, <1>6, <1>7, <1>8, <1>9, <1>10, <1>11, <1>12, <1>13,
    <1>14, <1>15 DEF IInv

\* It gets its entry.
LEMMA InsertStep ==
  ASSUME IInv, NEW r \in Requests, Insert(r)
  PROVE  IInv'
<1> USE StdioAssumption DEF Step, Kind, Id, Session, Opens, Talks
<1>0. /\ TypeOK /\ RequestInv /\ IdInv /\ LockInv /\ FreshInv
      /\ ProcInv /\ EntryInv /\ CloseInv /\ SlotsInv /\ AskedInv
      /\ WaitInv /\ AnswerInv /\ DeadInv /\ RunningInv /\ ForgetInv
  BY DEF IInv
<1>s. Shape
  BY <1>0, Shapes
<1> DEFINE step == IF Id(r) = r THEN "send" ELSE "greet"
<1>a. /\ Step(r) = "insert" /\ Id(r) \in Ids /\ Session(r) = r
      /\ sessions' \in [Ids -> Requests \union {Nobody}]
      /\ sessions'[Id(r)] = r /\ \A i \in Ids : i # Id(r) => sessions'[i] = sessions[i]
      /\ saved' \in SUBSET Ids /\ \A i \in Ids : i \in saved' => i \in saved \/ (i = r /\ Id(r) = r)
      /\ step \in {"send", "greet"} /\ (step = "send" <=> Id(r) = r)
      /\ Moved(r, step, r)
      /\ Greets(r)
      /\ UNCHANGED <<live, resuming, proc, asked, closing, troubles, cut, lost, stray,
                     ended, raced>>
  <2>1. Step(r) = "insert" /\ UNCHANGED <<live, resuming, proc, asked, closing, troubles, cut, lost, stray,
                                          ended, raced>>
    BY DEF Insert, history
  <2>2. Id(r) \in Ids /\ Session(r) = r
    BY <1>0, <1>s, <2>1 DEF Shape, RequestInv, IdInv
  <2>3. /\ sessions' \in [Ids -> Requests \union {Nobody}]
        /\ sessions'[Id(r)] = r /\ \A i \in Ids : i # Id(r) => sessions'[i] = sessions[i]
    BY <1>0, <2>2 DEF Insert, TypeOK
  <2>4. saved' \in SUBSET Ids /\ \A i \in Ids : i \in saved' => i \in saved \/ (i = r /\ Id(r) = r)
    BY <1>0, <2>2 DEF Insert, TypeOK
  <2>5. CASE Id(r) = r
    <3>1. Moved(r, "send", r) /\ pending' = pending
      BY <1>0, <2>2, <2>5, GoMoves DEF Insert, RequestSteps
    <3>2. Greets(r)
      BY <1>0, <3>1 DEF Greets, TypeOK
    <3>3. QED BY <2>1, <2>2, <2>3, <2>4, <2>5, <3>1, <3>2
  <2>6. CASE Id(r) # r
    <3>1. Moved(r, "greet", r) /\ Sets(r, Hello, r)
      BY <1>0, <2>2, <2>6, GoMoves, PendingSets DEF Insert, RequestSteps
    <3>2. Greets(r)
      BY <1>s, <3>1, HelloGreets
    <3>3. QED BY <2>1, <2>2, <2>3, <2>4, <2>6, <3>1, <3>2
  <2>7. QED BY <2>5, <2>6
<1> HIDE DEF step
<1>b. \/ Kind(r) = "call" /\ resuming = r /\ Id(r) # r
      \/ Kind(r) = "initialize" /\ Id(r) = r
  <2>1. Step(r) \in Opens /\ Kind(r) \in {"initialize", "call"}
    BY <1>0, <1>a DEF RequestInv
  <2>2. r \notin Known
    BY <1>s, <1>a DEF Shape
  <2>3. QED BY <1>0, <1>a, <2>1, <2>2 DEF IdInv, LockInv
<1>d. ~Forgotten(Id(r)) \/ Id(r) \in raced
  <2>1. CASE Kind(r) = "call" /\ resuming = r
    BY <1>0, <1>s, <1>a, <2>1 DEF ForgetInv, Resumes, Shape
  <2>2. CASE Kind(r) = "initialize" /\ Id(r) = r
    <3>1. r \notin Known
      BY <1>s, <1>a DEF Shape
    <3>2. QED BY <1>0, <1>a, <2>2, <3>1 DEF ForgetInv
  <2>3. QED BY <1>b, <2>1, <2>2
<1>k. \A j \in Ids : j \in Known => j \in Known'
  BY <1>0, <1>s, <1>a DEF Shape, Moved, Others, Known
<1>1. TypeOK'
  BY <1>0, <1>s, <1>a DEF Shape, Moved, Others, Greets, TypeOK
<1>2. RequestInv'
  BY <1>0, <1>s, <1>a, <1>b DEF Shape, Moved, Others, RequestInv, Key
<1>3. IdInv'
  BY <1>0, <1>s, <1>a, <1>k DEF Shape, Moved, Others, IdInv, RequestInv
<1>4. LockInv'
  BY <1>0, <1>s, <1>a, <1>b DEF Shape, Moved, Others, LockInv, RequestInv
<1>5. FreshInv'
  <2>1. ASSUME NEW q \in Requests, Step(q)' \in {"new", "queue", "reserve", "evicting", "spawn"}
        PROVE  proc'[q].state = "none"
    BY <1>0, <1>s, <1>a, <2>1 DEF Shape, Moved, Others, FreshInv, RequestInv
  <2>2. ASSUME NEW q \in Requests, proc'[q].state = "none"
        PROVE  /\ proc'[q].id = Nobody /\ asked'[q] = {}
               /\ \A j \in Ids : sessions'[j] # q
    BY <1>0, <1>s, <1>a, <2>2 DEF Shape, Moved, Others, FreshInv
  <2>3. ASSUME NEW q \in Requests, proc'[q].state = "none"
        PROVE  \A s \in Requests : request'[s].proc # q
    BY <1>0, <1>s, <1>a, <2>3 DEF Shape, Moved, Others, FreshInv
  <2>4. ASSUME NEW q \in Requests, proc'[q].state = "none"
        PROVE  \A d \in Closers : closing'[d].proc # q
    BY <1>0, <1>s, <1>a, <2>4 DEF Shape, Moved, Others, FreshInv, RequestInv
  <2>5. QED BY <2>1, <2>2, <2>3, <2>4 DEF FreshInv
<1>6. ProcInv'
  BY <1>0, <1>s, <1>a, <1>k DEF Shape, Moved, Others, ProcInv
<1>7. EntryInv'
  <2>1. \A j \in Ids : sessions'[j] # Nobody => proc'[sessions'[j]].id = j
    BY <1>0, <1>s, <1>a DEF EntryInv
  <2>2. ASSUME NEW q \in Requests, Step(q)' \in Opens, Id(q)' # Nobody
        PROVE  sessions'[Id(q)'] = Nobody
    <3>1. q # r /\ Step(q) \in Opens /\ Id(q) # Nobody /\ Id(q)' = Id(q)
      BY <1>a, <2>2 DEF Moved, Others
    <3>2. Step(q) \notin {"new", "done"} /\ Kind(q) \in {"initialize", "call"} /\ q \notin Known /\ r \notin Known
      BY <1>0, <1>s, <1>a, <3>1 DEF Shape, RequestInv, IdInv
    <3>3. Id(q) # Id(r)
      BY <1>0, <1>a, <1>b, <3>1, <3>2 DEF IdInv, LockInv
    <3>4. sessions[Id(q)] = Nobody /\ Id(q) \in Ids
      BY <1>0, <1>s, <3>1 DEF EntryInv, Shape
    <3>5. QED BY <1>a, <3>1, <3>3, <3>4
  <2>3. ASSUME NEW q \in Requests, Step(q)' = "insert"
        PROVE  proc'[q].id = Id(q)' /\ \A j \in Ids : sessions'[j] # q
    <3>1. q # r /\ Step(q) = "insert" /\ Id(q)' = Id(q)
      BY <1>a, <2>3 DEF Moved, Others
    <3>2. QED BY <1>0, <1>a, <3>1 DEF EntryInv
  <2>4. ASSUME NEW q \in Requests, Kind(q)' = "delete", Step(q)' \in {"forget", "ending"}, Session(q)' # Nobody
        PROVE  proc'[Session(q)'].id = Id(q)'
    BY <1>0, <1>s, <1>a, <2>4 DEF Moved, Others, EntryInv
  <2>5. QED BY <2>1, <2>2, <2>3, <2>4 DEF EntryInv
<1>8. CloseInv'
  <2>1. ASSUME NEW d \in Closers
        PROVE  /\ closing'[d].step = "none" => closing'[d] = NoClose
               /\ closing'[d].step # "none" => closing'[d].proc # Nobody
               /\ closing'[d].removed => closing'[d].step = "terminate"
    BY <1>0, <1>s, <1>a, <2>1 DEF Shape, Moved, Others, CloseInv, RequestInv
  <2>2. ASSUME NEW q \in Requests
        PROVE  closing'[Handler(q)].step # "none" <=> Step(q)' \in {"evicting", "ending"}
    BY <1>0, <1>s, <1>a, <2>2 DEF Shape, Moved, Others, CloseInv
  <2>3. ASSUME NEW q \in Requests, Step(q)' = "ending"
        PROVE  closing'[Handler(q)].proc = Session(q)'
    BY <1>0, <1>s, <1>a, <2>3 DEF Shape, Moved, Others, CloseInv, RequestInv
  <2>4. ASSUME NEW q \in Requests
        PROVE  /\ closing'[Reader(q)].proc \in {q, Nobody}
               /\ proc'[q].reader \in {"none", "reading"} => closing'[Reader(q)].step = "none"
    BY <1>0, <1>s, <1>a, <2>4 DEF Shape, Moved, Others, CloseInv, FreshInv, ProcInv
  <2>5. QED BY <2>1, <2>2, <2>3, <2>4 DEF CloseInv
<1>9. SlotsInv'
  <2>1. sessions[Id(r)] = Nobody /\ r \notin Mapped
    BY <1>0, <1>s, <1>a DEF Shape, EntryInv, Mapped
  <2>2. Mapped' = Mapped \union {r}
    <3>1. \A q \in Requests : q \in Mapped' <=> q \in Mapped \/ q = r
      BY <1>s, <1>a, <2>1 DEF Shape, Mapped
    <3>2. Mapped \subseteq Requests /\ Mapped' \subseteq Requests
      BY <1>s, <1>a DEF Shape, Mapped
    <3>3. QED BY <3>1, <3>2
  <2>3. Opening' = Opening \ {r} /\ r \in Opening
    BY <1>0, <1>s, <1>a DEF Shape, Opening, Slot, RequestInv, Moved, Others
  <2>4. IsFiniteSet(Mapped') /\ Cardinality(Mapped') = Cardinality(Mapped) + 1
    BY <1>0, <2>1, <2>2, FS_AddElement DEF SlotsInv
  <2>5. IsFiniteSet(Opening') /\ Cardinality(Opening') = Cardinality(Opening) - 1
    BY <1>0, <2>3, FS_RemoveElement DEF SlotsInv
  <2>6. Removing' = Removing
    BY <1>a DEF Removing
  <2>7. QED BY <1>0, <1>a, <2>4, <2>5, <2>6, FS_CardinalityType DEF SlotsInv, TypeOK
<1>10. AskedInv'
  BY <1>0, <1>s, <1>a DEF Shape, Moved, Others, AskedInv, RequestInv, Key
<1>11. WaitInv'
  <2>1. ASSUME NEW s \in Requests, request'[s].step \in {"write", "await"},
               request'[s].answer = Nobody, s \notin cut'
        PROVE  pending'[request'[s].proc][request'[s].key] = s
    <3>1. s # r /\ request'[s] = request[s] /\ Step(s) \in {"write", "await"}
      BY <1>0, <1>s, <1>a, <2>1 DEF Moved, Others
    <3>2. Session(s) \in Requests /\ Key(s) \in Keys /\ pending[Session(s)][Key(s)] = s
      BY <1>0, <1>s, <1>a, <2>1, <3>1 DEF Shape, WaitInv, RequestInv, Key
    <3>3. QED BY <1>a, <3>1, <3>2 DEF Greets, Key
  <2>2. ASSUME NEW q \in Requests, NEW j \in Keys \union {Hello}, pending'[q][j] # Nobody
        PROVE  request'[pending'[q][j]].step # "new"
    <3>1. pending'[q][j] \in {pending[q][j], r}
      BY <1>a, <2>2 DEF Greets
    <3>2. request'[r].step # "new"
      BY <1>a DEF Moved
    <3>3. QED BY <1>0, <1>s, <1>a, <2>2, <3>1, <3>2 DEF Shape, Moved, Others, WaitInv
  <2>3. QED BY <2>1, <2>2 DEF WaitInv, Key
<1>12. AnswerInv'
  <2>1. ASSUME NEW q \in Requests, request'[q].answer # Nobody
        PROVE  request'[q].answer = request[q].answer /\ request[q].answer \in Requests
    BY <1>0, <1>s, <1>a, <2>1 DEF Shape, Moved, Others, RequestInv
  <2>2. ASSUME NEW s \in Requests, Step(s) \in {"await", "ending", "done"}
        PROVE  /\ Step(s)' \in {"await", "ending", "done"}
               /\ Waits(s)' => Waits(s)
    BY <1>0, <1>s, <1>a, <2>2 DEF Shape, Moved, Others, Waits, RequestInv
  <2>3. QED BY <2>1, <2>2, <1>0 DEF AnswerInv
<1>13. DeadInv'
  <2>1. ASSUME NEW q \in Requests, proc'[q].reader = "ended", closing'[Reader(q)].step # "remove",
               NEW s \in Requests, Session(s)' = q
        PROVE  ~Waits(s)'
    BY <1>0, <1>s, <1>a, <2>1 DEF Shape, Moved, Others, DeadInv, Waits, RequestInv
  <2>2. QED BY <2>1 DEF DeadInv
<1>14. RunningInv'
  <2>1. ASSUME NEW q \in Requests, q \notin stray', proc'[q].state = "running", proc'[q].id # Nobody
        PROVE  sessions'[proc'[q].id] = q \/ Step(q)' = "insert"
    BY <1>0, <1>s, <1>a, <2>1 DEF Shape, Moved, Others, RunningInv, RequestInv, EntryInv
  <2>2. QED BY <2>1 DEF RunningInv
<1>15. ForgetInv'
  <2>1. \A s \in Requests, j \in Ids : Deletes(s, j)' =>
            /\ Deletes(s, j) /\ request'[s] = request[s]
            /\ closing'[Handler(s)] = closing[Handler(s)]
    BY <1>0, <1>s, <1>a DEF Shape, Moved, Others, Deletes, RequestInv
  <2>2. \A i \in Ids : Forgotten(i)' => Forgotten(i)
    BY <1>0, <1>s, <1>a, <2>1 DEF Forgotten
  <2>3. \A j \in Ids : Resumes(j)' => Resumes(j)
    BY <1>0, <1>s, <1>a DEF Shape, Moved, Others, Resumes
  <2>4. \A i \in Ids : Forgotten(i) => i \notin saved'
    <3>1. r \notin Known
      BY <1>s, <1>a DEF Shape
    <3>2. QED BY <1>0, <1>a, <3>1 DEF ForgetInv
  <2>5. \A i \in Ids \ raced : Forgotten(i) => sessions'[i] = sessions[i]
    BY <1>a, <1>d
  <2>6. \A i \in Ids : Forgotten(i)' => i \in Known' \ saved'
    BY <1>0, <1>k, <2>2, <2>4 DEF ForgetInv
  <2>7. \A i \in Ids \ raced' : Forgotten(i)' => ~Resumes(i)'
    BY <1>0, <1>a, <2>2, <2>3 DEF ForgetInv
  <2>8. \A i \in ended' \ raced' : sessions'[i] = Nobody
    <3>1. ended \subseteq Ids
      BY <1>0 DEF TypeOK
    <3>2. QED BY <1>0, <1>a, <2>5, <3>1 DEF ForgetInv, Forgotten
  <2>9. \A s \in Requests, i \in Ids \ raced' : Deletes(s, i)' =>
            /\ sessions'[i] \in {Nobody, Session(s)'}
            /\ closing'[Handler(s)].step = "terminate" => sessions'[i] = Nobody
    BY <1>0, <1>a, <2>1, <2>5 DEF ForgetInv, Forgotten
  <2>10. QED BY <2>6, <2>7, <2>8, <2>9 DEF ForgetInv
<1>16. QED BY <1>1, <1>2, <1>3, <1>4, <1>5, <1>6, <1>7, <1>8, <1>9, <1>10, <1>11, <1>12, <1>13,
    <1>14, <1>15 DEF IInv

\* It is greeted.
LEMMA GreetedStep ==
  ASSUME IInv, NEW r \in Requests, Greeted(r)
  PROVE  IInv'
<1> USE StdioAssumption DEF Step, Kind, Id, Session, Opens, Talks
<1>0. /\ TypeOK /\ RequestInv /\ IdInv /\ LockInv /\ FreshInv
      /\ ProcInv /\ EntryInv /\ CloseInv /\ SlotsInv /\ AskedInv
      /\ WaitInv /\ AnswerInv /\ DeadInv /\ RunningInv /\ ForgetInv
  BY DEF IInv
<1>s. Shape
  BY <1>0, Shapes
<1>a. /\ Step(r) = "greet" /\ Session(r) = r /\ Moved(r, "send", r) /\ Unlock(r)
      /\ Greets(r)
      /\ UNCHANGED <<sessions, live, saved, proc, asked, closing, troubles, cut, lost,
                     stray, ended, raced>>
  <2>1. UNCHANGED <<sessions, live, saved, proc, asked, closing, troubles, cut, lost,
                    stray, ended, raced>>
    BY DEF Greeted, history
  <2>2. Step(r) = "greet" /\ Session(r) = r /\ Unlock(r)
    BY <1>0 DEF Greeted, RequestInv
  <2>3. Moved(r, "send", r) /\ Sets(r, Hello, Nobody)
    BY <1>0, <2>2, GoMoves, PendingSets DEF Greeted, RequestSteps
  <2>4. Greets(r)
    BY <1>s, <2>3, HelloGreets
  <2>5. QED BY <2>1, <2>2, <2>3, <2>4
<1>k. \A j \in Ids : j \in Known => j \in Known'
  BY <1>0, <1>s, <1>a DEF Shape, Moved, Others, Known
<1>1. TypeOK'
  BY <1>0, <1>s, <1>a DEF Shape, Moved, Others, Greets, Unlock, TypeOK
<1>2. RequestInv'
  BY <1>0, <1>s, <1>a DEF Shape, Moved, Others, RequestInv, Key
<1>3. IdInv'
  BY <1>0, <1>s, <1>a, <1>k DEF Shape, Moved, Others, IdInv, RequestInv
<1>4. LockInv'
  BY <1>0, <1>s, <1>a DEF Shape, Moved, Others, Unlock, LockInv, RequestInv
<1>5. FreshInv'
  <2>1. ASSUME NEW q \in Requests, Step(q)' \in {"new", "queue", "reserve", "evicting", "spawn"}
        PROVE  proc'[q].state = "none"
    BY <1>0, <1>s, <1>a, <2>1 DEF Shape, Moved, Others, FreshInv, RequestInv
  <2>2. ASSUME NEW q \in Requests, proc'[q].state = "none"
        PROVE  /\ proc'[q].id = Nobody /\ asked'[q] = {}
               /\ \A j \in Ids : sessions'[j] # q
    BY <1>0, <1>s, <1>a, <2>2 DEF Shape, Moved, Others, FreshInv
  <2>3. ASSUME NEW q \in Requests, proc'[q].state = "none"
        PROVE  \A s \in Requests : request'[s].proc # q
    BY <1>0, <1>s, <1>a, <2>3 DEF Shape, Moved, Others, FreshInv
  <2>4. ASSUME NEW q \in Requests, proc'[q].state = "none"
        PROVE  \A d \in Closers : closing'[d].proc # q
    BY <1>0, <1>s, <1>a, <2>4 DEF Shape, Moved, Others, FreshInv, RequestInv
  <2>5. QED BY <2>1, <2>2, <2>3, <2>4 DEF FreshInv
<1>6. ProcInv'
  BY <1>0, <1>s, <1>a, <1>k DEF Shape, Moved, Others, ProcInv
<1>7. EntryInv'
  BY <1>0, <1>s, <1>a, <1>k DEF Shape, Moved, Others, EntryInv, RequestInv, IdInv
<1>8. CloseInv'
  BY <1>0, <1>s, <1>a DEF Shape, Moved, Others, CloseInv, RequestInv
<1>9. SlotsInv'
  <2>1. \A d \in Closers : closing'[d].removed <=> closing[d].removed
    BY <1>0, <1>s, <1>a DEF Shape, Removing
  <2>2. \A s \in Requests : s \in Opening' <=> s \in Opening
    BY <1>0, <1>s, <1>a DEF Shape, Moved, Others, Opening, Slot, RequestInv
  <2>3. QED BY <1>0, <1>1, <1>a, <2>1, <2>2, SlotsKeep
<1>10. AskedInv'
  BY <1>0, <1>s, <1>a DEF Shape, Moved, Others, AskedInv, RequestInv, Key
<1>11. WaitInv'
  <2>1. ASSUME NEW s \in Requests, request'[s].step \in {"write", "await"},
               request'[s].answer = Nobody, s \notin cut'
        PROVE  pending'[request'[s].proc][request'[s].key] = s
    <3>1. s # r /\ request'[s] = request[s] /\ Step(s) \in {"write", "await"}
      BY <1>0, <1>s, <1>a, <2>1 DEF Moved, Others
    <3>2. Session(s) \in Requests /\ Key(s) \in Keys /\ pending[Session(s)][Key(s)] = s
      BY <1>0, <1>s, <1>a, <2>1, <3>1 DEF Shape, WaitInv, RequestInv, Key
    <3>3. QED BY <1>a, <3>1, <3>2 DEF Greets, Key
  <2>2. ASSUME NEW q \in Requests, NEW j \in Keys \union {Hello}, pending'[q][j] # Nobody
        PROVE  request'[pending'[q][j]].step # "new"
    <3>1. pending'[q][j] \in {pending[q][j], r}
      BY <1>a, <2>2 DEF Greets
    <3>2. request'[r].step # "new"
      BY <1>a DEF Moved
    <3>3. QED BY <1>0, <1>s, <1>a, <2>2, <3>1, <3>2 DEF Shape, Moved, Others, WaitInv
  <2>3. QED BY <2>1, <2>2 DEF WaitInv, Key
<1>12. AnswerInv'
  <2>1. ASSUME NEW q \in Requests, request'[q].answer # Nobody
        PROVE  request'[q].answer = request[q].answer /\ request[q].answer \in Requests
    BY <1>0, <1>s, <1>a, <2>1 DEF Shape, Moved, Others, RequestInv
  <2>2. ASSUME NEW s \in Requests, Step(s) \in {"await", "ending", "done"}
        PROVE  /\ Step(s)' \in {"await", "ending", "done"}
               /\ Waits(s)' => Waits(s)
    BY <1>0, <1>s, <1>a, <2>2 DEF Shape, Moved, Others, Waits, RequestInv
  <2>3. QED BY <2>1, <2>2, <1>0 DEF AnswerInv
<1>13. DeadInv'
  <2>1. ASSUME NEW q \in Requests, proc'[q].reader = "ended", closing'[Reader(q)].step # "remove",
               NEW s \in Requests, Session(s)' = q
        PROVE  ~Waits(s)'
    BY <1>0, <1>s, <1>a, <2>1 DEF Shape, Moved, Others, DeadInv, Waits, RequestInv
  <2>2. QED BY <2>1 DEF DeadInv
<1>14. RunningInv'
  <2>1. ASSUME NEW q \in Requests, q \notin stray', proc'[q].state = "running", proc'[q].id # Nobody
        PROVE  sessions'[proc'[q].id] = q \/ Step(q)' = "insert"
    BY <1>0, <1>s, <1>a, <2>1 DEF Shape, Moved, Others, RunningInv, RequestInv
  <2>2. QED BY <2>1 DEF RunningInv
<1>15. ForgetInv'
  <2>1. \A s \in Requests, j \in Ids : Deletes(s, j)' =>
            /\ Deletes(s, j) /\ request'[s] = request[s]
            /\ closing'[Handler(s)] = closing[Handler(s)]
    BY <1>0, <1>s, <1>a DEF Shape, Moved, Others, Deletes, RequestInv
  <2>2. \A j \in Ids : Resumes(j)' => Resumes(j)
    BY <1>0, <1>s, <1>a DEF Shape, Moved, Others, Unlock, Resumes, LockInv, RequestInv
  <2>3. QED BY <1>0, <1>k, <1>a, <2>1, <2>2, ForgetKeep
<1>16. QED BY <1>1, <1>2, <1>3, <1>4, <1>5, <1>6, <1>7, <1>8, <1>9, <1>10, <1>11, <1>12, <1>13,
    <1>14, <1>15 DEF IInv

\* It does not answer the greeting.
LEMMA GreetFailsStep ==
  ASSUME IInv, NEW r \in Requests, GreetFails(r)
  PROVE  IInv'
<1> USE StdioAssumption DEF Step, Kind, Id, Session, Opens, Talks
<1>0. /\ TypeOK /\ RequestInv /\ IdInv /\ LockInv /\ FreshInv
      /\ ProcInv /\ EntryInv /\ CloseInv /\ SlotsInv /\ AskedInv
      /\ WaitInv /\ AnswerInv /\ DeadInv /\ RunningInv /\ ForgetInv
  BY DEF IInv
<1>s. Shape
  BY <1>0, Shapes
<1>a. /\ Step(r) = "greet" /\ Session(r) = r /\ Moved(r, "ending", r) /\ Closes(Handler(r), r)
      /\ Greets(r)
      /\ UNCHANGED <<sessions, live, saved, resuming, proc, asked, troubles, cut,
                     lost, stray, ended, raced>>
  <2>1. UNCHANGED <<sessions, live, saved, resuming, proc, asked, troubles, cut,
                    lost, stray, ended, raced>>
    BY DEF GreetFails, history
  <2>2. Step(r) = "greet" /\ Session(r) = r
    BY <1>0 DEF GreetFails, RequestInv
  <2>3. Moved(r, "ending", r) /\ Closes(Handler(r), r) /\ Sets(r, Hello, Nobody)
    BY <1>0, <2>2, CloseMoves, PendingSets DEF GreetFails, RequestSteps
  <2>4. Greets(r)
    BY <1>s, <2>3, HelloGreets
  <2>5. QED BY <2>1, <2>2, <2>3, <2>4
<1>k. \A j \in Ids : j \in Known => j \in Known'
  BY <1>0, <1>s, ClosersDiffer, <1>a DEF Shape, Moved, Others, Known
<1>1. TypeOK'
  BY <1>0, <1>s, ClosersDiffer, <1>a DEF Shape, Moved, Others, Closes, Greets, TypeOK
<1>2. RequestInv'
  BY <1>0, <1>s, ClosersDiffer, <1>a DEF Shape, Moved, Others, RequestInv, Key
<1>3. IdInv'
  BY <1>0, <1>s, ClosersDiffer, <1>a, <1>k DEF Shape, Moved, Others, IdInv, RequestInv
<1>4. LockInv'
  BY <1>0, <1>s, ClosersDiffer, <1>a DEF Shape, Moved, Others, LockInv, RequestInv
<1>5. FreshInv'
  <2>1. ASSUME NEW q \in Requests, Step(q)' \in {"new", "queue", "reserve", "evicting", "spawn"}
        PROVE  proc'[q].state = "none"
    BY <1>0, <1>s, ClosersDiffer, <1>a, <2>1 DEF Shape, Moved, Others, Closes, FreshInv, RequestInv
  <2>2. ASSUME NEW q \in Requests, proc'[q].state = "none"
        PROVE  /\ proc'[q].id = Nobody /\ asked'[q] = {}
               /\ \A j \in Ids : sessions'[j] # q
    BY <1>0, <1>s, ClosersDiffer, <1>a, <2>2 DEF Shape, Moved, Others, Closes, FreshInv
  <2>3. ASSUME NEW q \in Requests, proc'[q].state = "none"
        PROVE  \A s \in Requests : request'[s].proc # q
    BY <1>0, <1>s, ClosersDiffer, <1>a, <2>3 DEF Shape, Moved, Others, Closes, FreshInv
  <2>4. ASSUME NEW q \in Requests, proc'[q].state = "none"
        PROVE  \A d \in Closers : closing'[d].proc # q
    BY <1>0, <1>s, ClosersDiffer, <1>a, <2>4 DEF Shape, Moved, Others, Closes, FreshInv, RequestInv
  <2>5. QED BY <2>1, <2>2, <2>3, <2>4 DEF FreshInv
<1>6. ProcInv'
  BY <1>0, <1>s, ClosersDiffer, <1>a, <1>k DEF Shape, Moved, Others, ProcInv
<1>7. EntryInv'
  BY <1>0, <1>s, ClosersDiffer, <1>a, <1>k DEF Shape, Moved, Others, EntryInv, RequestInv, IdInv
<1>8. CloseInv'
  <2>1. ASSUME NEW d \in Closers
        PROVE  /\ closing'[d].step = "none" => closing'[d] = NoClose
               /\ closing'[d].step # "none" => closing'[d].proc # Nobody
               /\ closing'[d].removed => closing'[d].step = "terminate"
    BY <1>0, <1>s, ClosersDiffer, <1>a, <2>1 DEF Shape, Moved, Others, Closes, CloseInv, RequestInv
  <2>2. ASSUME NEW q \in Requests
        PROVE  closing'[Handler(q)].step # "none" <=> Step(q)' \in {"evicting", "ending"}
    BY <1>0, <1>s, ClosersDiffer, <1>a, <2>2 DEF Shape, Moved, Others, Closes, CloseInv
  <2>3. ASSUME NEW q \in Requests, Step(q)' = "ending"
        PROVE  closing'[Handler(q)].proc = Session(q)'
    BY <1>0, <1>s, ClosersDiffer, <1>a, <2>3 DEF Shape, Moved, Others, Closes, CloseInv, RequestInv
  <2>4. ASSUME NEW q \in Requests
        PROVE  /\ closing'[Reader(q)].proc \in {q, Nobody}
               /\ proc'[q].reader \in {"none", "reading"} => closing'[Reader(q)].step = "none"
    BY <1>0, <1>s, ClosersDiffer, <1>a, <2>4 DEF Shape, Moved, Others, Closes, CloseInv, FreshInv,
        ProcInv
  <2>5. QED BY <2>1, <2>2, <2>3, <2>4 DEF CloseInv
<1>9. SlotsInv'
  <2>0. ~closing[Handler(r)].removed
    BY <1>0, <1>s, ClosersDiffer, <1>a DEF CloseInv
  <2>1. \A d \in Closers : closing'[d].removed <=> closing[d].removed
    BY <1>0, <1>s, ClosersDiffer, <1>a, <2>0 DEF Shape, Closes, Removing
  <2>2. \A s \in Requests : s \in Opening' <=> s \in Opening
    BY <1>0, <1>s, ClosersDiffer, <1>a DEF Shape, Moved, Others, Opening, Slot, RequestInv
  <2>3. QED BY <1>0, <1>1, <1>a, <2>1, <2>2, SlotsKeep
<1>10. AskedInv'
  BY <1>0, <1>s, ClosersDiffer, <1>a DEF Shape, Moved, Others, AskedInv, RequestInv, Key
<1>11. WaitInv'
  <2>1. ASSUME NEW s \in Requests, request'[s].step \in {"write", "await"},
               request'[s].answer = Nobody, s \notin cut'
        PROVE  pending'[request'[s].proc][request'[s].key] = s
    <3>1. s # r /\ request'[s] = request[s] /\ Step(s) \in {"write", "await"}
      BY <1>0, <1>s, <1>a, <2>1 DEF Moved, Others
    <3>2. Session(s) \in Requests /\ Key(s) \in Keys /\ pending[Session(s)][Key(s)] = s
      BY <1>0, <1>s, <1>a, <2>1, <3>1 DEF Shape, WaitInv, RequestInv, Key
    <3>3. QED BY <1>a, <3>1, <3>2 DEF Greets, Key
  <2>2. ASSUME NEW q \in Requests, NEW j \in Keys \union {Hello}, pending'[q][j] # Nobody
        PROVE  request'[pending'[q][j]].step # "new"
    <3>1. pending'[q][j] \in {pending[q][j], r}
      BY <1>a, <2>2 DEF Greets
    <3>2. request'[r].step # "new"
      BY <1>a DEF Moved
    <3>3. QED BY <1>0, <1>s, <1>a, <2>2, <3>1, <3>2 DEF Shape, Moved, Others, WaitInv
  <2>3. QED BY <2>1, <2>2 DEF WaitInv, Key
<1>12. AnswerInv'
  <2>1. ASSUME NEW q \in Requests, request'[q].answer # Nobody
        PROVE  request'[q].answer = request[q].answer /\ request[q].answer \in Requests
    BY <1>0, <1>s, ClosersDiffer, <1>a, <2>1 DEF Shape, Moved, Others, RequestInv
  <2>2. ASSUME NEW s \in Requests, Step(s) \in {"await", "ending", "done"}
        PROVE  /\ Step(s)' \in {"await", "ending", "done"}
               /\ Waits(s)' => Waits(s)
    BY <1>0, <1>s, ClosersDiffer, <1>a, <2>2 DEF Shape, Moved, Others, Waits, RequestInv
  <2>3. QED BY <2>1, <2>2, <1>0 DEF AnswerInv
<1>13. DeadInv'
  <2>1. ASSUME NEW q \in Requests, proc'[q].reader = "ended", closing'[Reader(q)].step # "remove",
               NEW s \in Requests, Session(s)' = q
        PROVE  ~Waits(s)'
    BY <1>0, <1>s, ClosersDiffer, <1>a, <2>1 DEF Shape, Moved, Others, Closes, DeadInv, Waits,
        RequestInv
  <2>2. QED BY <2>1 DEF DeadInv
<1>14. RunningInv'
  <2>1. ASSUME NEW q \in Requests, q \notin stray', proc'[q].state = "running", proc'[q].id # Nobody
        PROVE  sessions'[proc'[q].id] = q \/ Step(q)' = "insert"
    BY <1>0, <1>s, ClosersDiffer, <1>a, <2>1 DEF Shape, Moved, Others, RunningInv, RequestInv
  <2>2. QED BY <2>1 DEF RunningInv
<1>15. ForgetInv'
  <2>1. \A s \in Requests, j \in Ids : Deletes(s, j)' =>
            /\ Deletes(s, j) /\ request'[s] = request[s]
            /\ closing'[Handler(s)] = closing[Handler(s)]
    BY <1>0, <1>s, ClosersDiffer, <1>a DEF Shape, Moved, Others, Closes, Deletes, RequestInv
  <2>2. \A j \in Ids : Resumes(j)' => Resumes(j)
    BY <1>0, <1>s, ClosersDiffer, <1>a DEF Shape, Moved, Others, Resumes, LockInv, RequestInv
  <2>3. QED BY <1>0, <1>k, <1>a, <2>1, <2>2, ForgetKeep
<1>16. QED BY <1>1, <1>2, <1>3, <1>4, <1>5, <1>6, <1>7, <1>8, <1>9, <1>10, <1>11, <1>12, <1>13,
    <1>14, <1>15 DEF IInv

\* A message takes its place in the table.
LEMMA SendsStep ==
  ASSUME IInv, NEW r \in Requests, Step(r) = "send", pending[Session(r)][Key(r)] = Nobody,
         Sets(Session(r), Key(r), r), Moved(r, "write", Session(r)),
         UNCHANGED <<sessions, live, saved, resuming, proc, asked, closing, troubles,
                     cut, lost, stray, ended, raced>>
  PROVE  IInv'
<1> USE StdioAssumption DEF Step, Kind, Id, Session, Opens, Talks
<1>0. /\ TypeOK /\ RequestInv /\ IdInv /\ LockInv /\ FreshInv
      /\ ProcInv /\ EntryInv /\ CloseInv /\ SlotsInv /\ AskedInv
      /\ WaitInv /\ AnswerInv /\ DeadInv /\ RunningInv /\ ForgetInv
  BY DEF IInv
<1>s. Shape
  BY <1>0, Shapes
<1>k. \A j \in Ids : j \in Known => j \in Known'
  BY <1>0, <1>s DEF Shape, Moved, Others, Known
<1>1. TypeOK'
  BY <1>0, <1>s DEF Shape, Moved, Others, Sets, TypeOK
<1>2. RequestInv'
  BY <1>0, <1>s DEF Shape, Moved, Others, RequestInv, Key
<1>3. IdInv'
  BY <1>0, <1>s, <1>k DEF Shape, Moved, Others, IdInv, RequestInv
<1>4. LockInv'
  BY <1>0, <1>s DEF Shape, Moved, Others, LockInv, RequestInv
<1>5. FreshInv'
  BY <1>0, <1>s DEF Shape, Moved, Others, FreshInv, RequestInv
<1>6. ProcInv'
  BY <1>0, <1>s, <1>k DEF Shape, Moved, Others, ProcInv
<1>7. EntryInv'
  BY <1>0, <1>s, <1>k DEF Shape, Moved, Others, EntryInv, RequestInv, IdInv
<1>8. CloseInv'
  BY <1>0, <1>s DEF Shape, Moved, Others, CloseInv, RequestInv
<1>9. SlotsInv'
  <2>1. \A d \in Closers : closing'[d].removed <=> closing[d].removed
    BY <1>0, <1>s DEF Shape, Removing
  <2>2. \A s \in Requests : s \in Opening' <=> s \in Opening
    BY <1>0, <1>s DEF Shape, Moved, Others, Opening, Slot, RequestInv
  <2>3. QED BY <1>0, <1>1, <2>1, <2>2, SlotsKeep
<1>10. AskedInv'
  BY <1>0, <1>s DEF Shape, Moved, Others, AskedInv, RequestInv, Key
<1>11. WaitInv'
  <2>0. Session(r) \in Requests /\ Key(r) \in Keys
    BY <1>0, <1>s DEF Shape, RequestInv, Key
  <2>1. ASSUME NEW s \in Requests, request'[s].step \in {"write", "await"},
               request'[s].answer = Nobody, s \notin cut'
        PROVE  pending'[request'[s].proc][request'[s].key] = s
    <3>1. CASE s = r
      BY <2>0, <3>1 DEF Moved, Sets, Key
    <3>2. CASE s # r
      <4>1. request'[s] = request[s] /\ Step(s) \in {"write", "await"} /\ s \notin cut
        BY <2>1, <3>2 DEF Moved, Others
      <4>2. Session(s) \in Requests /\ Key(s) \in Keys /\ pending[Session(s)][Key(s)] = s
        BY <1>0, <1>s, <2>1, <4>1 DEF Shape, WaitInv, RequestInv, Key
      <4>3. QED BY <1>s, <2>0, <4>1, <4>2 DEF Sets, Key, Shape
    <3>3. QED BY <3>1, <3>2
  <2>2. ASSUME NEW q \in Requests, NEW j \in Keys \union {Hello}, pending'[q][j] # Nobody
        PROVE  request'[pending'[q][j]].step # "new"
    <3>1. pending'[q][j] \in {pending[q][j], r}
      BY <2>0 DEF Sets
    <3>2. request'[r].step # "new"
      BY DEF Moved
    <3>3. QED BY <1>0, <1>s, <2>2, <3>1, <3>2 DEF Shape, Moved, Others, WaitInv
  <2>3. QED BY <2>1, <2>2 DEF WaitInv, Key
<1>12. AnswerInv'
  <2>1. ASSUME NEW q \in Requests, request'[q].answer # Nobody
        PROVE  request'[q].answer = request[q].answer /\ request[q].answer \in Requests
    BY <1>0, <1>s, <2>1 DEF Shape, Moved, Others, RequestInv
  <2>2. ASSUME NEW s \in Requests, Step(s) \in {"await", "ending", "done"}
        PROVE  /\ Step(s)' \in {"await", "ending", "done"}
               /\ Waits(s)' => Waits(s)
    BY <1>0, <1>s, <2>2 DEF Shape, Moved, Others, Waits, RequestInv
  <2>3. QED BY <2>1, <2>2, <1>0 DEF AnswerInv
<1>13. DeadInv'
  <2>1. ASSUME NEW q \in Requests, proc'[q].reader = "ended", closing'[Reader(q)].step # "remove",
               NEW s \in Requests, Session(s)' = q
        PROVE  ~Waits(s)'
    BY <1>0, <1>s, <2>1 DEF Shape, Moved, Others, DeadInv, Waits, RequestInv
  <2>2. QED BY <2>1 DEF DeadInv
<1>14. RunningInv'
  <2>1. ASSUME NEW q \in Requests, q \notin stray', proc'[q].state = "running", proc'[q].id # Nobody
        PROVE  sessions'[proc'[q].id] = q \/ Step(q)' = "insert"
    BY <1>0, <1>s, <2>1 DEF Shape, Moved, Others, RunningInv, RequestInv
  <2>2. QED BY <2>1 DEF RunningInv
<1>15. ForgetInv'
  <2>1. \A s \in Requests, j \in Ids : Deletes(s, j)' =>
            /\ Deletes(s, j) /\ request'[s] = request[s]
            /\ closing'[Handler(s)] = closing[Handler(s)]
    BY <1>0, <1>s DEF Shape, Moved, Others, Deletes, RequestInv
  <2>2. \A j \in Ids : Resumes(j)' => Resumes(j)
    BY <1>0, <1>s DEF Shape, Moved, Others, Resumes, LockInv, RequestInv
  <2>3. QED BY <1>0, <1>k, <2>1, <2>2, ForgetKeep
<1>16. QED BY <1>1, <1>2, <1>3, <1>4, <1>5, <1>6, <1>7, <1>8, <1>9, <1>10, <1>11, <1>12, <1>13,
    <1>14, <1>15 DEF IInv

\* It is written.
LEMMA WritesStep ==
  ASSUME IInv, NEW r \in Requests, Step(r) = "write", proc[Session(r)].state \in {"running", "ending"},
         asked' \in [Requests -> SUBSET (Keys \X Requests)],
         \A q \in Requests : \A a \in asked'[q] : a \in asked[q] \/ (q = Session(r) /\ a = <<Key(r), r>>),
         Moved(r, "await", Session(r)),
         UNCHANGED <<sessions, live, saved, resuming, proc, pending, closing,
                     troubles, cut, lost, stray, ended, raced>>
  PROVE  IInv'
<1> USE StdioAssumption DEF Step, Kind, Id, Session, Opens, Talks
<1>0. /\ TypeOK /\ RequestInv /\ IdInv /\ LockInv /\ FreshInv
      /\ ProcInv /\ EntryInv /\ CloseInv /\ SlotsInv /\ AskedInv
      /\ WaitInv /\ AnswerInv /\ DeadInv /\ RunningInv /\ ForgetInv
  BY DEF IInv
<1>s. Shape
  BY <1>0, Shapes
<1>k. \A j \in Ids : j \in Known => j \in Known'
  BY <1>0, <1>s DEF Shape, Moved, Others, Known
<1>1. TypeOK'
  BY <1>0, <1>s DEF Shape, Moved, Others, TypeOK
<1>2. RequestInv'
  BY <1>0, <1>s DEF Shape, Moved, Others, RequestInv, Key
<1>3. IdInv'
  BY <1>0, <1>s, <1>k DEF Shape, Moved, Others, IdInv, RequestInv
<1>4. LockInv'
  BY <1>0, <1>s DEF Shape, Moved, Others, LockInv, RequestInv
<1>5. FreshInv'
  BY <1>0, <1>s DEF Shape, Moved, Others, FreshInv, RequestInv
<1>6. ProcInv'
  BY <1>0, <1>s, <1>k DEF Shape, Moved, Others, ProcInv
<1>7. EntryInv'
  BY <1>0, <1>s, <1>k DEF Shape, Moved, Others, EntryInv, RequestInv, IdInv
<1>8. CloseInv'
  BY <1>0, <1>s DEF Shape, Moved, Others, CloseInv, RequestInv
<1>9. SlotsInv'
  <2>1. \A d \in Closers : closing'[d].removed <=> closing[d].removed
    BY <1>0, <1>s DEF Shape, Removing
  <2>2. \A s \in Requests : s \in Opening' <=> s \in Opening
    BY <1>0, <1>s DEF Shape, Moved, Others, Opening, Slot, RequestInv
  <2>3. QED BY <1>0, <1>1, <2>1, <2>2, SlotsKeep
<1>10. AskedInv'
  BY <1>0, <1>s DEF Shape, Moved, Others, AskedInv, RequestInv, Key
<1>11. WaitInv'
  <2>1. ASSUME NEW s \in Requests, request'[s].step \in {"write", "await"},
               request'[s].answer = Nobody, s \notin cut'
        PROVE  pending'[request'[s].proc][request'[s].key] = s
    BY <1>0, <1>s, <2>1 DEF Shape, Moved, Others, WaitInv, RequestInv, Key
  <2>2. ASSUME NEW q \in Requests, NEW j \in Keys \union {Hello}, pending'[q][j] # Nobody
        PROVE  request'[pending'[q][j]].step # "new"
    BY <1>0, <1>s, <2>2 DEF Shape, Moved, Others, WaitInv, RequestInv
  <2>3. QED BY <2>1, <2>2 DEF WaitInv, Key
<1>12. AnswerInv'
  BY <1>0, <1>s DEF Shape, Moved, Others, AnswerInv, Waits, RequestInv
<1>13. DeadInv'
  <2>1. ASSUME NEW q \in Requests, proc'[q].reader = "ended", closing'[Reader(q)].step # "remove",
               NEW s \in Requests, Session(s)' = q
        PROVE  ~Waits(s)'
    BY <1>0, <1>s, <2>1 DEF Shape, Moved, Others, DeadInv, Waits, RequestInv, ProcInv
  <2>2. QED BY <2>1 DEF DeadInv
<1>14. RunningInv'
  <2>1. ASSUME NEW q \in Requests, q \notin stray', proc'[q].state = "running", proc'[q].id # Nobody
        PROVE  sessions'[proc'[q].id] = q \/ Step(q)' = "insert"
    BY <1>0, <1>s, <2>1 DEF Shape, Moved, Others, RunningInv, RequestInv
  <2>2. QED BY <2>1 DEF RunningInv
<1>15. ForgetInv'
  <2>1. \A s \in Requests, j \in Ids : Deletes(s, j)' =>
            /\ Deletes(s, j) /\ request'[s] = request[s]
            /\ closing'[Handler(s)] = closing[Handler(s)]
    BY <1>0, <1>s DEF Shape, Moved, Others, Deletes, RequestInv
  <2>2. \A j \in Ids : Resumes(j)' => Resumes(j)
    BY <1>0, <1>s DEF Shape, Moved, Others, Resumes, LockInv, RequestInv
  <2>3. QED BY <1>0, <1>k, <2>1, <2>2, ForgetKeep
<1>16. QED BY <1>1, <1>2, <1>3, <1>4, <1>5, <1>6, <1>7, <1>8, <1>9, <1>10, <1>11, <1>12, <1>13,
    <1>14, <1>15 DEF IInv

\* The process answers.
LEMMA DeliverStep ==
  ASSUME IInv, NEW p \in Requests, NEW k \in Keys, NEW m \in Requests, Deliver(p, k, m)
  PROVE  IInv'
<1> USE StdioAssumption DEF Step, Kind, Id, Session, Opens, Talks
<1>0. /\ TypeOK /\ RequestInv /\ IdInv /\ LockInv /\ FreshInv
      /\ ProcInv /\ EntryInv /\ CloseInv /\ SlotsInv /\ AskedInv
      /\ WaitInv /\ AnswerInv /\ DeadInv /\ RunningInv /\ ForgetInv
  BY DEF IInv
<1>s. Shape
  BY <1>0, Shapes
<1>a. /\ <<k, m>> \in asked[p] /\ Answers(p, k, m) /\ Sets(p, k, Nobody)
      /\ asked' \in [Requests -> SUBSET (Keys \X Requests)]
      /\ \A q \in Requests : asked'[q] \subseteq asked[q]
      /\ UNCHANGED <<sessions, live, saved, resuming, proc, closing, troubles, cut,
                     lost, stray, ended, raced>>
  <2>1. <<k, m>> \in asked[p] /\ UNCHANGED <<sessions, live, saved, resuming, proc, closing, troubles, cut,
                                             lost, stray, ended, raced>>
    BY DEF Deliver, history
  <2>2. Answers(p, k, m) /\ Sets(p, k, Nobody)
    BY <1>0, DeliverAnswers, PendingSets DEF Deliver
  <2>3. asked' = [asked EXCEPT ![p] = @ \ {<<k, m>>}]
    BY DEF Deliver
  <2>4. QED BY <1>0, <2>1, <2>2, <2>3 DEF TypeOK
<1>k. \A j \in Ids : j \in Known => j \in Known'
  BY <1>0, <1>s, <1>a DEF Shape, Answers, Known
<1>1. TypeOK'
  BY <1>0, <1>s, <1>a DEF Shape, Answers, Sets, TypeOK
<1>2. RequestInv'
  BY <1>0, <1>s, <1>a DEF Shape, Answers, RequestInv, Key, WaitInv
<1>3. IdInv'
  BY <1>0, <1>s, <1>a, <1>k DEF Shape, Answers, IdInv, RequestInv
<1>4. LockInv'
  BY <1>0, <1>s, <1>a DEF Shape, Answers, LockInv, RequestInv
<1>5. FreshInv'
  <2>1. ASSUME NEW q \in Requests, Step(q)' \in {"new", "queue", "reserve", "evicting", "spawn"}
        PROVE  proc'[q].state = "none"
    BY <1>0, <1>s, <1>a, <2>1 DEF Shape, Answers, FreshInv, RequestInv
  <2>2. ASSUME NEW q \in Requests, proc'[q].state = "none"
        PROVE  /\ proc'[q].id = Nobody /\ asked'[q] = {}
               /\ \A j \in Ids : sessions'[j] # q
    BY <1>0, <1>s, <1>a, <2>2 DEF Shape, Answers, FreshInv
  <2>3. ASSUME NEW q \in Requests, proc'[q].state = "none"
        PROVE  \A s \in Requests : request'[s].proc # q
    BY <1>0, <1>s, <1>a, <2>3 DEF Shape, Answers, FreshInv
  <2>4. ASSUME NEW q \in Requests, proc'[q].state = "none"
        PROVE  \A d \in Closers : closing'[d].proc # q
    BY <1>0, <1>s, <1>a, <2>4 DEF Shape, Answers, FreshInv, RequestInv
  <2>5. QED BY <2>1, <2>2, <2>3, <2>4 DEF FreshInv
<1>6. ProcInv'
  BY <1>0, <1>s, <1>a, <1>k DEF Shape, Answers, ProcInv
<1>7. EntryInv'
  BY <1>0, <1>s, <1>a, <1>k DEF Shape, Answers, EntryInv, RequestInv, IdInv
<1>8. CloseInv'
  BY <1>0, <1>s, <1>a DEF Shape, Answers, CloseInv, RequestInv
<1>9. SlotsInv'
  <2>1. \A d \in Closers : closing'[d].removed <=> closing[d].removed
    BY <1>0, <1>s, <1>a DEF Shape, Removing
  <2>2. \A s \in Requests : s \in Opening' <=> s \in Opening
    BY <1>0, <1>s, <1>a DEF Shape, Answers, Opening, Slot, RequestInv
  <2>3. QED BY <1>0, <1>1, <1>a, <2>1, <2>2, SlotsKeep
<1>10. AskedInv'
  BY <1>0, <1>s, <1>a DEF Shape, Answers, AskedInv, RequestInv, Key
<1>11. WaitInv'
  <2>1. ASSUME NEW t \in Requests, request'[t].step \in {"write", "await"},
               request'[t].answer = Nobody, t \notin cut'
        PROVE  pending'[request'[t].proc][request'[t].key] = t
    <3>1. /\ Step(t) \in {"write", "await"} /\ request[t].answer = Nobody /\ t \notin cut
          /\ request'[t].proc = Session(t) /\ request'[t].key = Key(t)
      BY <1>s, <1>a, <2>1 DEF Shape, Answers, Key
    <3>2. Session(t) \in Requests /\ Key(t) \in Keys /\ pending[Session(t)][Key(t)] = t
      BY <1>0, <1>s, <3>1 DEF Shape, WaitInv, RequestInv, Key
    <3>3. ~(Session(t) = p /\ Key(t) = k)
      BY <1>s, <1>a, <2>1, <3>1, <3>2 DEF Shape, Answers
    <3>4. QED BY <1>a, <3>1, <3>2, <3>3 DEF Sets
  <2>2. ASSUME NEW q \in Requests, NEW j \in Keys \union {Hello}, pending'[q][j] # Nobody
        PROVE  request'[pending'[q][j]].step # "new"
    <3>1. pending'[q][j] = pending[q][j] /\ pending[q][j] \in Requests
      BY <1>s, <1>a, <2>2 DEF Shape, Sets
    <3>2. QED BY <1>0, <1>a, <2>2, <3>1 DEF Answers, WaitInv
  <2>3. QED BY <2>1, <2>2 DEF WaitInv, Key
<1>12. AnswerInv'
  <2>1. \A t \in Requests : Waits(t)' => Waits(t)
    BY <1>s, <1>a DEF Shape, Answers, Waits
  <2>2. Step(m) \in {"await", "ending", "done"} /\ (Step(m) = "await" => Session(m) = p /\ Key(m) = k)
    BY <1>0, <1>a DEF AskedInv
  <2>3. Waits(m) => pending[p][k] = m
    BY <1>0, <2>2 DEF WaitInv, Waits
  <2>4. ASSUME NEW q \in Requests, NEW t \in Requests, request'[q].answer = t
        PROVE  Step(t)' \in {"await", "ending", "done"} /\ (t # q => ~Waits(t)')
    <3>0. Step(t)' = Step(t) /\ (Waits(t)' => Waits(t))
      BY <1>a, <2>1 DEF Answers
    <3>1. CASE t = request[q].answer
      BY <1>0, <1>s, <3>0, <3>1 DEF AnswerInv, Shape
    <3>2. CASE q = pending[p][k] /\ t = m
      BY <2>2, <2>3, <3>0, <3>2 DEF Waits
    <3>3. QED BY <1>a, <2>4, <3>1, <3>2 DEF Answers
  <2>5. \A q \in Requests : request'[q].answer \in Requests \union {Nobody}
    BY <1>a DEF Answers, RequestState
  <2>6. QED BY <2>4, <2>5 DEF AnswerInv
<1>13. DeadInv'
  <2>1. ASSUME NEW q \in Requests, proc'[q].reader = "ended", closing'[Reader(q)].step # "remove",
               NEW s \in Requests, Session(s)' = q
        PROVE  ~Waits(s)'
    BY <1>0, <1>s, <1>a, <2>1 DEF Shape, Answers, DeadInv, Waits, RequestInv
  <2>2. QED BY <2>1 DEF DeadInv
<1>14. RunningInv'
  <2>1. ASSUME NEW q \in Requests, q \notin stray', proc'[q].state = "running", proc'[q].id # Nobody
        PROVE  sessions'[proc'[q].id] = q \/ Step(q)' = "insert"
    BY <1>0, <1>s, <1>a, <2>1 DEF Shape, Answers, RunningInv, RequestInv
  <2>2. QED BY <2>1 DEF RunningInv
<1>15. ForgetInv'
  <2>1. \A t \in Requests, i \in Ids : Deletes(t, i)' <=> Deletes(t, i)
    BY <1>a DEF Answers, Deletes
  <2>2. \A i \in Ids : Forgotten(i)' <=> Forgotten(i)
    BY <1>a, <2>1 DEF Forgotten
  <2>3. \A j \in Ids : Resumes(j)' => Resumes(j)
    BY <1>s, <1>a DEF Shape, Answers, Resumes
  <2>4. \A t \in Requests : Session(t)' = Session(t)
    BY <1>a DEF Answers
  <2>5. QED BY <1>0, <1>a, <1>k, <2>1, <2>2, <2>3, <2>4 DEF ForgetInv
<1>16. QED BY <1>1, <1>2, <1>3, <1>4, <1>5, <1>6, <1>7, <1>8, <1>9, <1>10, <1>11, <1>12, <1>13,
    <1>14, <1>15 DEF IInv

\* A close takes the entry of its session and fails who waits.
LEMMA RemoveStep ==
  ASSUME IInv, NEW c \in Closers, Remove(c)
  PROVE  IInv'
<1> USE StdioAssumption DEF Step, Kind, Id, Session, Opens, Talks
<1>0. /\ TypeOK /\ RequestInv /\ IdInv /\ LockInv /\ FreshInv
      /\ ProcInv /\ EntryInv /\ CloseInv /\ SlotsInv /\ AskedInv
      /\ WaitInv /\ AnswerInv /\ DeadInv /\ RunningInv /\ ForgetInv
  BY DEF IInv
<1>s. Shape
  BY <1>0, Shapes
<1> DEFINE p == closing[c].proc
           i == proc[p].id
           there == i # Nobody /\ sessions[i] # Nobody
<1>a. /\ p \in Requests /\ i \in Ids \union {Nobody} /\ closing[c].step = "remove"
      /\ closing' \in [Closers -> ClosingState]
      /\ closing'[c].step = "terminate" /\ closing'[c].proc = p /\ (closing'[c].removed <=> there)
      /\ \A d \in Closers : d # c => closing'[d] = closing[d]
      /\ sessions' \in [Ids -> Requests \union {Nobody}]
      /\ \A j \in Ids : sessions'[j] = IF j = i THEN Nobody ELSE sessions[j]
      /\ stray' \in SUBSET Requests /\ stray \subseteq stray'
      /\ there /\ sessions[i] # p => sessions[i] \in stray'
      /\ pending' \in [Requests -> [Keys \union {Hello} -> Requests \union {Nobody}]]
      /\ \A k \in Keys \union {Hello} : pending'[p][k] = Nobody
      /\ \A q \in Requests : q # p => pending'[q] = pending[q]
      /\ cut' \in SUBSET Requests /\ cut \subseteq cut'
      /\ \A s \in Requests, k \in Keys \union {Hello} : pending[p][k] = s /\ Step(s) # "done" => s \in cut'
      /\ proc' \in [Requests -> ProcState]
      /\ proc'[p].id = i /\ proc'[p].reader = proc[p].reader
      /\ proc'[p].state = IF proc[p].state = "running" THEN "ending" ELSE proc[p].state
      /\ \A q \in Requests : q # p => proc'[q] = proc[q]
      /\ UNCHANGED <<live, saved, resuming, asked, request, troubles, lost, ended,
                     raced>>
  <2>1. closing[c].step = "remove" /\ UNCHANGED <<live, saved, resuming, asked, request, troubles, lost, ended,
                                                  raced>>
    BY DEF Remove, FailPending, Clear
  <2>2. p \in Requests /\ i \in Ids \union {Nobody} /\ closing[c] \in ClosingState /\ proc[p] \in ProcState
    BY <1>0, <1>s, <2>1 DEF CloseInv, Shape, TypeOK
  <2>3. /\ closing' \in [Closers -> ClosingState]
        /\ closing'[c].step = "terminate" /\ closing'[c].proc = p /\ (closing'[c].removed <=> there)
        /\ \A d \in Closers : d # c => closing'[d] = closing[d]
    <3>0. PICK gone \in BOOLEAN : gone <=> there
      OBVIOUS
    <3>1. closing' = [closing EXCEPT ![c].step = "terminate", ![c].removed = gone]
      BY <3>0 DEF Remove
    <3>2. closing[c] = [step |-> closing[c].step, proc |-> closing[c].proc, removed |-> closing[c].removed]
      BY <2>2 DEF ClosingState
    <3>3. closing'[c] = [closing[c] EXCEPT !.step = "terminate", !.removed = gone]
      BY <1>0, <3>1 DEF TypeOK
    <3>4. closing'[c] = [step |-> "terminate", proc |-> p, removed |-> gone]
      BY <3>2, <3>3
    <3>5. closing'[c] \in ClosingState
      BY <2>2, <3>4 DEF ClosingState
    <3>6. closing' \in [Closers -> ClosingState] /\ \A d \in Closers : d # c => closing'[d] = closing[d]
      BY <1>0, <3>1, <3>5 DEF TypeOK
    <3>7. QED BY <3>0, <3>4, <3>6
  <2>4. /\ sessions' \in [Ids -> Requests \union {Nobody}]
        /\ \A j \in Ids : sessions'[j] = IF j = i THEN Nobody ELSE sessions[j]
    <3>1. sessions' = IF there THEN [sessions EXCEPT ![i] = Nobody] ELSE sessions
      BY DEF Remove
    <3>2. QED BY <1>0, <1>s, <2>2, <3>1 DEF Shape, TypeOK
  <2>5. /\ stray' \in SUBSET Requests /\ stray \subseteq stray'
        /\ there /\ sessions[i] # p => sessions[i] \in stray'
    <3>1. stray' = IF there /\ sessions[i] # p THEN stray \union {sessions[i]} ELSE stray
      BY DEF Remove
    <3>2. there => sessions[i] \in Requests
      BY <1>s, <2>2 DEF Shape
    <3>3. QED BY <1>0, <3>1, <3>2 DEF TypeOK
  <2>6. /\ pending' \in [Requests -> [Keys \union {Hello} -> Requests \union {Nobody}]]
        /\ \A k \in Keys \union {Hello} : pending'[p][k] = Nobody
        /\ \A q \in Requests : q # p => pending'[q] = pending[q]
    <3>1. pending' = [pending EXCEPT ![p] = [k \in Keys \union {Hello} |-> Nobody]]
      BY DEF Remove, FailPending, Clear
    <3>2. QED BY <1>0, <2>2, <3>1 DEF TypeOK
  <2>7. /\ cut' \in SUBSET Requests /\ cut \subseteq cut'
        /\ \A s \in Requests, k \in Keys \union {Hello} : pending[p][k] = s /\ Step(s) # "done" => s \in cut'
    <3>1. cut' = cut \union {s \in Requests : ~Over(s) /\ \E k \in WaitingOn(p) : pending[p][k] = s}
      BY DEF Remove, FailPending, Clear
    <3>2. \A s \in Requests, k \in Keys \union {Hello} : pending[p][k] = s => k \in WaitingOn(p)
      BY <1>s DEF WaitingOn, Shape
    <3>3. QED BY <1>0, <3>1, <3>2 DEF TypeOK, Over
  <2>8. /\ proc' \in [Requests -> ProcState]
        /\ proc'[p].id = i /\ proc'[p].reader = proc[p].reader
        /\ proc'[p].state = IF proc[p].state = "running" THEN "ending" ELSE proc[p].state
        /\ \A q \in Requests : q # p => proc'[q] = proc[q]
    <3> DEFINE state == IF proc[p].state = "running" THEN "ending" ELSE proc[p].state
    <3>1. proc' = [proc EXCEPT ![p].state = state]
      BY DEF Remove
    <3>2. state \in {"none", "running", "ending", "dead"}
      BY <2>2 DEF ProcState
    <3> HIDE DEF state
    <3>3. proc'[p] = [proc[p] EXCEPT !.state = state]
      BY <1>0, <2>2, <3>1 DEF TypeOK
    <3>4. proc'[p] \in ProcState /\ proc'[p].state = state /\ proc'[p].id = i /\ proc'[p].reader = proc[p].reader
      BY <2>2, <3>2, <3>3 DEF ProcState
    <3>5. proc' \in [Requests -> ProcState] /\ \A q \in Requests : q # p => proc'[q] = proc[q]
      BY <1>0, <2>2, <3>1, <3>4 DEF TypeOK
    <3>6. QED BY <3>4, <3>5 DEF state
  <2>9. QED BY <2>1, <2>2, <2>3, <2>4, <2>5, <2>6, <2>7, <2>8
<1> HIDE DEF p, i, there
<1>b. /\ p = closing[c].proc /\ i = proc[p].id /\ (there <=> i # Nobody /\ sessions[i] # Nobody)
      /\ ~closing[c].removed /\ proc[p].state # "none"
  BY <1>0, <1>a DEF p, i, there, CloseInv, FreshInv
<1>k. \A j \in Ids : j \in Known => j \in Known'
  BY <1>0, <1>s, ClosersDiffer, <1>a, <1>b DEF Shape, Known
<1>1. TypeOK'
  BY <1>0, <1>s, ClosersDiffer, <1>a, <1>b DEF Shape, TypeOK
<1>2. RequestInv'
  BY <1>0, <1>s, ClosersDiffer, <1>a, <1>b DEF Shape, RequestInv, Key
<1>3. IdInv'
  BY <1>0, <1>s, ClosersDiffer, <1>a, <1>b, <1>k DEF Shape, IdInv, RequestInv
<1>4. LockInv'
  BY <1>0, <1>s, ClosersDiffer, <1>a, <1>b DEF Shape, LockInv, RequestInv
<1>5. FreshInv'
  <2>1. ASSUME NEW q \in Requests, Step(q)' \in {"new", "queue", "reserve", "evicting", "spawn"}
        PROVE  proc'[q].state = "none"
    BY <1>0, <1>s, ClosersDiffer, <1>a, <1>b, <2>1 DEF Shape, FreshInv, RequestInv
  <2>2. ASSUME NEW q \in Requests, proc'[q].state = "none"
        PROVE  /\ proc'[q].id = Nobody /\ asked'[q] = {}
               /\ \A j \in Ids : sessions'[j] # q
    <3>1. q # p /\ proc[q].state = "none"
      BY <1>a, <1>b, <2>2
    <3>2. proc[q].id = Nobody /\ asked[q] = {} /\ \A j \in Ids : sessions[j] # q
      BY <1>0, <3>1 DEF FreshInv
    <3>3. QED BY <1>s, <1>a, <3>1, <3>2 DEF Shape
  <2>3. ASSUME NEW q \in Requests, proc'[q].state = "none"
        PROVE  \A s \in Requests : request'[s].proc # q
    BY <1>0, <1>s, ClosersDiffer, <1>a, <1>b, <2>3 DEF Shape, FreshInv
  <2>4. ASSUME NEW q \in Requests, proc'[q].state = "none"
        PROVE  \A d \in Closers : closing'[d].proc # q
    BY <1>0, <1>s, ClosersDiffer, <1>a, <1>b, <2>4 DEF Shape, FreshInv, RequestInv
  <2>5. QED BY <2>1, <2>2, <2>3, <2>4 DEF FreshInv
<1>6. ProcInv'
  BY <1>0, <1>s, ClosersDiffer, <1>a, <1>b, <1>k DEF Shape, ProcInv
<1>7. EntryInv'
  <2>1. \A j \in Ids : sessions'[j] # Nobody => proc'[sessions'[j]].id = j
    BY <1>0, <1>s, ClosersDiffer, <1>a, <1>b, <1>k DEF Shape, EntryInv, FreshInv
  <2>2. ASSUME NEW q \in Requests, Step(q)' \in Opens, Id(q)' # Nobody
        PROVE  sessions'[Id(q)'] = Nobody
    BY <1>0, <1>s, ClosersDiffer, <1>a, <1>b, <2>2, <1>k DEF Shape, EntryInv, RequestInv, IdInv
  <2>3. ASSUME NEW q \in Requests, Step(q)' = "insert"
        PROVE  proc'[q].id = Id(q)' /\ \A j \in Ids : sessions'[j] # q
    <3>1. Step(q) = "insert" /\ Id(q)' = Id(q)
      BY <1>a, <2>3
    <3>2. proc[q].id = Id(q) /\ \A j \in Ids : sessions[j] # q
      BY <1>0, <3>1 DEF EntryInv
    <3>3. proc'[q].id = proc[q].id
      BY <1>a, <1>b
    <3>4. QED BY <1>s, <1>a, <3>1, <3>2, <3>3 DEF Shape
  <2>4. ASSUME NEW q \in Requests, Kind(q)' = "delete", Step(q)' \in {"forget", "ending"}, Session(q)' # Nobody
        PROVE  proc'[Session(q)'].id = Id(q)'
    BY <1>0, <1>s, ClosersDiffer, <1>a, <1>b, <2>4, <1>k DEF Shape, EntryInv, RequestInv, FreshInv
  <2>5. QED BY <2>1, <2>2, <2>3, <2>4 DEF EntryInv
<1>8. CloseInv'
  <2>1. ASSUME NEW d \in Closers
        PROVE  /\ closing'[d].step = "none" => closing'[d] = NoClose
               /\ closing'[d].step # "none" => closing'[d].proc # Nobody
               /\ closing'[d].removed => closing'[d].step = "terminate"
    BY <1>0, <1>s, ClosersDiffer, <1>a, <1>b, <2>1 DEF Shape, CloseInv, RequestInv
  <2>2. ASSUME NEW q \in Requests
        PROVE  closing'[Handler(q)].step # "none" <=> Step(q)' \in {"evicting", "ending"}
    BY <1>0, <1>s, ClosersDiffer, <1>a, <1>b, <2>2 DEF Shape, CloseInv
  <2>3. ASSUME NEW q \in Requests, Step(q)' = "ending"
        PROVE  closing'[Handler(q)].proc = Session(q)'
    BY <1>0, <1>s, ClosersDiffer, <1>a, <1>b, <2>3 DEF Shape, CloseInv, RequestInv
  <2>4. ASSUME NEW q \in Requests
        PROVE  /\ closing'[Reader(q)].proc \in {q, Nobody}
               /\ proc'[q].reader \in {"none", "reading"} => closing'[Reader(q)].step = "none"
    BY <1>0, <1>s, ClosersDiffer, <1>a, <1>b, <2>4 DEF Shape, CloseInv, FreshInv, ProcInv
  <2>5. QED BY <2>1, <2>2, <2>3, <2>4 DEF CloseInv
<1>9. SlotsInv'
  <2>1. Opening' = Opening
    BY <1>a DEF Opening, Slot
  <2>2. CASE there
    <3>1. sessions[i] \in Mapped /\ sessions[i] \in Requests /\ i \in Ids
      BY <1>s, <1>a, <1>b, <2>2 DEF Shape, Mapped
    <3>2. Mapped' = Mapped \ {sessions[i]}
      <4>1. \A j \in Ids : sessions[j] = sessions[i] => j = i
        BY <1>0, <3>1, <1>b, <2>2 DEF EntryInv
      <4>2. QED BY <1>a, <3>1, <4>1 DEF Mapped
    <3>3. Removing' = Removing \union {c} /\ c \notin Removing
      BY <1>a, <1>b, <2>2 DEF Removing
    <3>4. IsFiniteSet(Mapped') /\ Cardinality(Mapped') = Cardinality(Mapped) - 1
      BY <1>0, <3>1, <3>2, FS_RemoveElement DEF SlotsInv
    <3>5. IsFiniteSet(Removing') /\ Cardinality(Removing') = Cardinality(Removing) + 1
      BY <1>0, <3>3, FS_AddElement DEF SlotsInv
    <3>6. QED BY <1>0, <1>a, <2>1, <3>4, <3>5, FS_CardinalityType DEF SlotsInv, TypeOK
  <2>3. CASE ~there
    <3>1. \A j \in Ids : sessions'[j] = sessions[j]
      BY <1>s, <1>a, <1>b, <2>3 DEF Shape
    <3>2. Mapped' = Mapped
      BY <3>1 DEF Mapped
    <3>3. Removing' = Removing
      BY <1>a, <1>b, <2>3 DEF Removing
    <3>4. QED BY <1>0, <1>a, <2>1, <3>2, <3>3 DEF SlotsInv, TypeOK
  <2>4. QED BY <2>2, <2>3
<1>10. AskedInv'
  BY <1>0, <1>s, ClosersDiffer, <1>a, <1>b DEF Shape, AskedInv, RequestInv, Key
<1>11. WaitInv'
  <2>1. ASSUME NEW s \in Requests, request'[s].step \in {"write", "await"},
               request'[s].answer = Nobody, s \notin cut'
        PROVE  pending'[request'[s].proc][request'[s].key] = s
    <3>1. Step(s) \in {"write", "await"} /\ request[s].answer = Nobody /\ s \notin cut
      BY <1>a, <2>1
    <3>2. Session(s) \in Requests /\ Key(s) \in Keys /\ pending[Session(s)][Key(s)] = s
      BY <1>0, <1>s, <3>1 DEF Shape, WaitInv, RequestInv, Key
    <3>3. Session(s) # p
      BY <1>a, <2>1, <3>1, <3>2
    <3>4. QED BY <1>a, <3>2, <3>3 DEF Key
  <2>2. ASSUME NEW q \in Requests, NEW j \in Keys \union {Hello}, pending'[q][j] # Nobody
        PROVE  request'[pending'[q][j]].step # "new"
    <3>1. pending'[q][j] = pending[q][j]
      BY <1>a, <2>2
    <3>2. QED BY <1>0, <1>a, <2>2, <3>1 DEF WaitInv
  <2>3. QED BY <2>1, <2>2 DEF WaitInv, Key
<1>12. AnswerInv'
  <2>1. ASSUME NEW q \in Requests, request'[q].answer # Nobody
        PROVE  request'[q].answer = request[q].answer /\ request[q].answer \in Requests
    BY <1>0, <1>s, ClosersDiffer, <1>a, <1>b, <2>1 DEF Shape, RequestInv
  <2>2. ASSUME NEW s \in Requests, Step(s) \in {"await", "ending", "done"}
        PROVE  /\ Step(s)' \in {"await", "ending", "done"}
               /\ Waits(s)' => Waits(s)
    BY <1>0, <1>s, ClosersDiffer, <1>a, <1>b, <2>2 DEF Shape, Waits, RequestInv
  <2>3. QED BY <2>1, <2>2, <1>0 DEF AnswerInv
<1>13. DeadInv'
  <2>1. ASSUME NEW q \in Requests, proc'[q].reader = "ended", closing'[Reader(q)].step # "remove",
               NEW s \in Requests, Session(s)' = q, Waits(s)'
        PROVE  FALSE
    <3>1. Session(s) = q /\ Waits(s) /\ s \notin cut' /\ proc[q].reader = "ended"
      BY <1>a, <2>1 DEF Waits
    <3>2. pending[q][Key(s)] = s /\ Key(s) \in Keys /\ Step(s) = "await"
      BY <1>0, <3>1 DEF WaitInv, RequestInv, Waits, Key
    <3>3. q # p
      BY <1>a, <3>1, <3>2
    <3>4. Reader(q) # c
      BY <1>0, <1>a, <1>b, <1>s, <3>3 DEF CloseInv, Shape
    <3>5. closing[Reader(q)].step # "remove"
      BY <1>a, <2>1, <3>4, CloserNames
    <3>6. QED BY <1>0, <3>1, <3>5 DEF DeadInv
  <2>2. QED BY <2>1 DEF DeadInv
<1>14. RunningInv'
  <2>1. ASSUME NEW q \in Requests, q \notin stray', proc'[q].state = "running", proc'[q].id # Nobody
        PROVE  sessions'[proc'[q].id] = q \/ Step(q)' = "insert"
    <3>1. q # p /\ q \notin stray /\ proc'[q] = proc[q]
      BY <1>a, <2>1
    <3>2. proc[q].id \in Ids /\ (sessions[proc[q].id] = q \/ Step(q) = "insert")
      BY <1>0, <1>s, <2>1, <3>1 DEF RunningInv, Shape
    <3>3. sessions[i] = q /\ i # Nobody => FALSE
      BY <1>s, <1>a, <1>b, <2>1, <3>1 DEF Shape
    <3>4. QED BY <1>s, <1>a, <3>1, <3>2, <3>3 DEF Shape
  <2>2. QED BY <2>1 DEF RunningInv
<1>15. ForgetInv'
  <2>1. \A s \in Requests, j \in Ids : Deletes(s, j)' => Deletes(s, j)
    BY <1>a DEF Deletes
  <2>2. \A j \in Ids : Forgotten(j)' => Forgotten(j)
    BY <1>a, <2>1 DEF Forgotten
  <2>3. \A j \in Ids : Resumes(j)' => Resumes(j)
    BY <1>a DEF Resumes
  <2>4. ASSUME NEW s \in Requests, NEW j \in Ids \ raced', Deletes(s, j)'
        PROVE  /\ sessions'[j] \in {Nobody, Session(s)'}
               /\ closing'[Handler(s)].step = "terminate" => sessions'[j] = Nobody
    <3>1. /\ Deletes(s, j) /\ sessions[j] \in {Nobody, Session(s)}
          /\ closing[Handler(s)].step = "terminate" => sessions[j] = Nobody
      BY <1>0, <1>a, <2>1, <2>4 DEF ForgetInv
    <3>2. c = Handler(s) => j = i
      BY <1>0, <1>a, <1>b, <3>1 DEF Deletes, CloseInv, EntryInv, RequestInv
    <3>3. QED BY <1>a, <3>1, <3>2, CloserNames
  <2>5. \A j \in ended' \ raced' : sessions'[j] = Nobody
    BY <1>0, <1>a DEF ForgetInv, TypeOK
  <2>6. QED BY <1>0, <1>a, <1>k, <2>2, <2>3, <2>4, <2>5 DEF ForgetInv
<1>16. QED BY <1>1, <1>2, <1>3, <1>4, <1>5, <1>6, <1>7, <1>8, <1>9, <1>10, <1>11, <1>12, <1>13,
    <1>14, <1>15 DEF IInv

\* A close of a reader or of the sweeper is done.
LEMMA TerminateAloneStep ==
  ASSUME IInv, NEW c \in Closers, c[1] # "handler", Terminate(c)
  PROVE  IInv'
<1> USE StdioAssumption DEF Step, Kind, Id, Session, Opens, Talks
<1>0. /\ TypeOK /\ RequestInv /\ IdInv /\ LockInv /\ FreshInv
      /\ ProcInv /\ EntryInv /\ CloseInv /\ SlotsInv /\ AskedInv
      /\ WaitInv /\ AnswerInv /\ DeadInv /\ RunningInv /\ ForgetInv
  BY DEF IInv
<1>s. Shape
  BY <1>0, Shapes
<1> DEFINE p == closing[c].proc
<1>g. /\ p \in Requests /\ proc[p].state # "none" /\ closing[c].step = "terminate"
      /\ proc' \in [Requests -> ProcState] /\ closing' \in [Closers -> ClosingState]
      /\ proc'[p].state = "dead" /\ proc'[p].id = proc[p].id /\ proc'[p].reader = proc[p].reader
      /\ \A q \in Requests : q # p => proc'[q] = proc[q]
      /\ \A d \in Closers : closing'[d] = IF d = c THEN NoClose ELSE closing[d]
      /\ UNCHANGED <<sessions, pending, asked, troubles, cut, lost, stray, raced>>
      /\ saved' \subseteq saved
  <2>1. /\ Gone(c) /\ UNCHANGED <<sessions, pending, asked, troubles, cut, lost, stray, raced>>
        /\ saved' \subseteq saved
    BY TerminateGoes
  <2>2. p \in Requests /\ proc[p].state # "none"
    BY <1>0, <1>s, <2>1 DEF CloseInv, FreshInv, Shape, Gone
  <2>3. QED BY <2>1, <2>2 DEF Gone
<1> HIDE DEF p
<1>o. Opening' = Opening
  BY DEF Terminate, AfterClose, Opening, Slot
<1>a. /\ \A q \in Requests : c # Handler(q)
      /\ UNCHANGED <<request, resuming, ended>>
      /\ p = closing[c].proc
  BY CloserNames DEF Terminate, AfterClose, p
<1>k. \A j \in Ids : j \in Known => j \in Known'
  BY <1>0, <1>s, ClosersDiffer, <1>a, <1>g DEF Shape, Known
<1>1. TypeOK'
  <2>1. live' \in 0..MaxSessions
    BY <1>o, TerminateGoes, GoneSlots
  <2>2. QED BY <1>0, <1>s, <1>g, <1>a, <2>1 DEF Shape, TypeOK
<1>2. RequestInv'
  BY <1>0, <1>s, ClosersDiffer, <1>a, <1>g DEF Shape, RequestInv, Key
<1>3. IdInv'
  BY <1>0, <1>s, ClosersDiffer, <1>a, <1>g, <1>k DEF Shape, IdInv, RequestInv
<1>4. LockInv'
  BY <1>0, <1>s, ClosersDiffer, <1>a, <1>g DEF Shape, LockInv, RequestInv
<1>5. FreshInv'
  <2>1. ASSUME NEW q \in Requests, Step(q)' \in {"new", "queue", "reserve", "evicting", "spawn"}
        PROVE  proc'[q].state = "none"
    BY <1>0, <1>s, ClosersDiffer, <1>a, <1>g, <2>1 DEF Shape, NoClose, FreshInv, RequestInv
  <2>2. ASSUME NEW q \in Requests, proc'[q].state = "none"
        PROVE  /\ proc'[q].id = Nobody /\ asked'[q] = {}
               /\ \A j \in Ids : sessions'[j] # q
    BY <1>0, <1>s, ClosersDiffer, <1>a, <1>g, <2>2 DEF Shape, NoClose, FreshInv
  <2>3. ASSUME NEW q \in Requests, proc'[q].state = "none"
        PROVE  \A s \in Requests : request'[s].proc # q
    BY <1>0, <1>s, ClosersDiffer, <1>a, <1>g, <2>3 DEF Shape, NoClose, FreshInv
  <2>4. ASSUME NEW q \in Requests, proc'[q].state = "none"
        PROVE  \A d \in Closers : closing'[d].proc # q
    BY <1>0, <1>s, ClosersDiffer, <1>a, <1>g, <2>4 DEF Shape, NoClose, FreshInv, RequestInv
  <2>5. QED BY <2>1, <2>2, <2>3, <2>4 DEF FreshInv
<1>6. ProcInv'
  BY <1>0, <1>s, ClosersDiffer, <1>a, <1>g, <1>k DEF Shape, ProcInv
<1>7. EntryInv'
  <2>1. \A j \in Ids : sessions'[j] # Nobody => proc'[sessions'[j]].id = j
    BY <1>0, <1>s, ClosersDiffer, <1>a, <1>g, <1>k DEF Shape, EntryInv, FreshInv
  <2>2. ASSUME NEW q \in Requests, Step(q)' \in Opens, Id(q)' # Nobody
        PROVE  sessions'[Id(q)'] = Nobody
    BY <1>0, <1>s, ClosersDiffer, <1>a, <1>g, <2>2, <1>k DEF Shape, EntryInv, RequestInv, IdInv
  <2>3. ASSUME NEW q \in Requests, Step(q)' = "insert"
        PROVE  proc'[q].id = Id(q)' /\ \A j \in Ids : sessions'[j] # q
    BY <1>0, <1>s, ClosersDiffer, <1>a, <1>g, <2>3, <1>k DEF Shape, EntryInv, FreshInv, RequestInv
  <2>4. ASSUME NEW q \in Requests, Kind(q)' = "delete", Step(q)' \in {"forget", "ending"}, Session(q)' # Nobody
        PROVE  proc'[Session(q)'].id = Id(q)'
    BY <1>0, <1>s, ClosersDiffer, <1>a, <1>g, <2>4, <1>k DEF Shape, EntryInv, RequestInv, FreshInv
  <2>5. QED BY <2>1, <2>2, <2>3, <2>4 DEF EntryInv
<1>8. CloseInv'
  <2>1. ASSUME NEW d \in Closers
        PROVE  /\ closing'[d].step = "none" => closing'[d] = NoClose
               /\ closing'[d].step # "none" => closing'[d].proc # Nobody
               /\ closing'[d].removed => closing'[d].step = "terminate"
    BY <1>0, <1>s, ClosersDiffer, <1>a, <1>g, <2>1 DEF Shape, NoClose, CloseInv, RequestInv
  <2>2. ASSUME NEW q \in Requests
        PROVE  closing'[Handler(q)].step # "none" <=> Step(q)' \in {"evicting", "ending"}
    BY <1>0, <1>s, ClosersDiffer, <1>a, <1>g, <2>2 DEF Shape, NoClose, CloseInv
  <2>3. ASSUME NEW q \in Requests, Step(q)' = "ending"
        PROVE  closing'[Handler(q)].proc = Session(q)'
    BY <1>0, <1>s, ClosersDiffer, <1>a, <1>g, <2>3 DEF Shape, NoClose, CloseInv, RequestInv
  <2>4. ASSUME NEW q \in Requests
        PROVE  /\ closing'[Reader(q)].proc \in {q, Nobody}
               /\ proc'[q].reader \in {"none", "reading"} => closing'[Reader(q)].step = "none"
    BY <1>0, <1>s, ClosersDiffer, <1>a, <1>g, <2>4 DEF Shape, NoClose, CloseInv, FreshInv, ProcInv
  <2>5. QED BY <2>1, <2>2, <2>3, <2>4 DEF CloseInv
<1>9. SlotsInv'
  BY <1>o, TerminateGoes, GoneSlots
<1>10. AskedInv'
  BY <1>0, <1>s, ClosersDiffer, <1>a, <1>g DEF Shape, AskedInv, RequestInv, Key
<1>11. WaitInv'
  <2>1. ASSUME NEW s \in Requests, request'[s].step \in {"write", "await"},
               request'[s].answer = Nobody, s \notin cut'
        PROVE  pending'[request'[s].proc][request'[s].key] = s
    BY <1>0, <1>s, ClosersDiffer, <1>a, <1>g, <2>1 DEF Shape, WaitInv, RequestInv, Key
  <2>2. ASSUME NEW q \in Requests, NEW j \in Keys \union {Hello}, pending'[q][j] # Nobody
        PROVE  request'[pending'[q][j]].step # "new"
    BY <1>0, <1>s, ClosersDiffer, <1>a, <1>g, <2>2 DEF Shape, WaitInv, RequestInv
  <2>3. QED BY <2>1, <2>2 DEF WaitInv, Key
<1>12. AnswerInv'
  <2>1. ASSUME NEW q \in Requests, request'[q].answer # Nobody
        PROVE  request'[q].answer = request[q].answer /\ request[q].answer \in Requests
    BY <1>0, <1>s, ClosersDiffer, <1>a, <1>g, <2>1 DEF Shape, RequestInv
  <2>2. ASSUME NEW s \in Requests, Step(s) \in {"await", "ending", "done"}
        PROVE  /\ Step(s)' \in {"await", "ending", "done"}
               /\ Waits(s)' => Waits(s)
    BY <1>0, <1>s, ClosersDiffer, <1>a, <1>g, <2>2 DEF Shape, Waits, RequestInv
  <2>3. QED BY <2>1, <2>2, <1>0 DEF AnswerInv
<1>13. DeadInv'
  <2>1. ASSUME NEW q \in Requests, proc'[q].reader = "ended", closing'[Reader(q)].step # "remove",
               NEW s \in Requests, Session(s)' = q
        PROVE  ~Waits(s)'
    BY <1>0, <1>s, ClosersDiffer, <1>a, <1>g, <2>1 DEF Shape, DeadInv, Waits, RequestInv
  <2>2. QED BY <2>1 DEF DeadInv
<1>14. RunningInv'
  <2>1. ASSUME NEW q \in Requests, q \notin stray', proc'[q].state = "running", proc'[q].id # Nobody
        PROVE  sessions'[proc'[q].id] = q \/ Step(q)' = "insert"
    BY <1>0, <1>s, ClosersDiffer, <1>a, <1>g, <2>1 DEF Shape, RunningInv, RequestInv
  <2>2. QED BY <2>1 DEF RunningInv
<1>15. ForgetInv'
  <2>1. \A s \in Requests, j \in Ids : Deletes(s, j)' =>
            /\ Deletes(s, j) /\ request'[s] = request[s]
            /\ closing'[Handler(s)] = closing[Handler(s)]
    BY <1>0, <1>s, ClosersDiffer, <1>a, <1>g DEF Shape, NoClose, Deletes, RequestInv
  <2>2. \A j \in Ids : Resumes(j)' => Resumes(j)
    BY <1>0, <1>s, ClosersDiffer, <1>a, <1>g DEF Shape, Resumes, LockInv, RequestInv
  <2>3. QED BY <1>0, <1>k, <1>a, <1>g, <2>1, <2>2, ForgetKeep
<1>16. QED BY <1>1, <1>2, <1>3, <1>4, <1>5, <1>6, <1>7, <1>8, <1>9, <1>10, <1>11, <1>12, <1>13,
    <1>14, <1>15 DEF IInv

\* A handler has closed another session and takes its slot.
LEMMA TerminateEvictStep ==
  ASSUME IInv, NEW r \in Requests, Terminate(Handler(r)), Step(r) = "evicting"
  PROVE  IInv'
<1> USE StdioAssumption DEF Step, Kind, Id, Session, Opens, Talks
<1>0. /\ TypeOK /\ RequestInv /\ IdInv /\ LockInv /\ FreshInv
      /\ ProcInv /\ EntryInv /\ CloseInv /\ SlotsInv /\ AskedInv
      /\ WaitInv /\ AnswerInv /\ DeadInv /\ RunningInv /\ ForgetInv
  BY DEF IInv
<1>s. Shape
  BY <1>0, Shapes
<1> DEFINE c == Handler(r)
<1>e. c \in Closers /\ c[1] = "handler" /\ c[2] = r /\ Terminate(c)
  BY CloserNames
<1> DEFINE p == closing[c].proc
<1>g. /\ p \in Requests /\ proc[p].state # "none" /\ closing[c].step = "terminate"
      /\ proc' \in [Requests -> ProcState] /\ closing' \in [Closers -> ClosingState]
      /\ proc'[p].state = "dead" /\ proc'[p].id = proc[p].id /\ proc'[p].reader = proc[p].reader
      /\ \A q \in Requests : q # p => proc'[q] = proc[q]
      /\ \A d \in Closers : closing'[d] = IF d = c THEN NoClose ELSE closing[d]
      /\ UNCHANGED <<sessions, saved, pending, asked, troubles, cut, lost, stray,
                     raced>>
  <2>1. Gone(c) /\ UNCHANGED <<sessions, saved, pending, asked, troubles, cut, lost, stray,
                               raced>>
    BY <1>e, TerminateGoes, CloserNames DEF Sweeper
  <2>2. p \in Requests /\ proc[p].state # "none"
    BY <1>0, <1>s, <1>e, <2>1 DEF CloseInv, FreshInv, Shape, Gone
  <2>3. QED BY <2>1, <2>2 DEF Gone
<1>a. /\ Moved(r, "reserve", Session(r)) /\ UNCHANGED <<resuming, ended>> /\ Step(r) = "evicting"
      /\ p = closing[c].proc
  <2>1. Go(r, "reserve") /\ UNCHANGED <<resuming, ended>>
    BY <1>e DEF Terminate, AfterClose
  <2>2. QED BY <1>0, <2>1, GoMoves DEF RequestSteps
<1> HIDE DEF p
<1>o. Opening' = Opening
  <2>1. \A s \in Requests : s \in Opening' <=> s \in Opening
    BY <1>a DEF Opening, Slot, Moved, Others
  <2>2. QED BY <2>1 DEF Opening
<1>k. \A j \in Ids : j \in Known => j \in Known'
  BY <1>0, <1>s, ClosersDiffer, <1>a, <1>g DEF Shape, Moved, Others, Known
<1>1. TypeOK'
  <2>1. live' \in 0..MaxSessions
    BY <1>o, <1>e, TerminateGoes, GoneSlots
  <2>2. QED BY <1>0, <1>s, <1>g, <1>a, <2>1 DEF Shape, TypeOK, Moved, Others
<1>2. RequestInv'
  BY <1>0, <1>s, ClosersDiffer, <1>a, <1>g DEF Shape, Moved, Others, RequestInv, Key
<1>3. IdInv'
  BY <1>0, <1>s, ClosersDiffer, <1>a, <1>g, <1>k DEF Shape, Moved, Others, IdInv, RequestInv
<1>4. LockInv'
  BY <1>0, <1>s, ClosersDiffer, <1>a, <1>g DEF Shape, Moved, Others, LockInv, RequestInv
<1>5. FreshInv'
  <2>1. ASSUME NEW q \in Requests, Step(q)' \in {"new", "queue", "reserve", "evicting", "spawn"}
        PROVE  proc'[q].state = "none"
    BY <1>0, <1>s, ClosersDiffer, <1>a, <1>g, <2>1 DEF Shape, Moved, Others, NoClose, FreshInv,
        RequestInv
  <2>2. ASSUME NEW q \in Requests, proc'[q].state = "none"
        PROVE  /\ proc'[q].id = Nobody /\ asked'[q] = {}
               /\ \A j \in Ids : sessions'[j] # q
    BY <1>0, <1>s, ClosersDiffer, <1>a, <1>g, <2>2 DEF Shape, Moved, Others, NoClose, FreshInv
  <2>3. ASSUME NEW q \in Requests, proc'[q].state = "none"
        PROVE  \A s \in Requests : request'[s].proc # q
    BY <1>0, <1>s, ClosersDiffer, <1>a, <1>g, <2>3 DEF Shape, Moved, Others, NoClose, FreshInv
  <2>4. ASSUME NEW q \in Requests, proc'[q].state = "none"
        PROVE  \A d \in Closers : closing'[d].proc # q
    BY <1>0, <1>s, ClosersDiffer, <1>a, <1>g, <2>4 DEF Shape, Moved, Others, NoClose, FreshInv,
        RequestInv
  <2>5. QED BY <2>1, <2>2, <2>3, <2>4 DEF FreshInv
<1>6. ProcInv'
  BY <1>0, <1>s, ClosersDiffer, <1>a, <1>g, <1>k DEF Shape, Moved, Others, ProcInv
<1>7. EntryInv'
  <2>1. \A j \in Ids : sessions'[j] # Nobody => proc'[sessions'[j]].id = j
    BY <1>0, <1>s, ClosersDiffer, <1>a, <1>g, <1>k DEF Shape, Moved, Others, EntryInv, FreshInv
  <2>2. ASSUME NEW q \in Requests, Step(q)' \in Opens, Id(q)' # Nobody
        PROVE  sessions'[Id(q)'] = Nobody
    BY <1>0, <1>s, ClosersDiffer, <1>a, <1>g, <2>2, <1>k DEF Shape, Moved, Others, EntryInv,
        RequestInv, IdInv
  <2>3. ASSUME NEW q \in Requests, Step(q)' = "insert"
        PROVE  proc'[q].id = Id(q)' /\ \A j \in Ids : sessions'[j] # q
    BY <1>0, <1>s, ClosersDiffer, <1>a, <1>g, <2>3, <1>k DEF Shape, Moved, Others, EntryInv,
        FreshInv, RequestInv
  <2>4. ASSUME NEW q \in Requests, Kind(q)' = "delete", Step(q)' \in {"forget", "ending"}, Session(q)' # Nobody
        PROVE  proc'[Session(q)'].id = Id(q)'
    BY <1>0, <1>s, ClosersDiffer, <1>a, <1>g, <2>4, <1>k DEF Shape, Moved, Others, EntryInv,
        RequestInv, FreshInv
  <2>5. QED BY <2>1, <2>2, <2>3, <2>4 DEF EntryInv
<1>8. CloseInv'
  <2>1. ASSUME NEW d \in Closers
        PROVE  /\ closing'[d].step = "none" => closing'[d] = NoClose
               /\ closing'[d].step # "none" => closing'[d].proc # Nobody
               /\ closing'[d].removed => closing'[d].step = "terminate"
    BY <1>0, <1>s, ClosersDiffer, <1>a, <1>g, <2>1 DEF Shape, Moved, Others, NoClose, CloseInv,
        RequestInv
  <2>2. ASSUME NEW q \in Requests
        PROVE  closing'[Handler(q)].step # "none" <=> Step(q)' \in {"evicting", "ending"}
    BY <1>0, <1>s, ClosersDiffer, <1>a, <1>g, <2>2 DEF Shape, Moved, Others, NoClose, CloseInv
  <2>3. ASSUME NEW q \in Requests, Step(q)' = "ending"
        PROVE  closing'[Handler(q)].proc = Session(q)'
    BY <1>0, <1>s, ClosersDiffer, <1>a, <1>g, <2>3 DEF Shape, Moved, Others, NoClose, CloseInv,
        RequestInv
  <2>4. ASSUME NEW q \in Requests
        PROVE  /\ closing'[Reader(q)].proc \in {q, Nobody}
               /\ proc'[q].reader \in {"none", "reading"} => closing'[Reader(q)].step = "none"
    BY <1>0, <1>s, ClosersDiffer, <1>a, <1>g, <2>4 DEF Shape, Moved, Others, NoClose, CloseInv,
        FreshInv, ProcInv
  <2>5. QED BY <2>1, <2>2, <2>3, <2>4 DEF CloseInv
<1>9. SlotsInv'
  BY <1>o, <1>e, TerminateGoes, GoneSlots
<1>10. AskedInv'
  BY <1>0, <1>s, ClosersDiffer, <1>a, <1>g DEF Shape, Moved, Others, AskedInv, RequestInv, Key
<1>11. WaitInv'
  <2>1. ASSUME NEW s \in Requests, request'[s].step \in {"write", "await"},
               request'[s].answer = Nobody, s \notin cut'
        PROVE  pending'[request'[s].proc][request'[s].key] = s
    <3>1. request'[s] = request[s] /\ Step(s) \in {"write", "await"}
      BY <1>a, <2>1 DEF Moved, Others
    <3>2. QED BY <1>0, <1>g, <2>1, <3>1 DEF WaitInv, Key
  <2>2. ASSUME NEW q \in Requests, NEW j \in Keys \union {Hello}, pending'[q][j] # Nobody
        PROVE  request'[pending'[q][j]].step # "new"
    <3>1. pending'[q][j] = pending[q][j] /\ pending[q][j] \in Requests
      BY <1>s, <1>g, <2>2 DEF Shape
    <3>2. request'[r].step # "new"
      BY <1>a DEF Moved
    <3>3. QED BY <1>0, <1>a, <2>2, <3>1, <3>2 DEF Moved, Others, WaitInv
  <2>3. QED BY <2>1, <2>2 DEF WaitInv, Key
<1>12. AnswerInv'
  <2>1. ASSUME NEW q \in Requests, request'[q].answer # Nobody
        PROVE  request'[q].answer = request[q].answer /\ request[q].answer \in Requests
    BY <1>0, <1>s, ClosersDiffer, <1>a, <1>g, <2>1 DEF Shape, Moved, Others, RequestInv
  <2>2. ASSUME NEW s \in Requests, Step(s) \in {"await", "ending", "done"}
        PROVE  /\ Step(s)' \in {"await", "ending", "done"}
               /\ Waits(s)' => Waits(s)
    BY <1>0, <1>s, ClosersDiffer, <1>a, <1>g, <2>2 DEF Shape, Moved, Others, Waits, RequestInv
  <2>3. QED BY <2>1, <2>2, <1>0 DEF AnswerInv
<1>13. DeadInv'
  <2>1. ASSUME NEW q \in Requests, proc'[q].reader = "ended", closing'[Reader(q)].step # "remove",
               NEW s \in Requests, Session(s)' = q
        PROVE  ~Waits(s)'
    BY <1>0, <1>s, ClosersDiffer, <1>a, <1>g, <2>1 DEF Shape, Moved, Others, DeadInv, Waits,
        RequestInv
  <2>2. QED BY <2>1 DEF DeadInv
<1>14. RunningInv'
  <2>1. ASSUME NEW q \in Requests, q \notin stray', proc'[q].state = "running", proc'[q].id # Nobody
        PROVE  sessions'[proc'[q].id] = q \/ Step(q)' = "insert"
    BY <1>0, <1>s, ClosersDiffer, <1>a, <1>g, <2>1 DEF Shape, Moved, Others, RunningInv, RequestInv
  <2>2. QED BY <2>1 DEF RunningInv
<1>15. ForgetInv'
  <2>1. \A s \in Requests, j \in Ids : Deletes(s, j)' =>
            /\ Deletes(s, j) /\ request'[s] = request[s]
            /\ closing'[Handler(s)] = closing[Handler(s)]
    BY <1>0, <1>s, ClosersDiffer, <1>a, <1>g DEF Shape, Moved, Others, NoClose, Deletes, RequestInv
  <2>2. \A j \in Ids : Resumes(j)' => Resumes(j)
    BY <1>0, <1>s, ClosersDiffer, <1>a, <1>g DEF Shape, Moved, Others, Resumes, LockInv, RequestInv
  <2>3. QED BY <1>0, <1>k, <1>a, <1>g, <2>1, <2>2, ForgetKeep
<1>16. QED BY <1>1, <1>2, <1>3, <1>4, <1>5, <1>6, <1>7, <1>8, <1>9, <1>10, <1>11, <1>12, <1>13,
    <1>14, <1>15 DEF IInv

\* A handler has closed what it had to and comes to its end.
LEMMA TerminateEndStep ==
  ASSUME IInv, NEW r \in Requests, Terminate(Handler(r)), Step(r) # "evicting"
  PROVE  IInv'
<1> USE StdioAssumption DEF Step, Kind, Id, Session, Opens, Talks
<1>0. /\ TypeOK /\ RequestInv /\ IdInv /\ LockInv /\ FreshInv
      /\ ProcInv /\ EntryInv /\ CloseInv /\ SlotsInv /\ AskedInv
      /\ WaitInv /\ AnswerInv /\ DeadInv /\ RunningInv /\ ForgetInv
  BY DEF IInv
<1>s. Shape
  BY <1>0, Shapes
<1> DEFINE c == Handler(r)
<1>e. c \in Closers /\ c[1] = "handler" /\ c[2] = r /\ Terminate(c)
  BY CloserNames
<1> DEFINE p == closing[c].proc
<1>g. /\ p \in Requests /\ proc[p].state # "none" /\ closing[c].step = "terminate"
      /\ proc' \in [Requests -> ProcState] /\ closing' \in [Closers -> ClosingState]
      /\ proc'[p].state = "dead" /\ proc'[p].id = proc[p].id /\ proc'[p].reader = proc[p].reader
      /\ \A q \in Requests : q # p => proc'[q] = proc[q]
      /\ \A d \in Closers : closing'[d] = IF d = c THEN NoClose ELSE closing[d]
      /\ UNCHANGED <<sessions, saved, pending, asked, troubles, cut, lost, stray,
                     raced>>
  <2>1. Gone(c) /\ UNCHANGED <<sessions, saved, pending, asked, troubles, cut, lost, stray,
                               raced>>
    BY <1>e, TerminateGoes, CloserNames DEF Sweeper
  <2>2. p \in Requests /\ proc[p].state # "none"
    BY <1>0, <1>s, <1>e, <2>1 DEF CloseInv, FreshInv, Shape, Gone
  <2>3. QED BY <2>1, <2>2 DEF Gone
<1>a. /\ Step(r) = "ending" /\ p = closing[c].proc /\ p = Session(r)
      /\ \E kind \in {"initialize", "call"} :
            Blanked(r, kind) /\ (kind = "initialize" => Kind(r) = "initialize")
      /\ Unlock(r)
      /\ ended' \in SUBSET Ids
      /\ ended' = IF Kind(r) = "delete" THEN ended \union {Id(r)} ELSE ended
  <2>1. Finish(r) /\ ended' = IF Kind(r) = "delete" THEN ended \union {Id(r)} ELSE ended
    BY <1>e DEF Terminate, AfterClose
  <2>2. Step(r) = "ending" /\ p = Session(r)
    BY <1>0, <1>g DEF CloseInv
  <2>3. Kind(r) = "delete" => Id(r) \in Ids
    BY <1>0, <1>s, <2>2 DEF IdInv, Shape
  <2>4. QED BY <1>0, <2>1, <2>2, <2>3, FinishBlanks DEF TypeOK
<1> HIDE DEF p
<1>o. Opening' = Opening
  <2>1. \A s \in Requests : s \in Opening' <=> s \in Opening
    BY <1>a DEF Opening, Slot, Blanked, Others
  <2>2. QED BY <2>1 DEF Opening
<1>k. \A j \in Ids : j \in Known => j \in Known'
  BY <1>0, <1>s, <1>a DEF Shape, Blanked, Others, Known
<1>1. TypeOK'
  <2>1. live' \in 0..MaxSessions
    BY <1>o, <1>e, TerminateGoes, GoneSlots
  <2>2. QED BY <1>0, <1>s, <1>g, <1>a, <2>1 DEF Shape, TypeOK, Blanked, Others, Unlock
<1>2. RequestInv'
  BY <1>0, <1>s, ClosersDiffer, <1>a, <1>g DEF Shape, Blanked, Others, RequestInv, Key
<1>3. IdInv'
  BY <1>0, <1>s, ClosersDiffer, <1>a, <1>g, <1>k DEF Shape, Blanked, Others, IdInv, RequestInv
<1>4. LockInv'
  BY <1>0, <1>s, ClosersDiffer, <1>a, <1>g DEF Shape, Blanked, Others, Unlock, LockInv, RequestInv
<1>5. FreshInv'
  <2>1. ASSUME NEW q \in Requests, Step(q)' \in {"new", "queue", "reserve", "evicting", "spawn"}
        PROVE  proc'[q].state = "none"
    BY <1>0, <1>s, ClosersDiffer, <1>a, <1>g, <2>1 DEF Shape, Blanked, Others, NoClose, FreshInv,
        RequestInv
  <2>2. ASSUME NEW q \in Requests, proc'[q].state = "none"
        PROVE  /\ proc'[q].id = Nobody /\ asked'[q] = {}
               /\ \A j \in Ids : sessions'[j] # q
    BY <1>0, <1>s, ClosersDiffer, <1>a, <1>g, <2>2 DEF Shape, Blanked, Others, NoClose, FreshInv
  <2>3. ASSUME NEW q \in Requests, proc'[q].state = "none"
        PROVE  \A s \in Requests : request'[s].proc # q
    BY <1>0, <1>s, ClosersDiffer, <1>a, <1>g, <2>3 DEF Shape, Blanked, Others, NoClose, FreshInv
  <2>4. ASSUME NEW q \in Requests, proc'[q].state = "none"
        PROVE  \A d \in Closers : closing'[d].proc # q
    BY <1>0, <1>s, ClosersDiffer, <1>a, <1>g, <2>4 DEF Shape, Blanked, Others, NoClose, FreshInv,
        RequestInv
  <2>5. QED BY <2>1, <2>2, <2>3, <2>4 DEF FreshInv
<1>6. ProcInv'
  BY <1>0, <1>s, ClosersDiffer, <1>a, <1>g, <1>k DEF Shape, Blanked, Others, ProcInv
<1>7. EntryInv'
  <2>1. \A j \in Ids : sessions'[j] # Nobody => proc'[sessions'[j]].id = j
    BY <1>0, <1>s, ClosersDiffer, <1>a, <1>g, <1>k DEF Shape, Blanked, Others, EntryInv, FreshInv
  <2>2. ASSUME NEW q \in Requests, Step(q)' \in Opens, Id(q)' # Nobody
        PROVE  sessions'[Id(q)'] = Nobody
    BY <1>0, <1>s, ClosersDiffer, <1>a, <1>g, <2>2, <1>k DEF Shape, Blanked, Others, EntryInv,
        RequestInv, IdInv
  <2>3. ASSUME NEW q \in Requests, Step(q)' = "insert"
        PROVE  proc'[q].id = Id(q)' /\ \A j \in Ids : sessions'[j] # q
    BY <1>0, <1>s, ClosersDiffer, <1>a, <1>g, <2>3, <1>k DEF Shape, Blanked, Others, EntryInv,
        FreshInv, RequestInv
  <2>4. ASSUME NEW q \in Requests, Kind(q)' = "delete", Step(q)' \in {"forget", "ending"}, Session(q)' # Nobody
        PROVE  proc'[Session(q)'].id = Id(q)'
    BY <1>0, <1>s, ClosersDiffer, <1>a, <1>g, <2>4, <1>k DEF Shape, Blanked, Others, EntryInv,
        RequestInv, FreshInv
  <2>5. QED BY <2>1, <2>2, <2>3, <2>4 DEF EntryInv
<1>8. CloseInv'
  <2>1. ASSUME NEW d \in Closers
        PROVE  /\ closing'[d].step = "none" => closing'[d] = NoClose
               /\ closing'[d].step # "none" => closing'[d].proc # Nobody
               /\ closing'[d].removed => closing'[d].step = "terminate"
    BY <1>0, <1>s, ClosersDiffer, <1>a, <1>g, <2>1 DEF Shape, Blanked, Others, NoClose, CloseInv,
        RequestInv
  <2>2. ASSUME NEW q \in Requests
        PROVE  closing'[Handler(q)].step # "none" <=> Step(q)' \in {"evicting", "ending"}
    BY <1>0, <1>s, ClosersDiffer, <1>a, <1>g, <2>2 DEF Shape, Blanked, Others, NoClose, CloseInv
  <2>3. ASSUME NEW q \in Requests, Step(q)' = "ending"
        PROVE  closing'[Handler(q)].proc = Session(q)'
    BY <1>0, <1>s, ClosersDiffer, <1>a, <1>g, <2>3 DEF Shape, Blanked, Others, NoClose, CloseInv,
        RequestInv
  <2>4. ASSUME NEW q \in Requests
        PROVE  /\ closing'[Reader(q)].proc \in {q, Nobody}
               /\ proc'[q].reader \in {"none", "reading"} => closing'[Reader(q)].step = "none"
    BY <1>0, <1>s, ClosersDiffer, <1>a, <1>g, <2>4 DEF Shape, Blanked, Others, NoClose, CloseInv,
        FreshInv, ProcInv
  <2>5. QED BY <2>1, <2>2, <2>3, <2>4 DEF CloseInv
<1>9. SlotsInv'
  BY <1>o, <1>e, TerminateGoes, GoneSlots
<1>10. AskedInv'
  BY <1>0, <1>s, ClosersDiffer, <1>a, <1>g DEF Shape, Blanked, Others, AskedInv, RequestInv, Key
<1>11. WaitInv'
  <2>1. ASSUME NEW s \in Requests, request'[s].step \in {"write", "await"},
               request'[s].answer = Nobody, s \notin cut'
        PROVE  pending'[request'[s].proc][request'[s].key] = s
    <3>1. request'[s] = request[s] /\ Step(s) \in {"write", "await"}
      BY <1>a, <2>1 DEF Blanked, Others
    <3>2. QED BY <1>0, <1>g, <2>1, <3>1 DEF WaitInv, Key
  <2>2. ASSUME NEW q \in Requests, NEW j \in Keys \union {Hello}, pending'[q][j] # Nobody
        PROVE  request'[pending'[q][j]].step # "new"
    <3>1. pending'[q][j] = pending[q][j] /\ pending[q][j] \in Requests
      BY <1>s, <1>g, <2>2 DEF Shape
    <3>2. request'[r].step # "new"
      BY <1>a DEF Blanked
    <3>3. QED BY <1>0, <1>a, <2>2, <3>1, <3>2 DEF Blanked, Others, WaitInv
  <2>3. QED BY <2>1, <2>2 DEF WaitInv, Key
<1>12. AnswerInv'
  <2>1. ASSUME NEW q \in Requests, request'[q].answer # Nobody
        PROVE  request'[q].answer = request[q].answer /\ request[q].answer \in Requests
    BY <1>0, <1>s, ClosersDiffer, <1>a, <1>g, <2>1 DEF Shape, Blanked, Others, RequestInv
  <2>2. ASSUME NEW s \in Requests, Step(s) \in {"await", "ending", "done"}
        PROVE  /\ Step(s)' \in {"await", "ending", "done"}
               /\ Waits(s)' => Waits(s)
    BY <1>0, <1>s, ClosersDiffer, <1>a, <1>g, <2>2 DEF Shape, Blanked, Others, Waits, RequestInv
  <2>3. QED BY <2>1, <2>2, <1>0 DEF AnswerInv
<1>13. DeadInv'
  <2>1. ASSUME NEW q \in Requests, proc'[q].reader = "ended", closing'[Reader(q)].step # "remove",
               NEW s \in Requests, Session(s)' = q
        PROVE  ~Waits(s)'
    BY <1>0, <1>s, ClosersDiffer, <1>a, <1>g, <2>1 DEF Shape, Blanked, Others, DeadInv, Waits,
        RequestInv
  <2>2. QED BY <2>1 DEF DeadInv
<1>14. RunningInv'
  <2>1. ASSUME NEW q \in Requests, q \notin stray', proc'[q].state = "running", proc'[q].id # Nobody
        PROVE  sessions'[proc'[q].id] = q \/ Step(q)' = "insert"
    BY <1>0, <1>s, ClosersDiffer, <1>a, <1>g, <2>1 DEF Shape, Blanked, Others, RunningInv,
        RequestInv
  <2>2. QED BY <2>1 DEF RunningInv
<1>15. ForgetInv'
  <2>1. \A s \in Requests, j \in Ids : Deletes(s, j)' =>
            /\ Deletes(s, j) /\ s # r /\ request'[s] = request[s]
            /\ closing'[Handler(s)] = closing[Handler(s)]
    BY <1>0, <1>s, ClosersDiffer, <1>a, <1>g DEF Shape, Blanked, Others, Deletes
  <2>2. \A i \in Ids : i \in ended' => i \in ended \/ Deletes(r, i)
    BY <1>a DEF Deletes
  <2>3. \A i \in Ids : Forgotten(i)' => Forgotten(i)
    BY <2>1, <2>2 DEF Forgotten
  <2>4. \A j \in Ids : Resumes(j)' => Resumes(j)
    BY <1>s, <1>a DEF Shape, Blanked, Others, Unlock, Resumes
  <2>5. \A i \in Ids \ raced : Deletes(r, i) => sessions[i] = Nobody
    BY <1>0, <1>g DEF ForgetInv
  <2>6. \A i \in ended' \ raced' : sessions'[i] = Nobody
    BY <1>0, <1>a, <1>g, <2>2, <2>5 DEF ForgetInv
  <2>7. QED BY <1>0, <1>s, <1>k, <1>g, <2>1, <2>3, <2>4, <2>6 DEF ForgetInv
<1>16. QED BY <1>1, <1>2, <1>3, <1>4, <1>5, <1>6, <1>7, <1>8, <1>9, <1>10, <1>11, <1>12, <1>13,
    <1>14, <1>15 DEF IInv

\* A DELETE forgets the row and closes the session it found.
LEMMA ForgetCloses ==
  ASSUME IInv, NEW r \in Requests, Step(r) = "forget", Id(r) \in Known,
         saved' = saved \ {Id(r)}, raced' \in SUBSET Ids, raced \subseteq raced',
         Resumes(Id(r)) \/ sessions[Id(r)] \notin {Nobody, Session(r)} => Id(r) \in raced',
         Session(r) # Nobody, Moved(r, "ending", Session(r)), Closes(Handler(r), Session(r)),
         UNCHANGED <<sessions, live, resuming, proc, pending, asked, troubles, cut,
                     lost, stray, ended>>
  PROVE  IInv'
<1> USE StdioAssumption DEF Step, Kind, Id, Session, Opens, Talks
<1>0. /\ TypeOK /\ RequestInv /\ IdInv /\ LockInv /\ FreshInv
      /\ ProcInv /\ EntryInv /\ CloseInv /\ SlotsInv /\ AskedInv
      /\ WaitInv /\ AnswerInv /\ DeadInv /\ RunningInv /\ ForgetInv
  BY DEF IInv
<1>s. Shape
  BY <1>0, Shapes
<1>k. \A j \in Ids : j \in Known => j \in Known'
  BY <1>0, <1>s, ClosersDiffer DEF Shape, Moved, Others, Known
<1>1. TypeOK'
  BY <1>0, <1>s, ClosersDiffer DEF Shape, Moved, Others, Closes, TypeOK
<1>2. RequestInv'
  BY <1>0, <1>s, ClosersDiffer DEF Shape, Moved, Others, RequestInv, Key
<1>3. IdInv'
  BY <1>0, <1>s, ClosersDiffer, <1>k DEF Shape, Moved, Others, IdInv, RequestInv
<1>4. LockInv'
  BY <1>0, <1>s, ClosersDiffer DEF Shape, Moved, Others, LockInv, RequestInv
<1>5. FreshInv'
  <2>1. ASSUME NEW q \in Requests, Step(q)' \in {"new", "queue", "reserve", "evicting", "spawn"}
        PROVE  proc'[q].state = "none"
    BY <1>0, <1>s, ClosersDiffer, <2>1 DEF Shape, Moved, Others, Closes, FreshInv, RequestInv
  <2>2. ASSUME NEW q \in Requests, proc'[q].state = "none"
        PROVE  /\ proc'[q].id = Nobody /\ asked'[q] = {}
               /\ \A j \in Ids : sessions'[j] # q
    BY <1>0, <1>s, ClosersDiffer, <2>2 DEF Shape, Moved, Others, Closes, FreshInv
  <2>3. ASSUME NEW q \in Requests, proc'[q].state = "none"
        PROVE  \A s \in Requests : request'[s].proc # q
    BY <1>0, <1>s, ClosersDiffer, <2>3 DEF Shape, Moved, Others, Closes, FreshInv
  <2>4. ASSUME NEW q \in Requests, proc'[q].state = "none"
        PROVE  \A d \in Closers : closing'[d].proc # q
    BY <1>0, <1>s, ClosersDiffer, <2>4 DEF Shape, Moved, Others, Closes, FreshInv, RequestInv
  <2>5. QED BY <2>1, <2>2, <2>3, <2>4 DEF FreshInv
<1>6. ProcInv'
  BY <1>0, <1>s, ClosersDiffer, <1>k DEF Shape, Moved, Others, ProcInv
<1>7. EntryInv'
  <2>1. \A j \in Ids : sessions'[j] # Nobody => proc'[sessions'[j]].id = j
    BY <1>0, <1>s, ClosersDiffer, <1>k DEF Shape, Moved, Others, EntryInv, FreshInv
  <2>2. ASSUME NEW q \in Requests, Step(q)' \in Opens, Id(q)' # Nobody
        PROVE  sessions'[Id(q)'] = Nobody
    BY <1>0, <1>s, ClosersDiffer, <2>2, <1>k DEF Shape, Moved, Others, EntryInv, RequestInv, IdInv
  <2>3. ASSUME NEW q \in Requests, Step(q)' = "insert"
        PROVE  proc'[q].id = Id(q)' /\ \A j \in Ids : sessions'[j] # q
    BY <1>0, <1>s, ClosersDiffer, <2>3, <1>k DEF Shape, Moved, Others, EntryInv, FreshInv,
        RequestInv
  <2>4. ASSUME NEW q \in Requests, Kind(q)' = "delete", Step(q)' \in {"forget", "ending"}, Session(q)' # Nobody
        PROVE  proc'[Session(q)'].id = Id(q)'
    BY <1>0, <1>s, ClosersDiffer, <2>4, <1>k DEF Shape, Moved, Others, EntryInv, RequestInv,
        FreshInv
  <2>5. QED BY <2>1, <2>2, <2>3, <2>4 DEF EntryInv
<1>8. CloseInv'
  <2>1. ASSUME NEW d \in Closers
        PROVE  /\ closing'[d].step = "none" => closing'[d] = NoClose
               /\ closing'[d].step # "none" => closing'[d].proc # Nobody
               /\ closing'[d].removed => closing'[d].step = "terminate"
    BY <1>0, <1>s, ClosersDiffer, <2>1 DEF Shape, Moved, Others, Closes, CloseInv, RequestInv
  <2>2. ASSUME NEW q \in Requests
        PROVE  closing'[Handler(q)].step # "none" <=> Step(q)' \in {"evicting", "ending"}
    BY <1>0, <1>s, ClosersDiffer, <2>2 DEF Shape, Moved, Others, Closes, CloseInv
  <2>3. ASSUME NEW q \in Requests, Step(q)' = "ending"
        PROVE  closing'[Handler(q)].proc = Session(q)'
    BY <1>0, <1>s, ClosersDiffer, <2>3 DEF Shape, Moved, Others, Closes, CloseInv, RequestInv
  <2>4. ASSUME NEW q \in Requests
        PROVE  /\ closing'[Reader(q)].proc \in {q, Nobody}
               /\ proc'[q].reader \in {"none", "reading"} => closing'[Reader(q)].step = "none"
    BY <1>0, <1>s, ClosersDiffer, <2>4 DEF Shape, Moved, Others, Closes, CloseInv, FreshInv, ProcInv
  <2>5. QED BY <2>1, <2>2, <2>3, <2>4 DEF CloseInv
<1>9. SlotsInv'
  <2>0. ~closing[Handler(r)].removed
    BY <1>0, <1>s, ClosersDiffer DEF CloseInv
  <2>1. \A d \in Closers : closing'[d].removed <=> closing[d].removed
    BY <1>0, <1>s, ClosersDiffer, <2>0 DEF Shape, Closes, Removing
  <2>2. \A s \in Requests : s \in Opening' <=> s \in Opening
    BY <1>0, <1>s, ClosersDiffer DEF Shape, Moved, Others, Opening, Slot, RequestInv
  <2>3. QED BY <1>0, <1>1, <2>1, <2>2, SlotsKeep
<1>10. AskedInv'
  BY <1>0, <1>s, ClosersDiffer DEF Shape, Moved, Others, AskedInv, RequestInv, Key
<1>11. WaitInv'
  <2>1. ASSUME NEW s \in Requests, request'[s].step \in {"write", "await"},
               request'[s].answer = Nobody, s \notin cut'
        PROVE  pending'[request'[s].proc][request'[s].key] = s
    BY <1>0, <1>s, ClosersDiffer, <2>1 DEF Shape, Moved, Others, WaitInv, RequestInv, Key
  <2>2. ASSUME NEW q \in Requests, NEW j \in Keys \union {Hello}, pending'[q][j] # Nobody
        PROVE  request'[pending'[q][j]].step # "new"
    BY <1>0, <1>s, ClosersDiffer, <2>2 DEF Shape, Moved, Others, WaitInv, RequestInv
  <2>3. QED BY <2>1, <2>2 DEF WaitInv, Key
<1>12. AnswerInv'
  <2>1. ASSUME NEW q \in Requests, request'[q].answer # Nobody
        PROVE  request'[q].answer = request[q].answer /\ request[q].answer \in Requests
    BY <1>0, <1>s, ClosersDiffer, <2>1 DEF Shape, Moved, Others, RequestInv
  <2>2. ASSUME NEW s \in Requests, Step(s) \in {"await", "ending", "done"}
        PROVE  /\ Step(s)' \in {"await", "ending", "done"}
               /\ Waits(s)' => Waits(s)
    BY <1>0, <1>s, ClosersDiffer, <2>2 DEF Shape, Moved, Others, Waits, RequestInv
  <2>3. QED BY <2>1, <2>2, <1>0 DEF AnswerInv
<1>13. DeadInv'
  <2>1. ASSUME NEW q \in Requests, proc'[q].reader = "ended", closing'[Reader(q)].step # "remove",
               NEW s \in Requests, Session(s)' = q
        PROVE  ~Waits(s)'
    BY <1>0, <1>s, ClosersDiffer, <2>1 DEF Shape, Moved, Others, Closes, DeadInv, Waits, RequestInv
  <2>2. QED BY <2>1 DEF DeadInv
<1>14. RunningInv'
  <2>1. ASSUME NEW q \in Requests, q \notin stray', proc'[q].state = "running", proc'[q].id # Nobody
        PROVE  sessions'[proc'[q].id] = q \/ Step(q)' = "insert"
    BY <1>0, <1>s, ClosersDiffer, <2>1 DEF Shape, Moved, Others, RunningInv, RequestInv
  <2>2. QED BY <2>1 DEF RunningInv
<1>15. ForgetInv'
  <2>0. Kind(r) = "delete" /\ Id(r) \in Ids
    BY <1>0, <1>s DEF RequestInv, Shape
  <2>1. \A s \in Requests, j \in Ids : Deletes(s, j)' =>
            \/ s = r /\ j = Id(r) /\ closing'[Handler(s)].step = "remove" /\ Session(s)' = Session(s)
            \/ /\ Deletes(s, j) /\ request'[s] = request[s]
               /\ closing'[Handler(s)] = closing[Handler(s)]
    BY <1>s, ClosersDiffer DEF Moved, Others, Closes, Deletes
  <2>2. \A i \in Ids : Forgotten(i)' => Forgotten(i) \/ i = Id(r)
    BY <2>1 DEF Forgotten
  <2>3. \A j \in Ids : Resumes(j)' => Resumes(j)
    BY <1>0, <1>s DEF Shape, Moved, Others, Resumes, LockInv
  <2>4. \A i \in Ids : Forgotten(i)' => i \in Known' \ saved'
    BY <1>0, <1>k, <2>0, <2>2 DEF ForgetInv
  <2>5. \A i \in Ids \ raced' : Forgotten(i)' => ~Resumes(i)'
    BY <1>0, <2>2, <2>3 DEF ForgetInv
  <2>6. \A i \in ended' \ raced' : sessions'[i] = Nobody
    BY <1>0 DEF ForgetInv
  <2>7. \A s \in Requests, i \in Ids \ raced' : Deletes(s, i)' =>
            /\ sessions'[i] \in {Nobody, Session(s)'}
            /\ closing'[Handler(s)].step = "terminate" => sessions'[i] = Nobody
    BY <1>0, <2>1 DEF ForgetInv
  <2>8. QED BY <2>4, <2>5, <2>6, <2>7 DEF ForgetInv
<1>16. QED BY <1>1, <1>2, <1>3, <1>4, <1>5, <1>6, <1>7, <1>8, <1>9, <1>10, <1>11, <1>12, <1>13,
    <1>14, <1>15 DEF IInv

\* Or only forgets it.
LEMMA ForgetOnly ==
  ASSUME IInv, NEW r \in Requests, Step(r) = "forget", Id(r) \in Known,
         saved' = saved \ {Id(r)}, raced' \in SUBSET Ids, raced \subseteq raced',
         Resumes(Id(r)) \/ sessions[Id(r)] \notin {Nobody, Session(r)} => Id(r) \in raced',
         Session(r) = Nobody, Blanked(r, "call"), ended' = ended \union {Id(r)},
         UNCHANGED <<sessions, live, resuming, proc, pending, asked, closing,
                     troubles, cut, lost, stray>>
  PROVE  IInv'
<1> USE StdioAssumption DEF Step, Kind, Id, Session, Opens, Talks
<1>0. /\ TypeOK /\ RequestInv /\ IdInv /\ LockInv /\ FreshInv
      /\ ProcInv /\ EntryInv /\ CloseInv /\ SlotsInv /\ AskedInv
      /\ WaitInv /\ AnswerInv /\ DeadInv /\ RunningInv /\ ForgetInv
  BY DEF IInv
<1>s. Shape
  BY <1>0, Shapes
<1>k. \A j \in Ids : j \in Known => j \in Known'
  BY <1>s DEF Shape, Blanked, Others, Known
<1>1. TypeOK'
  BY <1>0, <1>s DEF Shape, Blanked, Others, TypeOK
<1>2. RequestInv'
  BY <1>0, <1>s DEF Shape, Blanked, Others, RequestInv, Key
<1>3. IdInv'
  BY <1>0, <1>s, <1>k DEF Shape, Blanked, Others, IdInv, RequestInv
<1>4. LockInv'
  BY <1>0, <1>s DEF Shape, Blanked, Others, LockInv, RequestInv
<1>5. FreshInv'
  <2>1. ASSUME NEW q \in Requests, Step(q)' \in {"new", "queue", "reserve", "evicting", "spawn"}
        PROVE  proc'[q].state = "none"
    BY <1>0, <1>s, <2>1 DEF Shape, Blanked, Others, FreshInv, RequestInv
  <2>2. ASSUME NEW q \in Requests, proc'[q].state = "none"
        PROVE  /\ proc'[q].id = Nobody /\ asked'[q] = {}
               /\ \A j \in Ids : sessions'[j] # q
    BY <1>0, <1>s, <2>2 DEF Shape, Blanked, Others, FreshInv
  <2>3. ASSUME NEW q \in Requests, proc'[q].state = "none"
        PROVE  \A s \in Requests : request'[s].proc # q
    BY <1>0, <1>s, <2>3 DEF Shape, Blanked, Others, FreshInv
  <2>4. ASSUME NEW q \in Requests, proc'[q].state = "none"
        PROVE  \A d \in Closers : closing'[d].proc # q
    BY <1>0, <1>s, <2>4 DEF Shape, Blanked, Others, FreshInv, RequestInv
  <2>5. QED BY <2>1, <2>2, <2>3, <2>4 DEF FreshInv
<1>6. ProcInv'
  BY <1>0, <1>s, <1>k DEF Shape, Blanked, Others, ProcInv
<1>7. EntryInv'
  <2>1. \A j \in Ids : sessions'[j] # Nobody => proc'[sessions'[j]].id = j
    BY <1>0, <1>s, <1>k DEF Shape, Blanked, Others, EntryInv, FreshInv
  <2>2. ASSUME NEW q \in Requests, Step(q)' \in Opens, Id(q)' # Nobody
        PROVE  sessions'[Id(q)'] = Nobody
    BY <1>0, <1>s, <2>2, <1>k DEF Shape, Blanked, Others, EntryInv, RequestInv, IdInv
  <2>3. ASSUME NEW q \in Requests, Step(q)' = "insert"
        PROVE  proc'[q].id = Id(q)' /\ \A j \in Ids : sessions'[j] # q
    BY <1>0, <1>s, <2>3, <1>k DEF Shape, Blanked, Others, EntryInv, FreshInv, RequestInv
  <2>4. ASSUME NEW q \in Requests, Kind(q)' = "delete", Step(q)' \in {"forget", "ending"}, Session(q)' # Nobody
        PROVE  proc'[Session(q)'].id = Id(q)'
    BY <1>0, <1>s, <2>4, <1>k DEF Shape, Blanked, Others, EntryInv, RequestInv, FreshInv
  <2>5. QED BY <2>1, <2>2, <2>3, <2>4 DEF EntryInv
<1>8. CloseInv'
  <2>1. ASSUME NEW d \in Closers
        PROVE  /\ closing'[d].step = "none" => closing'[d] = NoClose
               /\ closing'[d].step # "none" => closing'[d].proc # Nobody
               /\ closing'[d].removed => closing'[d].step = "terminate"
    BY <1>0, <1>s, <2>1 DEF Shape, Blanked, Others, CloseInv, RequestInv
  <2>2. ASSUME NEW q \in Requests
        PROVE  closing'[Handler(q)].step # "none" <=> Step(q)' \in {"evicting", "ending"}
    BY <1>0, <1>s, <2>2 DEF Shape, Blanked, Others, CloseInv
  <2>3. ASSUME NEW q \in Requests, Step(q)' = "ending"
        PROVE  closing'[Handler(q)].proc = Session(q)'
    BY <1>0, <1>s, <2>3 DEF Shape, Blanked, Others, CloseInv, RequestInv
  <2>4. ASSUME NEW q \in Requests
        PROVE  /\ closing'[Reader(q)].proc \in {q, Nobody}
               /\ proc'[q].reader \in {"none", "reading"} => closing'[Reader(q)].step = "none"
    BY <1>0, <1>s, <2>4 DEF Shape, Blanked, Others, CloseInv, FreshInv, ProcInv
  <2>5. QED BY <2>1, <2>2, <2>3, <2>4 DEF CloseInv
<1>9. SlotsInv'
  <2>1. \A d \in Closers : closing'[d].removed <=> closing[d].removed
    BY <1>0, <1>s DEF Shape, Removing
  <2>2. \A s \in Requests : s \in Opening' <=> s \in Opening
    BY <1>0, <1>s DEF Shape, Blanked, Others, Opening, Slot, RequestInv
  <2>3. QED BY <1>0, <1>1, <2>1, <2>2, SlotsKeep
<1>10. AskedInv'
  BY <1>0, <1>s DEF Shape, Blanked, Others, AskedInv, RequestInv, Key
<1>11. WaitInv'
  <2>1. ASSUME NEW s \in Requests, request'[s].step \in {"write", "await"},
               request'[s].answer = Nobody, s \notin cut'
        PROVE  pending'[request'[s].proc][request'[s].key] = s
    BY <1>0, <1>s, <2>1 DEF Shape, Blanked, Others, WaitInv, RequestInv, Key
  <2>2. ASSUME NEW q \in Requests, NEW j \in Keys \union {Hello}, pending'[q][j] # Nobody
        PROVE  request'[pending'[q][j]].step # "new"
    BY <1>0, <1>s, <2>2 DEF Shape, Blanked, Others, WaitInv, RequestInv
  <2>3. QED BY <2>1, <2>2 DEF WaitInv, Key
<1>12. AnswerInv'
  <2>1. ASSUME NEW q \in Requests, request'[q].answer # Nobody
        PROVE  request'[q].answer = request[q].answer /\ request[q].answer \in Requests
    BY <1>0, <1>s, <2>1 DEF Shape, Blanked, Others, RequestInv
  <2>2. ASSUME NEW s \in Requests, Step(s) \in {"await", "ending", "done"}
        PROVE  /\ Step(s)' \in {"await", "ending", "done"}
               /\ Waits(s)' => Waits(s)
    BY <1>0, <1>s, <2>2 DEF Shape, Blanked, Others, Waits, RequestInv
  <2>3. QED BY <2>1, <2>2, <1>0 DEF AnswerInv
<1>13. DeadInv'
  <2>1. ASSUME NEW q \in Requests, proc'[q].reader = "ended", closing'[Reader(q)].step # "remove",
               NEW s \in Requests, Session(s)' = q
        PROVE  ~Waits(s)'
    BY <1>0, <1>s, <2>1 DEF Shape, Blanked, Others, DeadInv, Waits, RequestInv
  <2>2. QED BY <2>1 DEF DeadInv
<1>14. RunningInv'
  <2>1. ASSUME NEW q \in Requests, q \notin stray', proc'[q].state = "running", proc'[q].id # Nobody
        PROVE  sessions'[proc'[q].id] = q \/ Step(q)' = "insert"
    BY <1>0, <1>s, <2>1 DEF Shape, Blanked, Others, RunningInv, RequestInv
  <2>2. QED BY <2>1 DEF RunningInv
<1>15. ForgetInv'
  <2>0. Kind(r) = "delete" /\ Id(r) \in Ids
    BY <1>0, <1>s DEF RequestInv, Shape
  <2>1. \A s \in Requests, j \in Ids : Deletes(s, j)' =>
            Deletes(s, j) /\ s # r /\ request'[s] = request[s]
    BY <1>s DEF Blanked, Others, Deletes
  <2>9. \A i \in Ids : i \in ended' => i \in ended \/ i = Id(r)
    OBVIOUS
  <2>2. \A i \in Ids : Forgotten(i)' => Forgotten(i) \/ i = Id(r)
    BY <2>1, <2>9 DEF Forgotten
  <2>3. \A j \in Ids : Resumes(j)' => Resumes(j)
    BY <1>0, <1>s DEF Shape, Blanked, Others, Resumes, LockInv
  <2>4. \A i \in Ids : Forgotten(i)' => i \in Known' \ saved'
    BY <1>0, <1>k, <2>0, <2>2 DEF ForgetInv
  <2>5. \A i \in Ids \ raced' : Forgotten(i)' => ~Resumes(i)'
    BY <1>0, <2>2, <2>3 DEF ForgetInv
  <2>6. \A i \in ended' \ raced' : sessions'[i] = Nobody
    BY <1>0, <2>0 DEF ForgetInv
  <2>7. \A s \in Requests, i \in Ids \ raced' : Deletes(s, i)' =>
            /\ sessions'[i] \in {Nobody, Session(s)'}
            /\ closing'[Handler(s)].step = "terminate" => sessions'[i] = Nobody
    BY <1>0, <2>1 DEF ForgetInv
  <2>8. QED BY <2>4, <2>5, <2>6, <2>7 DEF ForgetInv
<1>16. QED BY <1>1, <1>2, <1>3, <1>4, <1>5, <1>6, <1>7, <1>8, <1>9, <1>10, <1>11, <1>12, <1>13,
    <1>14, <1>15 DEF IInv

\* A process dies.
LEMMA CrashStep ==
  ASSUME IInv, NEW p \in Requests, Crash(p)
  PROVE  IInv'
<1> USE StdioAssumption DEF Step, Kind, Id, Session, Opens, Talks
<1>0. /\ TypeOK /\ RequestInv /\ IdInv /\ LockInv /\ FreshInv
      /\ ProcInv /\ EntryInv /\ CloseInv /\ SlotsInv /\ AskedInv
      /\ WaitInv /\ AnswerInv /\ DeadInv /\ RunningInv /\ ForgetInv
  BY DEF IInv
<1>s. Shape
  BY <1>0, Shapes
<1>a. /\ proc[p].state = "running" /\ proc' \in [Requests -> ProcState]
      /\ proc'[p].state = "dead" /\ proc'[p].id = proc[p].id /\ proc'[p].reader = proc[p].reader
      /\ \A q \in Requests : q # p => proc'[q] = proc[q]
      /\ troubles' \in 0..MaxTroubles /\ troubles <= troubles'
      /\ UNCHANGED <<sessions, live, saved, resuming, pending, asked, request,
                     closing, cut, lost, stray, ended, raced>>
  <2>1. proc[p].state = "running" /\ UNCHANGED <<sessions, live, saved, resuming, pending, asked, request,
                                                 closing, cut, lost, stray, ended, raced>>
    BY DEF Crash, history
  <2>2. troubles' \in 0..MaxTroubles /\ troubles <= troubles'
    BY <1>0 DEF Crash, Trouble, TypeOK
  <2>3. proc' = [proc EXCEPT ![p].state = "dead"] /\ proc[p] \in ProcState
    BY <1>0 DEF Crash, TypeOK
  <2>4. proc'[p] = [proc[p] EXCEPT !.state = "dead"]
    BY <1>0, <2>3 DEF TypeOK
  <2>5. /\ proc'[p].state = "dead" /\ proc'[p].id = proc[p].id /\ proc'[p].reader = proc[p].reader
        /\ proc'[p] \in ProcState
    <3>1. [proc[p] EXCEPT !.state = "dead"] \in ProcState
      BY <2>3 DEF ProcState
    <3>2. proc'[p] \in ProcState
      BY <2>4, <3>1
    <3>0. proc[p] = [id |-> proc[p].id, state |-> proc[p].state, reader |-> proc[p].reader]
      BY <2>3 DEF ProcState
    <3>3. proc'[p] = [id |-> proc[p].id, state |-> "dead", reader |-> proc[p].reader]
      BY <2>4, <3>0
    <3>4. QED BY <3>2, <3>3
  <2>6. QED BY <1>0, <2>1, <2>2, <2>3, <2>5 DEF TypeOK
<1>k. \A j \in Ids : j \in Known => j \in Known'
  BY <1>0, <1>s, <1>a DEF Shape, Known
<1>1. TypeOK'
  BY <1>0, <1>s, <1>a DEF Shape, TypeOK
<1>2. RequestInv'
  BY <1>0, <1>s, <1>a DEF Shape, RequestInv, Key
<1>3. IdInv'
  BY <1>0, <1>s, <1>a, <1>k DEF Shape, IdInv, RequestInv
<1>4. LockInv'
  BY <1>0, <1>s, <1>a DEF Shape, LockInv, RequestInv
<1>5. FreshInv'
  <2>1. ASSUME NEW q \in Requests, Step(q)' \in {"new", "queue", "reserve", "evicting", "spawn"}
        PROVE  proc'[q].state = "none"
    BY <1>0, <1>s, <1>a, <2>1 DEF Shape, FreshInv, RequestInv
  <2>2. ASSUME NEW q \in Requests, proc'[q].state = "none"
        PROVE  /\ proc'[q].id = Nobody /\ asked'[q] = {}
               /\ \A j \in Ids : sessions'[j] # q
    BY <1>0, <1>s, <1>a, <2>2 DEF Shape, FreshInv
  <2>3. ASSUME NEW q \in Requests, proc'[q].state = "none"
        PROVE  \A s \in Requests : request'[s].proc # q
    BY <1>0, <1>s, <1>a, <2>3 DEF Shape, FreshInv
  <2>4. ASSUME NEW q \in Requests, proc'[q].state = "none"
        PROVE  \A d \in Closers : closing'[d].proc # q
    BY <1>0, <1>s, <1>a, <2>4 DEF Shape, FreshInv, RequestInv
  <2>5. QED BY <2>1, <2>2, <2>3, <2>4 DEF FreshInv
<1>6. ProcInv'
  BY <1>0, <1>s, <1>a, <1>k DEF Shape, ProcInv
<1>7. EntryInv'
  <2>1. \A j \in Ids : sessions'[j] # Nobody => proc'[sessions'[j]].id = j
    BY <1>0, <1>s, <1>a, <1>k DEF Shape, EntryInv, FreshInv
  <2>2. ASSUME NEW q \in Requests, Step(q)' \in Opens, Id(q)' # Nobody
        PROVE  sessions'[Id(q)'] = Nobody
    BY <1>0, <1>s, <1>a, <2>2, <1>k DEF Shape, EntryInv, RequestInv, IdInv
  <2>3. ASSUME NEW q \in Requests, Step(q)' = "insert"
        PROVE  proc'[q].id = Id(q)' /\ \A j \in Ids : sessions'[j] # q
    BY <1>0, <1>s, <1>a, <2>3, <1>k DEF Shape, EntryInv, FreshInv, RequestInv
  <2>4. ASSUME NEW q \in Requests, Kind(q)' = "delete", Step(q)' \in {"forget", "ending"}, Session(q)' # Nobody
        PROVE  proc'[Session(q)'].id = Id(q)'
    BY <1>0, <1>s, <1>a, <2>4, <1>k DEF Shape, EntryInv, RequestInv, FreshInv
  <2>5. QED BY <2>1, <2>2, <2>3, <2>4 DEF EntryInv
<1>8. CloseInv'
  BY <1>0, <1>s, <1>a DEF Shape, CloseInv, RequestInv
<1>9. SlotsInv'
  <2>1. \A d \in Closers : closing'[d].removed <=> closing[d].removed
    BY <1>a DEF Removing
  <2>2. \A s \in Requests : s \in Opening' <=> s \in Opening
    BY <1>a DEF Opening, Slot
  <2>3. QED BY <1>0, <1>1, <1>a, <2>1, <2>2, SlotsKeep
<1>10. AskedInv'
  BY <1>0, <1>s, <1>a DEF Shape, AskedInv, RequestInv, Key
<1>11. WaitInv'
  BY <1>0, <1>a DEF WaitInv, Key
<1>12. AnswerInv'
  BY <1>0, <1>s, <1>a DEF Shape, AnswerInv, Waits, RequestInv
<1>13. DeadInv'
  <2>1. ASSUME NEW q \in Requests, proc'[q].reader = "ended", closing'[Reader(q)].step # "remove",
               NEW s \in Requests, Session(s)' = q
        PROVE  ~Waits(s)'
    BY <1>0, <1>s, <1>a, <2>1 DEF Shape, DeadInv, Waits, RequestInv
  <2>2. QED BY <2>1 DEF DeadInv
<1>14. RunningInv'
  <2>1. ASSUME NEW q \in Requests, q \notin stray', proc'[q].state = "running", proc'[q].id # Nobody
        PROVE  sessions'[proc'[q].id] = q \/ Step(q)' = "insert"
    BY <1>0, <1>s, <1>a, <2>1 DEF Shape, RunningInv, RequestInv
  <2>2. QED BY <2>1 DEF RunningInv
<1>15. ForgetInv'
  <2>1. \A s \in Requests, j \in Ids : Deletes(s, j)' =>
            /\ Deletes(s, j) /\ request'[s] = request[s]
            /\ closing'[Handler(s)] = closing[Handler(s)]
    BY ClosersDiffer, <1>a DEF Deletes
  <2>2. \A j \in Ids : Resumes(j)' => Resumes(j)
    BY <1>a DEF Resumes
  <2>3. QED BY <1>0, <1>k, <1>a, <2>1, <2>2, ForgetKeep
<1>16. QED BY <1>1, <1>2, <1>3, <1>4, <1>5, <1>6, <1>7, <1>8, <1>9, <1>10, <1>11, <1>12, <1>13,
    <1>14, <1>15 DEF IInv

\* A reader comes to its end.
LEMMA EndReadingStep ==
  ASSUME IInv, NEW p \in Requests, NEW how \in {"ended", "gave_up"}, NEW fate \in {"running", "dead"},
         EndReading(p, how, fate), how = "ended" => fate = "dead",
         fate = "running" => proc[p].state = "running",
         troubles' \in 0..MaxTroubles, troubles <= troubles' 
  PROVE  IInv'
<1> USE StdioAssumption DEF Step, Kind, Id, Session, Opens, Talks
<1>0. /\ TypeOK /\ RequestInv /\ IdInv /\ LockInv /\ FreshInv
      /\ ProcInv /\ EntryInv /\ CloseInv /\ SlotsInv /\ AskedInv
      /\ WaitInv /\ AnswerInv /\ DeadInv /\ RunningInv /\ ForgetInv
  BY DEF IInv
<1>s. Shape
  BY <1>0, Shapes
<1>a. /\ proc[p].reader = "reading" /\ proc' \in [Requests -> ProcState]
      /\ proc'[p].state = fate /\ proc'[p].id = proc[p].id /\ proc'[p].reader = how
      /\ \A q \in Requests : q # p => proc'[q] = proc[q]
      /\ asked' \in [Requests -> SUBSET (Keys \X Requests)]
      /\ \A q \in Requests : asked'[q] \in {asked[q], {}}
      /\ closing' \in [Closers -> ClosingState]
      /\ \A d \in Closers : d # Reader(p) => closing'[d] = closing[d]
      /\ closing'[Reader(p)] \in {NoClose, ClosingOf(p)} /\ closing[Reader(p)] = NoClose
      /\ \A s \in Requests : closing'[Reader(p)] = NoClose /\ Session(s) = p => Step(s) = "done"
      /\ UNCHANGED <<sessions, live, saved, resuming, pending, request, cut, lost,
                     stray, ended, raced>>
  <2>1. /\ proc[p].reader = "reading" /\ closing[Reader(p)] = NoClose
        /\ UNCHANGED <<sessions, live, saved, resuming, pending, request, cut, lost,
                       stray, ended, raced>>
    BY <1>0, ClosersDiffer DEF EndReading, history, CloseInv
  <2>3. proc' = [proc EXCEPT ![p].reader = how, ![p].state = fate] /\ proc[p] \in ProcState
    BY <1>0 DEF EndReading, TypeOK
  <2>4. proc'[p] = [proc[p] EXCEPT !.reader = how, !.state = fate]
    BY <1>0, <2>3 DEF TypeOK
  <2>5. /\ proc'[p].state = fate /\ proc'[p].id = proc[p].id /\ proc'[p].reader = how
        /\ proc'[p] \in ProcState
    <3>1. [proc[p] EXCEPT !.reader = how, !.state = fate] \in ProcState
      BY <2>3 DEF ProcState
    <3>2. proc'[p] \in ProcState
      BY <2>4, <3>1
    <3>0. proc[p] = [id |-> proc[p].id, state |-> proc[p].state, reader |-> proc[p].reader]
      BY <2>3 DEF ProcState
    <3>3. proc'[p] = [id |-> proc[p].id, state |-> fate, reader |-> how]
      BY <2>4, <3>0
    <3>4. QED BY <3>2, <3>3
  <2>6. /\ proc' \in [Requests -> ProcState]
        /\ \A q \in Requests : q # p => proc'[q] = proc[q]
    BY <1>0, <2>3, <2>5 DEF TypeOK
  <2>7. /\ asked' \in [Requests -> SUBSET (Keys \X Requests)]
        /\ \A q \in Requests : asked'[q] \in {asked[q], {}}
    BY <1>0 DEF EndReading, TypeOK
  <2>8. /\ closing' \in [Closers -> ClosingState]
        /\ \A d \in Closers : d # Reader(p) => closing'[d] = closing[d]
        /\ closing'[Reader(p)] \in {NoClose, ClosingOf(p)}
        /\ \A s \in Requests : closing'[Reader(p)] = NoClose /\ Session(s) = p => Step(s) = "done"
    <3>0. ClosingOf(p) \in ClosingState /\ ClosingOf(p) # NoClose
      BY DEF ClosingState, ClosingOf, NoClose
    <3>1. CASE Held(p)
      <4>1. closing' = [closing EXCEPT ![Reader(p)] = ClosingOf(p)]
        BY <3>1 DEF EndReading
      <4>2. QED BY <1>0, ClosersDiffer, <3>0, <4>1 DEF TypeOK
    <3>2. CASE ~Held(p)
      <4>1. closing' = closing /\ \A s \in Requests : Session(s) = p => Step(s) = "done"
        BY <3>2 DEF EndReading, Held, Over
      <4>2. QED BY <1>0, <2>1, <4>1 DEF TypeOK
    <3>3. QED BY <3>1, <3>2
  <2>9. QED BY <2>1, <2>5, <2>6, <2>7, <2>8
<1>b. /\ NoClose.step = "none" /\ NoClose.proc = Nobody /\ ~NoClose.removed
      /\ ClosingOf(p).step = "remove" /\ ClosingOf(p).proc = p /\ ~ClosingOf(p).removed
      /\ proc[p].state # "none"
  BY <1>0, <1>a DEF NoClose, ClosingOf, ProcInv
<1>k. \A j \in Ids : j \in Known => j \in Known'
  BY <1>0, <1>s, ClosersDiffer, <1>a, <1>b DEF Shape, Known
<1>1. TypeOK'
  BY <1>0, <1>s, ClosersDiffer, <1>a, <1>b DEF Shape, TypeOK
<1>2. RequestInv'
  BY <1>0, <1>s, ClosersDiffer, <1>a, <1>b DEF Shape, RequestInv, Key
<1>3. IdInv'
  BY <1>0, <1>s, ClosersDiffer, <1>a, <1>b, <1>k DEF Shape, IdInv, RequestInv
<1>4. LockInv'
  BY <1>0, <1>s, ClosersDiffer, <1>a, <1>b DEF Shape, LockInv, RequestInv
<1>5. FreshInv'
  <2>1. ASSUME NEW q \in Requests, Step(q)' \in {"new", "queue", "reserve", "evicting", "spawn"}
        PROVE  proc'[q].state = "none"
    BY <1>0, <1>s, ClosersDiffer, <1>a, <1>b, <2>1 DEF Shape, FreshInv, RequestInv
  <2>2. ASSUME NEW q \in Requests, proc'[q].state = "none"
        PROVE  /\ proc'[q].id = Nobody /\ asked'[q] = {}
               /\ \A j \in Ids : sessions'[j] # q
    BY <1>0, <1>s, ClosersDiffer, <1>a, <1>b, <2>2 DEF Shape, FreshInv
  <2>3. ASSUME NEW q \in Requests, proc'[q].state = "none"
        PROVE  \A s \in Requests : request'[s].proc # q
    BY <1>0, <1>s, ClosersDiffer, <1>a, <1>b, <2>3 DEF Shape, FreshInv
  <2>4. ASSUME NEW q \in Requests, proc'[q].state = "none"
        PROVE  \A d \in Closers : closing'[d].proc # q
    BY <1>0, <1>s, ClosersDiffer, <1>a, <1>b, <2>4 DEF Shape, FreshInv, RequestInv
  <2>5. QED BY <2>1, <2>2, <2>3, <2>4 DEF FreshInv
<1>6. ProcInv'
  BY <1>0, <1>s, ClosersDiffer, <1>a, <1>b, <1>k DEF Shape, ProcInv
<1>7. EntryInv'
  <2>1. \A j \in Ids : sessions'[j] # Nobody => proc'[sessions'[j]].id = j
    BY <1>0, <1>s, ClosersDiffer, <1>a, <1>b, <1>k DEF Shape, EntryInv, FreshInv
  <2>2. ASSUME NEW q \in Requests, Step(q)' \in Opens, Id(q)' # Nobody
        PROVE  sessions'[Id(q)'] = Nobody
    BY <1>0, <1>s, ClosersDiffer, <1>a, <1>b, <2>2, <1>k DEF Shape, EntryInv, RequestInv, IdInv
  <2>3. ASSUME NEW q \in Requests, Step(q)' = "insert"
        PROVE  proc'[q].id = Id(q)' /\ \A j \in Ids : sessions'[j] # q
    BY <1>0, <1>s, ClosersDiffer, <1>a, <1>b, <2>3, <1>k DEF Shape, EntryInv, FreshInv, RequestInv
  <2>4. ASSUME NEW q \in Requests, Kind(q)' = "delete", Step(q)' \in {"forget", "ending"}, Session(q)' # Nobody
        PROVE  proc'[Session(q)'].id = Id(q)'
    BY <1>0, <1>s, ClosersDiffer, <1>a, <1>b, <2>4, <1>k DEF Shape, EntryInv, RequestInv, FreshInv
  <2>5. QED BY <2>1, <2>2, <2>3, <2>4 DEF EntryInv
<1>8. CloseInv'
  <2>1. ASSUME NEW d \in Closers
        PROVE  /\ closing'[d].step = "none" => closing'[d] = NoClose
               /\ closing'[d].step # "none" => closing'[d].proc # Nobody
               /\ closing'[d].removed => closing'[d].step = "terminate"
    BY <1>0, <1>s, ClosersDiffer, <1>a, <1>b, <2>1 DEF Shape, CloseInv, RequestInv
  <2>2. ASSUME NEW q \in Requests
        PROVE  closing'[Handler(q)].step # "none" <=> Step(q)' \in {"evicting", "ending"}
    BY <1>0, <1>s, ClosersDiffer, <1>a, <1>b, <2>2 DEF Shape, CloseInv
  <2>3. ASSUME NEW q \in Requests, Step(q)' = "ending"
        PROVE  closing'[Handler(q)].proc = Session(q)'
    BY <1>0, <1>s, ClosersDiffer, <1>a, <1>b, <2>3 DEF Shape, CloseInv, RequestInv
  <2>4. ASSUME NEW q \in Requests
        PROVE  /\ closing'[Reader(q)].proc \in {q, Nobody}
               /\ proc'[q].reader \in {"none", "reading"} => closing'[Reader(q)].step = "none"
    BY <1>0, <1>s, ClosersDiffer, <1>a, <1>b, <2>4 DEF Shape, CloseInv, FreshInv, ProcInv
  <2>5. QED BY <2>1, <2>2, <2>3, <2>4 DEF CloseInv
<1>9. SlotsInv'
  <2>1. \A d \in Closers : closing'[d].removed <=> closing[d].removed
    BY <1>b, <1>a DEF Removing
  <2>2. \A s \in Requests : s \in Opening' <=> s \in Opening
    BY <1>a DEF Opening, Slot
  <2>3. QED BY <1>0, <1>1, <1>a, <2>1, <2>2, SlotsKeep
<1>10. AskedInv'
  BY <1>0, <1>s, ClosersDiffer, <1>a, <1>b DEF Shape, AskedInv, RequestInv, Key
<1>11. WaitInv'
  BY <1>0, <1>a DEF WaitInv, Key
<1>12. AnswerInv'
  BY <1>0, <1>s, ClosersDiffer, <1>a, <1>b DEF Shape, AnswerInv, Waits, RequestInv
<1>13. DeadInv'
  <2>1. ASSUME NEW q \in Requests, proc'[q].reader = "ended", closing'[Reader(q)].step # "remove",
               NEW s \in Requests, Session(s)' = q
        PROVE  ~Waits(s)'
    BY <1>0, <1>s, ClosersDiffer, <1>a, <1>b, <2>1 DEF Shape, DeadInv, Waits, RequestInv
  <2>2. QED BY <2>1 DEF DeadInv
<1>14. RunningInv'
  <2>1. ASSUME NEW q \in Requests, q \notin stray', proc'[q].state = "running", proc'[q].id # Nobody
        PROVE  sessions'[proc'[q].id] = q \/ Step(q)' = "insert"
    BY <1>0, <1>s, ClosersDiffer, <1>a, <1>b, <2>1 DEF Shape, RunningInv, RequestInv
  <2>2. QED BY <2>1 DEF RunningInv
<1>15. ForgetInv'
  <2>1. \A s \in Requests, j \in Ids : Deletes(s, j)' =>
            /\ Deletes(s, j) /\ request'[s] = request[s]
            /\ closing'[Handler(s)] = closing[Handler(s)]
    BY ClosersDiffer, <1>a DEF Deletes
  <2>2. \A j \in Ids : Resumes(j)' => Resumes(j)
    BY <1>a DEF Resumes
  <2>3. QED BY <1>0, <1>k, <1>a, <2>1, <2>2, ForgetKeep
<1>16. QED BY <1>1, <1>2, <1>3, <1>4, <1>5, <1>6, <1>7, <1>8, <1>9, <1>10, <1>11, <1>12, <1>13,
    <1>14, <1>15 DEF IInv

\* A process that nobody holds is killed.
LEMMA DropStep ==
  ASSUME IInv, NEW p \in Requests, Drop(p)
  PROVE  IInv'
<1> USE StdioAssumption DEF Step, Kind, Id, Session, Opens, Talks
<1>0. /\ TypeOK /\ RequestInv /\ IdInv /\ LockInv /\ FreshInv
      /\ ProcInv /\ EntryInv /\ CloseInv /\ SlotsInv /\ AskedInv
      /\ WaitInv /\ AnswerInv /\ DeadInv /\ RunningInv /\ ForgetInv
  BY DEF IInv
<1>s. Shape
  BY <1>0, Shapes
<1>a. /\ proc[p].state \in {"running", "ending"} /\ proc' \in [Requests -> ProcState]
      /\ proc'[p].state = "dead" /\ proc'[p].id = proc[p].id /\ proc'[p].reader = "ended"
      /\ \A q \in Requests : q # p => proc'[q] = proc[q]
      /\ asked' \in [Requests -> SUBSET (Keys \X Requests)]
      /\ \A q \in Requests : asked'[q] \in {asked[q], {}}
      /\ \A s \in Requests : Session(s) = p => Step(s) = "done"
      /\ UNCHANGED <<sessions, live, saved, resuming, pending, request, closing,
                     troubles, cut, lost, stray, ended, raced>>
  <2>1. /\ proc[p].state \in {"running", "ending"} /\ UNCHANGED <<sessions, live, saved, resuming, pending, request, closing,
                                                                  troubles, cut, lost, stray, ended, raced>>
        /\ \A s \in Requests : Session(s) = p => Step(s) = "done"
    BY DEF Drop, history, Held, Over
  <2>3. proc' = [proc EXCEPT ![p].state = "dead", ![p].reader = "ended"] /\ proc[p] \in ProcState
    BY <1>0 DEF Drop, TypeOK
  <2>4. proc'[p] = [proc[p] EXCEPT !.state = "dead", !.reader = "ended"]
    BY <1>0, <2>3 DEF TypeOK
  <2>5. /\ proc'[p].state = "dead" /\ proc'[p].id = proc[p].id /\ proc'[p].reader = "ended"
        /\ proc'[p] \in ProcState
    <3>1. [proc[p] EXCEPT !.state = "dead", !.reader = "ended"] \in ProcState
      BY <2>3 DEF ProcState
    <3>2. proc'[p] \in ProcState
      BY <2>4, <3>1
    <3>0. proc[p] = [id |-> proc[p].id, state |-> proc[p].state, reader |-> proc[p].reader]
      BY <2>3 DEF ProcState
    <3>3. proc'[p] = [id |-> proc[p].id, state |-> "dead", reader |-> "ended"]
      BY <2>4, <3>0
    <3>4. QED BY <3>2, <3>3
  <2>6. /\ proc' \in [Requests -> ProcState]
        /\ \A q \in Requests : q # p => proc'[q] = proc[q]
    BY <1>0, <2>3, <2>5 DEF TypeOK
  <2>7. /\ asked' \in [Requests -> SUBSET (Keys \X Requests)]
        /\ \A q \in Requests : asked'[q] \in {asked[q], {}}
    BY <1>0 DEF Drop, TypeOK
  <2>8. QED BY <2>1, <2>5, <2>6, <2>7
<1>k. \A j \in Ids : j \in Known => j \in Known'
  BY <1>0, <1>s, <1>a DEF Shape, Known
<1>1. TypeOK'
  BY <1>0, <1>s, <1>a DEF Shape, TypeOK
<1>2. RequestInv'
  BY <1>0, <1>s, <1>a DEF Shape, RequestInv, Key
<1>3. IdInv'
  BY <1>0, <1>s, <1>a, <1>k DEF Shape, IdInv, RequestInv
<1>4. LockInv'
  BY <1>0, <1>s, <1>a DEF Shape, LockInv, RequestInv
<1>5. FreshInv'
  <2>1. ASSUME NEW q \in Requests, Step(q)' \in {"new", "queue", "reserve", "evicting", "spawn"}
        PROVE  proc'[q].state = "none"
    BY <1>0, <1>s, <1>a, <2>1 DEF Shape, FreshInv, RequestInv
  <2>2. ASSUME NEW q \in Requests, proc'[q].state = "none"
        PROVE  /\ proc'[q].id = Nobody /\ asked'[q] = {}
               /\ \A j \in Ids : sessions'[j] # q
    BY <1>0, <1>s, <1>a, <2>2 DEF Shape, FreshInv
  <2>3. ASSUME NEW q \in Requests, proc'[q].state = "none"
        PROVE  \A s \in Requests : request'[s].proc # q
    BY <1>0, <1>s, <1>a, <2>3 DEF Shape, FreshInv
  <2>4. ASSUME NEW q \in Requests, proc'[q].state = "none"
        PROVE  \A d \in Closers : closing'[d].proc # q
    BY <1>0, <1>s, <1>a, <2>4 DEF Shape, FreshInv, RequestInv
  <2>5. QED BY <2>1, <2>2, <2>3, <2>4 DEF FreshInv
<1>6. ProcInv'
  BY <1>0, <1>s, <1>a, <1>k DEF Shape, ProcInv
<1>7. EntryInv'
  <2>1. \A j \in Ids : sessions'[j] # Nobody => proc'[sessions'[j]].id = j
    BY <1>0, <1>s, <1>a, <1>k DEF Shape, EntryInv, FreshInv
  <2>2. ASSUME NEW q \in Requests, Step(q)' \in Opens, Id(q)' # Nobody
        PROVE  sessions'[Id(q)'] = Nobody
    BY <1>0, <1>s, <1>a, <2>2, <1>k DEF Shape, EntryInv, RequestInv, IdInv
  <2>3. ASSUME NEW q \in Requests, Step(q)' = "insert"
        PROVE  proc'[q].id = Id(q)' /\ \A j \in Ids : sessions'[j] # q
    BY <1>0, <1>s, <1>a, <2>3, <1>k DEF Shape, EntryInv, FreshInv, RequestInv
  <2>4. ASSUME NEW q \in Requests, Kind(q)' = "delete", Step(q)' \in {"forget", "ending"}, Session(q)' # Nobody
        PROVE  proc'[Session(q)'].id = Id(q)'
    BY <1>0, <1>s, <1>a, <2>4, <1>k DEF Shape, EntryInv, RequestInv, FreshInv
  <2>5. QED BY <2>1, <2>2, <2>3, <2>4 DEF EntryInv
<1>8. CloseInv'
  <2>1. ASSUME NEW d \in Closers
        PROVE  /\ closing'[d].step = "none" => closing'[d] = NoClose
               /\ closing'[d].step # "none" => closing'[d].proc # Nobody
               /\ closing'[d].removed => closing'[d].step = "terminate"
    BY <1>0, <1>s, <1>a, <2>1 DEF Shape, CloseInv, RequestInv
  <2>2. ASSUME NEW q \in Requests
        PROVE  closing'[Handler(q)].step # "none" <=> Step(q)' \in {"evicting", "ending"}
    BY <1>0, <1>s, <1>a, <2>2 DEF Shape, CloseInv
  <2>3. ASSUME NEW q \in Requests, Step(q)' = "ending"
        PROVE  closing'[Handler(q)].proc = Session(q)'
    BY <1>0, <1>s, <1>a, <2>3 DEF Shape, CloseInv, RequestInv
  <2>4. ASSUME NEW q \in Requests
        PROVE  /\ closing'[Reader(q)].proc \in {q, Nobody}
               /\ proc'[q].reader \in {"none", "reading"} => closing'[Reader(q)].step = "none"
    BY <1>0, <1>s, <1>a, <2>4 DEF Shape, CloseInv, FreshInv, ProcInv
  <2>5. QED BY <2>1, <2>2, <2>3, <2>4 DEF CloseInv
<1>9. SlotsInv'
  <2>1. \A d \in Closers : closing'[d].removed <=> closing[d].removed
    BY <1>a DEF Removing
  <2>2. \A s \in Requests : s \in Opening' <=> s \in Opening
    BY <1>a DEF Opening, Slot
  <2>3. QED BY <1>0, <1>1, <1>a, <2>1, <2>2, SlotsKeep
<1>10. AskedInv'
  BY <1>0, <1>s, <1>a DEF Shape, AskedInv, RequestInv, Key
<1>11. WaitInv'
  BY <1>0, <1>a DEF WaitInv, Key
<1>12. AnswerInv'
  BY <1>0, <1>s, <1>a DEF Shape, AnswerInv, Waits, RequestInv
<1>13. DeadInv'
  <2>1. ASSUME NEW q \in Requests, proc'[q].reader = "ended", closing'[Reader(q)].step # "remove",
               NEW s \in Requests, Session(s)' = q
        PROVE  ~Waits(s)'
    BY <1>0, <1>s, <1>a, <2>1 DEF Shape, DeadInv, Waits, RequestInv
  <2>2. QED BY <2>1 DEF DeadInv
<1>14. RunningInv'
  <2>1. ASSUME NEW q \in Requests, q \notin stray', proc'[q].state = "running", proc'[q].id # Nobody
        PROVE  sessions'[proc'[q].id] = q \/ Step(q)' = "insert"
    BY <1>0, <1>s, <1>a, <2>1 DEF Shape, RunningInv, RequestInv
  <2>2. QED BY <2>1 DEF RunningInv
<1>15. ForgetInv'
  <2>1. \A s \in Requests, j \in Ids : Deletes(s, j)' =>
            /\ Deletes(s, j) /\ request'[s] = request[s]
            /\ closing'[Handler(s)] = closing[Handler(s)]
    BY ClosersDiffer, <1>a DEF Deletes
  <2>2. \A j \in Ids : Resumes(j)' => Resumes(j)
    BY <1>a DEF Resumes
  <2>3. QED BY <1>0, <1>k, <1>a, <2>1, <2>2, ForgetKeep
<1>16. QED BY <1>1, <1>2, <1>3, <1>4, <1>5, <1>6, <1>7, <1>8, <1>9, <1>10, <1>11, <1>12, <1>13,
    <1>14, <1>15 DEF IInv

\* The sweeper closes what nobody uses.
LEMMA SweepStep ==
  ASSUME IInv, Sweep
  PROVE  IInv'
<1> USE StdioAssumption DEF Step, Kind, Id, Session, Opens, Talks
<1>0. /\ TypeOK /\ RequestInv /\ IdInv /\ LockInv /\ FreshInv
      /\ ProcInv /\ EntryInv /\ CloseInv /\ SlotsInv /\ AskedInv
      /\ WaitInv /\ AnswerInv /\ DeadInv /\ RunningInv /\ ForgetInv
  BY DEF IInv
<1>s. Shape
  BY <1>0, Shapes
<1>a. /\ closing[Sweeper].step = "none" /\ \E p \in Requests : Closes(Sweeper, p) /\ proc[p].state # "none"
      /\ saved' \in SUBSET Ids /\ saved' \subseteq saved
      /\ troubles' \in 0..MaxTroubles /\ troubles <= troubles'
      /\ UNCHANGED <<sessions, live, resuming, proc, pending, asked, request, cut,
                     lost, stray, ended, raced>>
  <2>1. closing[Sweeper].step = "none" /\ UNCHANGED <<sessions, live, resuming, proc, pending, asked, request, cut,
                                                      lost, stray, ended, raced>>
    BY DEF Sweep, history
  <2>2. PICK p \in Mapped : closing' = [closing EXCEPT ![Sweeper] = ClosingOf(p)]
    BY DEF Sweep
  <2>3. p \in Requests /\ \E i \in Ids : sessions[i] = p
    BY <1>s DEF Shape, Mapped
  <2>4. proc[p].state # "none"
    BY <1>0, <2>3 DEF FreshInv
  <2>5. Closes(Sweeper, p)
    BY <1>0, <2>2, <2>3, ClosingCloses, CloserNames
  <2>6. troubles' \in 0..MaxTroubles /\ troubles <= troubles'
    BY <1>0 DEF Sweep, Trouble, TypeOK
  <2>7. UNCHANGED saved
    BY DEF Sweep
  <2>8. QED BY <1>0, <2>1, <2>2, <2>3, <2>4, <2>5, <2>6, <2>7 DEF TypeOK
<1>k. \A j \in Ids : j \in Known => j \in Known'
  BY <1>0, <1>s, ClosersDiffer, <1>a DEF Shape, Known
<1>1. TypeOK'
  BY <1>0, <1>s, ClosersDiffer, <1>a DEF Shape, Closes, TypeOK
<1>2. RequestInv'
  BY <1>0, <1>s, ClosersDiffer, <1>a DEF Shape, RequestInv, Key
<1>3. IdInv'
  BY <1>0, <1>s, ClosersDiffer, <1>a, <1>k DEF Shape, IdInv, RequestInv
<1>4. LockInv'
  BY <1>0, <1>s, ClosersDiffer, <1>a DEF Shape, LockInv, RequestInv
<1>5. FreshInv'
  <2>1. ASSUME NEW q \in Requests, Step(q)' \in {"new", "queue", "reserve", "evicting", "spawn"}
        PROVE  proc'[q].state = "none"
    BY <1>0, <1>s, ClosersDiffer, <1>a, <2>1 DEF Shape, Closes, FreshInv, RequestInv
  <2>2. ASSUME NEW q \in Requests, proc'[q].state = "none"
        PROVE  /\ proc'[q].id = Nobody /\ asked'[q] = {}
               /\ \A j \in Ids : sessions'[j] # q
    BY <1>0, <1>s, ClosersDiffer, <1>a, <2>2 DEF Shape, Closes, FreshInv
  <2>3. ASSUME NEW q \in Requests, proc'[q].state = "none"
        PROVE  \A s \in Requests : request'[s].proc # q
    BY <1>0, <1>s, ClosersDiffer, <1>a, <2>3 DEF Shape, Closes, FreshInv
  <2>4. ASSUME NEW q \in Requests, proc'[q].state = "none"
        PROVE  \A d \in Closers : closing'[d].proc # q
    BY <1>0, <1>s, ClosersDiffer, <1>a, <2>4 DEF Shape, Closes, FreshInv, RequestInv
  <2>5. QED BY <2>1, <2>2, <2>3, <2>4 DEF FreshInv
<1>6. ProcInv'
  BY <1>0, <1>s, ClosersDiffer, <1>a, <1>k DEF Shape, ProcInv
<1>7. EntryInv'
  <2>1. \A j \in Ids : sessions'[j] # Nobody => proc'[sessions'[j]].id = j
    BY <1>0, <1>s, ClosersDiffer, <1>a, <1>k DEF Shape, EntryInv, FreshInv
  <2>2. ASSUME NEW q \in Requests, Step(q)' \in Opens, Id(q)' # Nobody
        PROVE  sessions'[Id(q)'] = Nobody
    BY <1>0, <1>s, ClosersDiffer, <1>a, <2>2, <1>k DEF Shape, EntryInv, RequestInv, IdInv
  <2>3. ASSUME NEW q \in Requests, Step(q)' = "insert"
        PROVE  proc'[q].id = Id(q)' /\ \A j \in Ids : sessions'[j] # q
    BY <1>0, <1>s, ClosersDiffer, <1>a, <2>3, <1>k DEF Shape, EntryInv, FreshInv, RequestInv
  <2>4. ASSUME NEW q \in Requests, Kind(q)' = "delete", Step(q)' \in {"forget", "ending"}, Session(q)' # Nobody
        PROVE  proc'[Session(q)'].id = Id(q)'
    BY <1>0, <1>s, ClosersDiffer, <1>a, <2>4, <1>k DEF Shape, EntryInv, RequestInv, FreshInv
  <2>5. QED BY <2>1, <2>2, <2>3, <2>4 DEF EntryInv
<1>8. CloseInv'
  <2>1. ASSUME NEW d \in Closers
        PROVE  /\ closing'[d].step = "none" => closing'[d] = NoClose
               /\ closing'[d].step # "none" => closing'[d].proc # Nobody
               /\ closing'[d].removed => closing'[d].step = "terminate"
    BY <1>0, <1>s, ClosersDiffer, <1>a, <2>1 DEF Shape, Closes, CloseInv, RequestInv
  <2>2. ASSUME NEW q \in Requests
        PROVE  closing'[Handler(q)].step # "none" <=> Step(q)' \in {"evicting", "ending"}
    BY <1>0, <1>s, ClosersDiffer, <1>a, <2>2 DEF Shape, Closes, CloseInv
  <2>3. ASSUME NEW q \in Requests, Step(q)' = "ending"
        PROVE  closing'[Handler(q)].proc = Session(q)'
    BY <1>0, <1>s, ClosersDiffer, <1>a, <2>3 DEF Shape, Closes, CloseInv, RequestInv
  <2>4. ASSUME NEW q \in Requests
        PROVE  /\ closing'[Reader(q)].proc \in {q, Nobody}
               /\ proc'[q].reader \in {"none", "reading"} => closing'[Reader(q)].step = "none"
    BY <1>0, <1>s, ClosersDiffer, <1>a, <2>4 DEF Shape, Closes, CloseInv, FreshInv, ProcInv
  <2>5. QED BY <2>1, <2>2, <2>3, <2>4 DEF CloseInv
<1>9. SlotsInv'
  <2>1. \A d \in Closers : closing'[d].removed <=> closing[d].removed
    BY <1>0, <1>a DEF Removing, Closes, CloseInv
  <2>2. \A s \in Requests : s \in Opening' <=> s \in Opening
    BY <1>a DEF Opening, Slot
  <2>3. QED BY <1>0, <1>1, <1>a, <2>1, <2>2, SlotsKeep
<1>10. AskedInv'
  BY <1>0, <1>s, ClosersDiffer, <1>a DEF Shape, AskedInv, RequestInv, Key
<1>11. WaitInv'
  BY <1>0, <1>a DEF WaitInv, Key
<1>12. AnswerInv'
  BY <1>0, <1>s, ClosersDiffer, <1>a DEF Shape, AnswerInv, Waits, RequestInv
<1>13. DeadInv'
  <2>1. ASSUME NEW q \in Requests, proc'[q].reader = "ended", closing'[Reader(q)].step # "remove",
               NEW s \in Requests, Session(s)' = q
        PROVE  ~Waits(s)'
    BY <1>0, <1>s, ClosersDiffer, <1>a, <2>1 DEF Shape, Closes, DeadInv, Waits, RequestInv
  <2>2. QED BY <2>1 DEF DeadInv
<1>14. RunningInv'
  <2>1. ASSUME NEW q \in Requests, q \notin stray', proc'[q].state = "running", proc'[q].id # Nobody
        PROVE  sessions'[proc'[q].id] = q \/ Step(q)' = "insert"
    BY <1>0, <1>s, ClosersDiffer, <1>a, <2>1 DEF Shape, RunningInv, RequestInv
  <2>2. QED BY <2>1 DEF RunningInv
<1>15. ForgetInv'
  <2>1. \A s \in Requests, j \in Ids : Deletes(s, j)' =>
            /\ Deletes(s, j) /\ request'[s] = request[s]
            /\ closing'[Handler(s)] = closing[Handler(s)]
    BY ClosersDiffer, <1>a DEF Deletes, Closes
  <2>2. \A j \in Ids : Resumes(j)' => Resumes(j)
    BY <1>a DEF Resumes
  <2>3. QED BY <1>0, <1>k, <1>a, <2>1, <2>2, ForgetKeep
<1>16. QED BY <1>1, <1>2, <1>3, <1>4, <1>5, <1>6, <1>7, <1>8, <1>9, <1>10, <1>11, <1>12, <1>13,
    <1>14, <1>15 DEF IInv

\* The client of a handler leaves.
LEMMA LeaveStep ==
  ASSUME IInv, NEW r \in Requests, Leave(r)
  PROVE  IInv'
<1> USE StdioAssumption DEF Step, Kind, Id, Session, Opens, Talks
<1>0. /\ TypeOK /\ RequestInv /\ IdInv /\ LockInv /\ FreshInv
      /\ ProcInv /\ EntryInv /\ CloseInv /\ SlotsInv /\ AskedInv
      /\ WaitInv /\ AnswerInv /\ DeadInv /\ RunningInv /\ ForgetInv
  BY DEF IInv
<1>s. Shape
  BY <1>0, Shapes
<1>a. /\ Step(r) \in {"queue", "greet", "write", "await", "evicting", "ending"}
      /\ Blanked(r, "call") /\ Unlock(r)
      /\ closing' \in [Closers -> ClosingState]
      /\ closing'[Handler(r)] = NoClose
      /\ \A d \in Closers : d # Handler(r) => closing'[d] = closing[d]
      /\ cut' \in SUBSET Requests
      /\ \A s \in Requests : s # r /\ s \in cut => s \in cut'
      /\ troubles' \in 0..MaxTroubles /\ troubles' = troubles + 1
      /\ lost' = IF closing[Handler(r)].removed THEN lost + 1 ELSE lost
      /\ UNCHANGED <<sessions, live, saved, proc, pending, asked, stray, ended, raced>>
  <2>1. UNCHANGED <<sessions, live, saved, proc, pending, asked, stray, ended, raced>>
    BY DEF Leave
  <2>2. Step(r) \in {"queue", "greet", "write", "await", "evicting", "ending"}
    BY <1>0, ClosersDiffer DEF Leave, CloseInv
  <2>3. Blanked(r, "call") /\ Unlock(r)
    BY <1>0, DoneBlanks DEF Leave
  <2>4. NoClose \in ClosingState
    BY DEF NoClose, ClosingState
  <2>5. /\ closing' \in [Closers -> ClosingState]
        /\ closing'[Handler(r)] = NoClose
        /\ \A d \in Closers : d # Handler(r) => closing'[d] = closing[d]
    BY <1>0, ClosersDiffer, <2>4 DEF Leave, TypeOK
  <2>6. /\ cut' \in SUBSET Requests
        /\ \A s \in Requests : s # r /\ s \in cut => s \in cut'
    BY <1>0 DEF Leave, TypeOK
  <2>7. /\ troubles' \in 0..MaxTroubles /\ troubles' = troubles + 1
        /\ lost' = IF closing[Handler(r)].removed THEN lost + 1 ELSE lost
    BY <1>0 DEF Leave, Trouble, TypeOK
  <2>8. QED BY <2>1, <2>2, <2>3, <2>5, <2>6, <2>7
<1>k. \A j \in Ids : j \in Known => j \in Known'
  BY <1>s, <1>a DEF Shape, Blanked, Others, Known
<1>1. TypeOK'
  <2>1. lost' \in 0..MaxTroubles
    BY <1>0, <1>a DEF SlotsInv, TypeOK
  <2>2. QED BY <1>0, <1>s, <1>a, <2>1 DEF Shape, Blanked, Others, Unlock, TypeOK
<1>2. RequestInv'
  BY <1>0, <1>s, ClosersDiffer, <1>a DEF Shape, Blanked, Others, RequestInv, Key
<1>3. IdInv'
  BY <1>0, <1>s, ClosersDiffer, <1>a, <1>k DEF Shape, Blanked, Others, IdInv, RequestInv
<1>4. LockInv'
  BY <1>0, <1>s, ClosersDiffer, <1>a DEF Shape, Blanked, Others, Unlock, LockInv, RequestInv
<1>5. FreshInv'
  <2>1. ASSUME NEW q \in Requests, Step(q)' \in {"new", "queue", "reserve", "evicting", "spawn"}
        PROVE  proc'[q].state = "none"
    BY <1>0, <1>s, ClosersDiffer, <1>a, <2>1 DEF Shape, Blanked, Others, NoClose, FreshInv,
        RequestInv
  <2>2. ASSUME NEW q \in Requests, proc'[q].state = "none"
        PROVE  /\ proc'[q].id = Nobody /\ asked'[q] = {}
               /\ \A j \in Ids : sessions'[j] # q
    BY <1>0, <1>s, ClosersDiffer, <1>a, <2>2 DEF Shape, Blanked, Others, NoClose, FreshInv
  <2>3. ASSUME NEW q \in Requests, proc'[q].state = "none"
        PROVE  \A s \in Requests : request'[s].proc # q
    BY <1>0, <1>s, ClosersDiffer, <1>a, <2>3 DEF Shape, Blanked, Others, NoClose, FreshInv
  <2>4. ASSUME NEW q \in Requests, proc'[q].state = "none"
        PROVE  \A d \in Closers : closing'[d].proc # q
    BY <1>0, <1>s, ClosersDiffer, <1>a, <2>4 DEF Shape, Blanked, Others, NoClose, FreshInv,
        RequestInv
  <2>5. QED BY <2>1, <2>2, <2>3, <2>4 DEF FreshInv
<1>6. ProcInv'
  BY <1>0, <1>s, ClosersDiffer, <1>a, <1>k DEF Shape, Blanked, Others, ProcInv
<1>7. EntryInv'
  <2>1. \A j \in Ids : sessions'[j] # Nobody => proc'[sessions'[j]].id = j
    BY <1>0, <1>s, ClosersDiffer, <1>a, <1>k DEF Shape, Blanked, Others, EntryInv, FreshInv
  <2>2. ASSUME NEW q \in Requests, Step(q)' \in Opens, Id(q)' # Nobody
        PROVE  sessions'[Id(q)'] = Nobody
    BY <1>0, <1>s, ClosersDiffer, <1>a, <2>2, <1>k DEF Shape, Blanked, Others, EntryInv, RequestInv,
        IdInv
  <2>3. ASSUME NEW q \in Requests, Step(q)' = "insert"
        PROVE  proc'[q].id = Id(q)' /\ \A j \in Ids : sessions'[j] # q
    BY <1>0, <1>s, ClosersDiffer, <1>a, <2>3, <1>k DEF Shape, Blanked, Others, EntryInv, FreshInv,
        RequestInv
  <2>4. ASSUME NEW q \in Requests, Kind(q)' = "delete", Step(q)' \in {"forget", "ending"}, Session(q)' # Nobody
        PROVE  proc'[Session(q)'].id = Id(q)'
    BY <1>0, <1>s, ClosersDiffer, <1>a, <2>4, <1>k DEF Shape, Blanked, Others, EntryInv, RequestInv,
        FreshInv
  <2>5. QED BY <2>1, <2>2, <2>3, <2>4 DEF EntryInv
<1>8. CloseInv'
  <2>1. ASSUME NEW d \in Closers
        PROVE  /\ closing'[d].step = "none" => closing'[d] = NoClose
               /\ closing'[d].step # "none" => closing'[d].proc # Nobody
               /\ closing'[d].removed => closing'[d].step = "terminate"
    BY <1>0, <1>s, ClosersDiffer, <1>a, <2>1 DEF Shape, Blanked, Others, NoClose, CloseInv,
        RequestInv
  <2>2. ASSUME NEW q \in Requests
        PROVE  closing'[Handler(q)].step # "none" <=> Step(q)' \in {"evicting", "ending"}
    BY <1>0, <1>s, ClosersDiffer, <1>a, <2>2 DEF Shape, Blanked, Others, NoClose, CloseInv
  <2>3. ASSUME NEW q \in Requests, Step(q)' = "ending"
        PROVE  closing'[Handler(q)].proc = Session(q)'
    BY <1>0, <1>s, ClosersDiffer, <1>a, <2>3 DEF Shape, Blanked, Others, NoClose, CloseInv,
        RequestInv
  <2>4. ASSUME NEW q \in Requests
        PROVE  /\ closing'[Reader(q)].proc \in {q, Nobody}
               /\ proc'[q].reader \in {"none", "reading"} => closing'[Reader(q)].step = "none"
    BY <1>0, <1>s, ClosersDiffer, <1>a, <2>4 DEF Shape, Blanked, Others, NoClose, CloseInv,
        FreshInv, ProcInv
  <2>5. QED BY <2>1, <2>2, <2>3, <2>4 DEF CloseInv
<1>9. SlotsInv'
  <2>1. Mapped' = Mapped
    BY <1>a DEF Mapped
  <2>2. Opening' = Opening
    <3>1. \A s \in Requests : s \in Opening' <=> s \in Opening
      BY <1>a DEF Opening, Slot, Blanked, Others
    <3>2. QED BY <3>1 DEF Opening
  <2>3. Removing' = Removing \ {Handler(r)} /\ (Handler(r) \in Removing <=> closing[Handler(r)].removed)
    BY ClosersDiffer, <1>a DEF Removing, NoClose
  <2>4. /\ IsFiniteSet(Removing')
        /\ Cardinality(Removing') = IF Handler(r) \in Removing THEN Cardinality(Removing) - 1 ELSE Cardinality(Removing)
    BY <1>0, <2>3, FS_RemoveElement DEF SlotsInv
  <2>5. /\ Cardinality(Mapped) \in Nat /\ Cardinality(Opening) \in Nat
        /\ Cardinality(Removing) \in Nat /\ Cardinality(Removing') \in Nat
    BY <1>0, <2>4, FS_CardinalityType DEF SlotsInv
  <2>6. /\ live = Cardinality(Mapped) + Cardinality(Opening) + Cardinality(Removing) + lost
        /\ lost \in Nat /\ live \in Nat /\ lost <= troubles /\ troubles \in Nat
    BY <1>0 DEF SlotsInv, TypeOK
  <2>7. live = Cardinality(Mapped') + Cardinality(Opening') + Cardinality(Removing') + lost'
    <3>1. CASE closing[Handler(r)].removed
      <4>1. Cardinality(Removing') = Cardinality(Removing) - 1 /\ lost' = lost + 1
        BY <1>a, <2>3, <2>4, <3>1
      <4>2. QED BY <2>1, <2>2, <2>5, <2>6, <4>1
    <3>2. CASE ~closing[Handler(r)].removed
      <4>1. Cardinality(Removing') = Cardinality(Removing) /\ lost' = lost
        BY <1>a, <2>3, <2>4, <3>2
      <4>2. QED BY <2>1, <2>2, <2>6, <4>1
    <3>3. QED BY <3>1, <3>2
  <2>8. lost' <= troubles' /\ live' = live
    BY <1>a, <2>6
  <2>9. QED BY <1>0, <2>1, <2>2, <2>4, <2>7, <2>8 DEF SlotsInv
<1>10. AskedInv'
  BY <1>0, <1>s, ClosersDiffer, <1>a DEF Shape, Blanked, Others, AskedInv, RequestInv, Key
<1>11. WaitInv'
  <2>1. ASSUME NEW s \in Requests, request'[s].step \in {"write", "await"},
               request'[s].answer = Nobody, s \notin cut'
        PROVE  pending'[request'[s].proc][request'[s].key] = s
    BY <1>0, <1>s, ClosersDiffer, <1>a, <2>1 DEF Shape, Blanked, Others, WaitInv, RequestInv, Key
  <2>2. ASSUME NEW q \in Requests, NEW j \in Keys \union {Hello}, pending'[q][j] # Nobody
        PROVE  request'[pending'[q][j]].step # "new"
    BY <1>0, <1>s, ClosersDiffer, <1>a, <2>2 DEF Shape, Blanked, Others, WaitInv, RequestInv
  <2>3. QED BY <2>1, <2>2 DEF WaitInv, Key
<1>12. AnswerInv'
  <2>1. ASSUME NEW q \in Requests, request'[q].answer # Nobody
        PROVE  request'[q].answer = request[q].answer /\ request[q].answer \in Requests
    BY <1>0, <1>s, ClosersDiffer, <1>a, <2>1 DEF Shape, Blanked, Others, RequestInv
  <2>2. ASSUME NEW s \in Requests, Step(s) \in {"await", "ending", "done"}
        PROVE  /\ Step(s)' \in {"await", "ending", "done"}
               /\ Waits(s)' => Waits(s)
    BY <1>0, <1>s, ClosersDiffer, <1>a, <2>2 DEF Shape, Blanked, Others, Waits, RequestInv
  <2>3. QED BY <2>1, <2>2, <1>0 DEF AnswerInv
<1>13. DeadInv'
  <2>1. ASSUME NEW q \in Requests, proc'[q].reader = "ended", closing'[Reader(q)].step # "remove",
               NEW s \in Requests, Session(s)' = q
        PROVE  ~Waits(s)'
    BY <1>0, <1>s, ClosersDiffer, <1>a, <2>1 DEF Shape, Blanked, Others, DeadInv, Waits, RequestInv
  <2>2. QED BY <2>1 DEF DeadInv
<1>14. RunningInv'
  <2>1. ASSUME NEW q \in Requests, q \notin stray', proc'[q].state = "running", proc'[q].id # Nobody
        PROVE  sessions'[proc'[q].id] = q \/ Step(q)' = "insert"
    BY <1>0, <1>s, ClosersDiffer, <1>a, <2>1 DEF Shape, Blanked, Others, RunningInv, RequestInv
  <2>2. QED BY <2>1 DEF RunningInv
<1>15. ForgetInv'
  <2>1. \A s \in Requests, j \in Ids : Deletes(s, j)' =>
            /\ Deletes(s, j) /\ request'[s] = request[s]
            /\ closing'[Handler(s)] = closing[Handler(s)]
    BY <1>0, <1>s, ClosersDiffer, <1>a DEF Shape, Blanked, Others, NoClose, Deletes, RequestInv
  <2>2. \A j \in Ids : Resumes(j)' => Resumes(j)
    BY <1>0, <1>s, ClosersDiffer, <1>a DEF Shape, Blanked, Others, Unlock, Resumes, LockInv,
        RequestInv
  <2>3. QED BY <1>0, <1>k, <1>a, <2>1, <2>2, ForgetKeep
<1>16. QED BY <1>1, <1>2, <1>3, <1>4, <1>5, <1>6, <1>7, <1>8, <1>9, <1>10, <1>11, <1>12, <1>13,
    <1>14, <1>15 DEF IInv

\* Nothing happens.
LEMMA StutterStep ==
  ASSUME IInv, UNCHANGED vars
  PROVE  IInv'
<1> USE StdioAssumption DEF Step, Kind, Id, Session, Opens, Talks
<1>0. /\ TypeOK /\ RequestInv /\ IdInv /\ LockInv /\ FreshInv
      /\ ProcInv /\ EntryInv /\ CloseInv /\ SlotsInv /\ AskedInv
      /\ WaitInv /\ AnswerInv /\ DeadInv /\ RunningInv /\ ForgetInv
  BY DEF IInv
<1>s. Shape
  BY <1>0, Shapes
<1>a. UNCHANGED <<sessions, live, saved, resuming, proc, pending, asked, request,
                  closing, troubles, cut, lost, stray, ended, raced>>
  BY DEF vars, history
<1>k. \A j \in Ids : j \in Known => j \in Known'
  BY <1>0, <1>s, <1>a DEF Shape, Known
<1>1. TypeOK'
  BY <1>0, <1>s, <1>a DEF Shape, TypeOK
<1>2. RequestInv'
  BY <1>0, <1>s, <1>a DEF Shape, RequestInv, Key
<1>3. IdInv'
  BY <1>0, <1>s, <1>a, <1>k DEF Shape, IdInv, RequestInv
<1>4. LockInv'
  BY <1>0, <1>s, <1>a DEF Shape, LockInv, RequestInv
<1>5. FreshInv'
  BY <1>0, <1>s, <1>a DEF Shape, FreshInv, RequestInv
<1>6. ProcInv'
  BY <1>0, <1>s, <1>a, <1>k DEF Shape, ProcInv
<1>7. EntryInv'
  BY <1>0, <1>s, <1>a, <1>k DEF Shape, EntryInv, RequestInv, IdInv
<1>8. CloseInv'
  BY <1>0, <1>s, <1>a DEF Shape, CloseInv, RequestInv
<1>9. SlotsInv'
  <2>1. \A d \in Closers : closing'[d].removed <=> closing[d].removed
    BY <1>a DEF Removing
  <2>2. \A s \in Requests : s \in Opening' <=> s \in Opening
    BY <1>a DEF Opening, Slot
  <2>3. QED BY <1>0, <1>1, <1>a, <2>1, <2>2, SlotsKeep
<1>10. AskedInv'
  BY <1>0, <1>s, <1>a DEF Shape, AskedInv, RequestInv, Key
<1>11. WaitInv'
  BY <1>0, <1>a DEF WaitInv, Key
<1>12. AnswerInv'
  BY <1>0, <1>s, <1>a DEF Shape, AnswerInv, Waits, RequestInv
<1>13. DeadInv'
  <2>1. ASSUME NEW q \in Requests, proc'[q].reader = "ended", closing'[Reader(q)].step # "remove",
               NEW s \in Requests, Session(s)' = q
        PROVE  ~Waits(s)'
    BY <1>0, <1>s, <1>a, <2>1 DEF Shape, DeadInv, Waits, RequestInv
  <2>2. QED BY <2>1 DEF DeadInv
<1>14. RunningInv'
  <2>1. ASSUME NEW q \in Requests, q \notin stray', proc'[q].state = "running", proc'[q].id # Nobody
        PROVE  sessions'[proc'[q].id] = q \/ Step(q)' = "insert"
    BY <1>0, <1>s, <1>a, <2>1 DEF Shape, RunningInv, RequestInv
  <2>2. QED BY <2>1 DEF RunningInv
<1>15. ForgetInv'
  <2>1. \A s \in Requests, j \in Ids : Deletes(s, j)' =>
            /\ Deletes(s, j) /\ request'[s] = request[s]
            /\ closing'[Handler(s)] = closing[Handler(s)]
    BY ClosersDiffer, <1>a DEF Deletes
  <2>2. \A j \in Ids : Resumes(j)' => Resumes(j)
    BY <1>a DEF Resumes
  <2>3. QED BY <1>0, <1>k, <1>a, <2>1, <2>2, ForgetKeep
<1>16. QED BY <1>1, <1>2, <1>3, <1>4, <1>5, <1>6, <1>7, <1>8, <1>9, <1>10, <1>11, <1>12, <1>13,
    <1>14, <1>15 DEF IInv

-----------------------------------------------------------------------------
(* The steps of the handlers, told by what they come to.                   *)

Rest == <<sessions, live, saved, proc, asked, troubles, lost, stray, ended, raced>>

\* A handler is done, or has to close first what it started.
LEMMA ProceedStep ==
  ASSUME IInv, NEW r \in Requests, NEW ok \in BOOLEAN, Step(r) \in Talks, Proceed(r, ok),
         Emptied(r), UNCHANGED Rest
  PROVE  IInv'
<1>0. TypeOK /\ RequestInv /\ Shape
  BY Shapes DEF IInv
<1>1. CASE Kind(r) = "oneshot" \/ (Kind(r) = "initialize" /\ ~ok)
  <2>1. Close(r, Session(r), "ending") /\ UNCHANGED resuming
    BY <1>1 DEF Proceed, Kind
  <2>2. Session(r) \in Requests
    BY <1>0 DEF RequestInv, Shape, Session, Talks
  <2>3. Moved(r, "ending", Session(r)) /\ Closes(Handler(r), Session(r))
    BY <1>0, <2>1, <2>2, CloseMoves DEF RequestSteps
  <2>4. Kind(r) \in {"oneshot", "initialize"}
    BY <1>1
  <2>5. QED BY <2>1, <2>3, <2>4, EndStep DEF Rest
<1>2. CASE ~(Kind(r) = "oneshot" \/ (Kind(r) = "initialize" /\ ~ok))
  <2>1. Finish(r) /\ UNCHANGED closing
    BY <1>2 DEF Proceed, Kind
  <2>2. PICK kind \in {"initialize", "call"} :
          Blanked(r, kind) /\ (kind = "initialize" => Kind(r) = "initialize")
    BY <1>0, <2>1, FinishBlanks
  <2>3. Unlock(r)
    BY <2>1 DEF Finish
  <2>4. QED BY <2>1, <2>2, <2>3, FinishStep DEF Rest
<1>3. QED BY <1>1, <1>2

LEMMA FindLockedStep ==
  ASSUME IInv, NEW r \in Requests, FindLocked(r)
  PROVE  IInv'
<1>0. TypeOK /\ IdInv /\ RequestInv /\ Shape
  BY Shapes DEF IInv
<1>1. Step(r) = "queue" /\ resuming = Nobody /\ UNCHANGED Rest /\ UNCHANGED <<pending, closing, cut>>
  BY DEF FindLocked, Step, Rest, history
<1>2. Id(r) \in Ids /\ LookAgain(r) = sessions[Id(r)] /\ sessions[Id(r)] \in Requests \union {Nobody}
  BY <1>0, <1>1 DEF IdInv, RequestInv, Shape, LookAgain, Id
<1>3. CASE LookAgain(r) # Nobody /\ UNCHANGED resuming
           /\ request' = [request EXCEPT ![r].proc = LookAgain(r), ![r].step = "send"]
  <2>1. LookAgain(r) \in Requests
    BY <1>2, <1>3
  <2>2. Moved(r, "send", LookAgain(r))
    BY <1>0, <1>3, <2>1, MovesTo DEF RequestSteps
  <2>3. QED BY <1>1, <1>2, <1>3, <2>1, <2>2, FoundStep DEF Rest
<1>4. CASE LookAgain(r) = Nobody /\ Id(r) \in saved /\ Go(r, "reserve") /\ resuming' = r
  <2>1. Moved(r, "reserve", Session(r))
    BY <1>0, <1>4, GoMoves DEF RequestSteps
  <2>2. QED BY <1>1, <1>2, <1>4, <2>1, LockStep DEF Rest
<1>5. CASE Finish(r)
  <2>1. PICK kind \in {"initialize", "call"} :
          Blanked(r, kind) /\ (kind = "initialize" => Kind(r) = "initialize")
    BY <1>0, <1>5, FinishBlanks
  <2>2. Unlock(r) /\ Emptied(r)
    BY <1>0, <1>1, <1>5, KeepsEmpties DEF Finish
  <2>3. QED BY <1>1, <2>1, <2>2, FinishStep DEF Rest
<1>6. QED BY <1>3, <1>4, <1>5 DEF FindLocked, Id

LEMMA LimitReachedStep ==
  ASSUME IInv, NEW r \in Requests, LimitReached(r) \/ OnlyFind(r)
  PROVE  IInv'
<1>0. TypeOK
  BY DEF IInv
<1>1. Step(r) \in {"reserve", "send"} /\ Finish(r) /\ UNCHANGED Rest /\ UNCHANGED <<pending, closing, cut>>
  BY DEF LimitReached, OnlyFind, Step, Rest, history
<1>2. PICK kind \in {"initialize", "call"} :
        Blanked(r, kind) /\ (kind = "initialize" => Kind(r) = "initialize")
  BY <1>0, <1>1, FinishBlanks
<1>3. Unlock(r) /\ Emptied(r)
  BY <1>0, <1>1, KeepsEmpties DEF Finish
<1>4. Step(r) \in Talks \union {"queue", "reserve"}
  BY <1>1 DEF Talks
<1>5. QED BY <1>1, <1>2, <1>3, <1>4, FinishStep DEF Rest

\* A request that leaves the table and goes on.
LEMMA WithdrawStep ==
  ASSUME IInv, NEW r \in Requests, NEW ok \in BOOLEAN, Step(r) \in Talks, Proceed(r, ok), Withdraw(r),
         UNCHANGED <<sessions, live, saved, proc, asked, troubles>>
  PROVE  IInv'
<1>1. TypeOK /\ RequestInv /\ Shape
  BY Shapes DEF IInv
<1>2. Session(r) \in Requests
  BY <1>1 DEF RequestInv, Shape, Session, Talks
<1>3. Emptied(r)
  BY <1>1, <1>2, WithdrawQuits, QuitsEmpties
<1>4. UNCHANGED Rest
  BY DEF Rest, Withdraw
<1>5. QED BY <1>3, <1>4, ProceedStep

LEMMA SendStep ==
  ASSUME IInv, NEW r \in Requests, Send(r)
  PROVE  IInv'
<1>0. TypeOK /\ RequestInv /\ Shape
  BY Shapes DEF IInv
<1>1. Step(r) = "send" /\ UNCHANGED Rest /\ UNCHANGED cut
  BY DEF Send, Step, Rest, history
<1>2. Session(r) \in Requests /\ Key(r) \in Keys /\ Step(r) \in Talks
  BY <1>0, <1>1 DEF RequestInv, Shape, Session, Talks
<1>3. CASE KeyIsFree(r)
  <2>1. SetPending(Session(r), Key(r), r) /\ Go(r, "write") /\ UNCHANGED <<resuming, closing>>
    BY <1>3 DEF Send
  <2>2. Sets(Session(r), Key(r), r) /\ Moved(r, "write", Session(r))
    BY <1>0, <1>2, <2>1, PendingSets, GoMoves DEF RequestSteps
  <2>3. QED BY <1>1, <1>3, <2>1, <2>2, SendsStep DEF Rest, KeyIsFree
<1>4. CASE ~KeyIsFree(r)
  <2>1. Proceed(r, FALSE) /\ UNCHANGED pending
    BY <1>4 DEF Send
  <2>2. Emptied(r)
    BY <1>0, <1>1, <2>1, KeepsEmpties
  <2>3. QED BY <1>1, <1>2, <2>1, <2>2, ProceedStep
<1>5. QED BY <1>3, <1>4

LEMMA WriteStep ==
  ASSUME IInv, NEW r \in Requests, Write(r)
  PROVE  IInv'
<1>0. TypeOK /\ RequestInv /\ Shape
  BY Shapes DEF IInv
<1>1. Step(r) = "write" /\ UNCHANGED <<sessions, live, saved, proc, troubles>>
  BY DEF Write, Step
<1>2. Session(r) \in Requests /\ Key(r) \in Keys /\ Step(r) \in Talks
  BY <1>0, <1>1 DEF RequestInv, Shape, Session, Talks
<1>3. CASE /\ proc[Session(r)].state \in {"running", "ending"}
           /\ asked' = [asked EXCEPT ![Session(r)] = IF Heard(r) THEN @ \union {<<Key(r), r>>} ELSE @]
           /\ Go(r, "await")
           /\ UNCHANGED <<pending, resuming, closing, history>>
  <2>1. Moved(r, "await", Session(r))
    BY <1>0, <1>3, GoMoves DEF RequestSteps
  <2>2. <<Key(r), r>> \in Keys \X Requests
    BY <1>2
  <2>3. /\ asked' \in [Requests -> SUBSET (Keys \X Requests)]
        /\ \A q \in Requests : \A a \in asked'[q] : a \in asked[q] \/ (q = Session(r) /\ a = <<Key(r), r>>)
    BY <1>0, <1>2, <1>3, <2>2 DEF TypeOK
  <2>4. QED BY <1>1, <1>3, <2>1, <2>3, WritesStep DEF history
<1>4. CASE Withdraw(r) /\ Proceed(r, FALSE) /\ UNCHANGED asked
  BY <1>1, <1>2, <1>4, WithdrawStep
<1>5. QED BY <1>3, <1>4 DEF Write

LEMMA WithdrawnStep ==
  ASSUME IInv, NEW r \in Requests, Answered(r) \/ Stopped(r) \/ TimeOut(r)
  PROVE  IInv'
<1>1. Step(r) \in Talks /\ Withdraw(r) /\ UNCHANGED <<sessions, live, saved, proc, asked, troubles>>
  BY DEF Answered, Stopped, TimeOut, Step, Talks, Timed
<1>2. \E ok \in BOOLEAN : Proceed(r, ok)
  BY DEF Answered, Stopped, TimeOut
<1>3. QED BY <1>1, <1>2, WithdrawStep

LEMMA ForgetStep ==
  ASSUME IInv, NEW r \in Requests, Forget(r)
  PROVE  IInv'
<1>0. TypeOK /\ RequestInv /\ IdInv /\ Shape
  BY Shapes DEF IInv
<1>1. /\ Step(r) = "forget" /\ saved' = saved \ {Id(r)}
      /\ UNCHANGED <<sessions, live, resuming, proc, pending, asked, troubles, cut, lost, stray>>
      /\ raced' = IF Resumes(Id(r)) \/ sessions[Id(r)] \notin {Nobody, Session(r)}
                  THEN raced \union {Id(r)} ELSE raced
  BY DEF Forget, Step, Id
<1>2. Id(r) \in Known /\ Id(r) \in Ids
  BY <1>0, <1>1 DEF IdInv, RequestInv, Shape
<1>3. /\ raced' \in SUBSET Ids /\ raced \subseteq raced'
      /\ Resumes(Id(r)) \/ sessions[Id(r)] \notin {Nobody, Session(r)} => Id(r) \in raced'
  BY <1>0, <1>1, <1>2 DEF TypeOK
<1>4. CASE Session(r) # Nobody
  <2>1. Close(r, Session(r), "ending") /\ UNCHANGED ended
    BY <1>4 DEF Forget
  <2>2. Session(r) \in Requests
    BY <1>0, <1>4 DEF Shape, Session
  <2>3. Moved(r, "ending", Session(r)) /\ Closes(Handler(r), Session(r))
    BY <1>0, <2>1, <2>2, CloseMoves DEF RequestSteps
  <2>4. QED BY <1>1, <1>2, <1>3, <1>4, <2>1, <2>3, ForgetCloses
<1>5. CASE Session(r) = Nobody
  <2>1. Done(r, "call") /\ ended' = ended \union {Id(r)} /\ UNCHANGED closing
    BY <1>5 DEF Forget, Id
  <2>2. Blanked(r, "call")
    BY <1>0, <2>1, DoneBlanks
  <2>3. QED BY <1>1, <1>2, <1>3, <1>5, <2>1, <2>2, ForgetOnly
<1>6. QED BY <1>4, <1>5

LEMMA EvictsStep ==
  ASSUME IInv, NEW r \in Requests, Evict(r)
  PROVE  IInv'
  BY EvictStep DEF Evict, Step, history

LEMMA ReadersStep ==
  ASSUME IInv, NEW p \in Requests, ReadToEnd(p) \/ OversizedLine(p)
  PROVE  IInv'
<1>1. troubles \in 0..MaxTroubles /\ MaxTroubles \in Nat
  BY StdioAssumption DEF IInv, TypeOK
<1>2. CASE ReadToEnd(p)
  BY <1>1, <1>2, EndReadingStep DEF ReadToEnd
<1>3. CASE OversizedLine(p)
  <2>1. proc[p].state = "running" /\ EndReading(p, "gave_up", "running")
    BY <1>3 DEF OversizedLine
  <2>2. troubles' \in 0..MaxTroubles /\ troubles <= troubles'
    BY <1>1, <1>3 DEF OversizedLine, Trouble
  <2>3. QED BY <2>1, <2>2, EndReadingStep
<1>4. QED BY <1>2, <1>3

LEMMA TerminateStep ==
  ASSUME IInv, NEW c \in Closers, Terminate(c)
  PROVE  IInv'
<1>1. CASE c[1] # "handler"
  BY <1>1, TerminateAloneStep
<1>2. CASE c[1] = "handler"
  <2>1. PICK r \in Requests : c = Handler(r)
    BY <1>2, CloserNames
  <2>2. QED BY <2>1, TerminateEvictStep, TerminateEndStep
<1>3. QED BY <1>1, <1>2

-----------------------------------------------------------------------------
(* The theorems.                                                           *)

LEMMA NextKeeps ==
  ASSUME IInv, [Next]_vars
  PROVE  IInv'
<1>1. ASSUME NEW r \in Requests, Arrive(r)
      PROVE  IInv'
  BY <1>1, InitializeStep, OneShotStep, FindStep, DeleteStep DEF Arrive
<1>2. ASSUME NEW r \in Requests, Open(r)
      PROVE  IInv'
  BY <1>2, FindLockedStep, ReserveStep, EvictsStep, LimitReachedStep, SpawnStep, InsertStep, GreetedStep,
     GreetFailsStep DEF Open
<1>3. ASSUME NEW r \in Requests, Converse(r)
      PROVE  IInv'
  BY <1>3, SendStep, LimitReachedStep, WithdrawnStep DEF Converse
<1>4. ASSUME NEW r \in Requests, Process(r)
      PROVE  IInv'
  BY <1>4, DeliverStep, CrashStep, ReadersStep, DropStep DEF Process
<1>5. QED BY <1>1, <1>2, <1>3, <1>4, SpawnFailsStep, WriteStep, ForgetStep, LeaveStep, RemoveStep,
            TerminateStep, SweepStep, StutterStep DEF Next

LEMMA InitHolds ==
  ASSUME Init
  PROVE  IInv
<1> USE StdioAssumption
<1>1. TypeOK
  <2>1. Blank("new", "call") \in RequestState
    BY DEF Blank, RequestState, RequestSteps
  <2>2. NoClose \in ClosingState
    BY DEF NoClose, ClosingState
  <2>3. [id |-> Nobody, state |-> "none", reader |-> "none"] \in ProcState
    BY DEF ProcState
  <2>4. SavedIds \in SUBSET Ids
    BY DEF Ids
  <2>5. QED BY <2>1, <2>2, <2>3, <2>4 DEF Init, TypeOK
<1>2. Shape
  BY <1>1, Shapes
<1>3. \A r \in Requests : /\ request[r].step = "new" /\ request[r].kind = "call" /\ request[r].proc = Nobody
                          /\ request[r].answer = Nobody
                          /\ proc[r].state = "none" /\ proc[r].id = Nobody /\ proc[r].reader = "none"
                          /\ asked[r] = {} /\ \A k \in Keys \union {Hello} : pending[r][k] = Nobody
  BY DEF Init, Blank
<1>4. /\ \A i \in Ids : sessions[i] = Nobody
      /\ \A c \in Closers : closing[c] = NoClose
      /\ resuming = Nobody /\ ended = {} /\ live = 0 /\ lost = 0 /\ troubles = 0
  BY DEF Init
<1>5. RequestInv /\ IdInv /\ LockInv
  BY <1>3, <1>4 DEF RequestInv, IdInv, LockInv, Step, Kind, Session, Opens, Talks
<1>6. FreshInv /\ ProcInv /\ EntryInv
  BY <1>2, <1>3, <1>4 DEF FreshInv, ProcInv, EntryInv, Step, Kind, Session, Opens, NoClose, Shape
<1>7. CloseInv
  <2>1. NoClose.step = "none" /\ NoClose.proc = Nobody /\ ~NoClose.removed
    BY DEF NoClose
  <2>2. QED BY <1>3, <1>4, <2>1, ClosersDiffer DEF CloseInv, Step
<1>8. SlotsInv
  <2>1. Mapped = {} /\ Opening = {} /\ Removing = {}
    BY <1>3, <1>4 DEF Mapped, Opening, Removing, NoClose
  <2>2. QED BY <1>4, <2>1, FS_EmptySet DEF SlotsInv
<1>9. AskedInv /\ WaitInv /\ AnswerInv /\ DeadInv /\ RunningInv
  BY <1>3, <1>4 DEF AskedInv, WaitInv, AnswerInv, DeadInv, RunningInv, Step
<1>10. ForgetInv
  BY <1>3, <1>4 DEF ForgetInv, Forgotten, Deletes, Step
<1>11. QED BY <1>1, <1>5, <1>6, <1>7, <1>8, <1>9, <1>10 DEF IInv

\* IInv holds in every state the source can reach.
THEOREM Invariance == Spec => []IInv
<1>1. Init => IInv
  BY InitHolds
<1>2. IInv /\ [Next]_vars => IInv'
  BY NextKeeps
<1>3. QED BY <1>1, <1>2, PTL DEF Spec

\* Every variable has its shape, and never are more than MAX_SESSIONS slots
\* taken (mcp_stdio.rs:146-206).
THEOREM TypesHold == Spec => []TypeOK
<1>1. IInv => TypeOK
  BY DEF IInv
<1>2. QED BY <1>1, Invariance, PTL

\* sessions_live counts the entries, the processes being started, the entries
\* being closed and the closes that were cut off, each once (mcp_stdio.rs:146-206).
THEOREM SlotsAreAccounted == Spec => []SlotsAccounted
<1>1. IInv => SlotsAccounted
  BY DEF IInv, SlotsInv, SlotsAccounted, Removing
<1>2. QED BY <1>1, Invariance, PTL

\* An answer that goes to another request than the one it is for was not waited
\* for any more (mcp_stdio.rs:281-315).
THEOREM AnswersAreTheirs == Spec => []AnswersReachTheirRequest
<1>1. IInv => AnswersReachTheirRequest
  <2> SUFFICES ASSUME IInv, NEW r \in Requests, request[r].answer \in Requests \ {r}
               PROVE  ~Waits(request[r].answer)
    BY DEF AnswersReachTheirRequest
  <2>1. request[r].answer # Nobody
    BY StdioAssumption
  <2>2. QED BY <2>1 DEF IInv, AnswerInv
<1>2. QED BY <1>1, Invariance, PTL

\* Nobody waits on a process that has ended once its reader has told its
\* callers (mcp_stdio.rs:79-83, 146-148, 225-238).
THEOREM TheDeadAreLeft == Spec => []NobodyWaitsOnTheDead
<1>1. IInv => NobodyWaitsOnTheDead
  <2> SUFFICES ASSUME IInv, NEW r \in Requests, Waits(r), proc[Session(r)].state = "dead"
               PROVE  \/ proc[Session(r)].reader \in {"reading", "gave_up"}
                      \/ closing[Reader(Session(r))].step = "remove"
    BY DEF NobodyWaitsOnTheDead
  <2>1. Session(r) \in Requests
    <3>1. TypeOK /\ RequestInv /\ Shape
      BY Shapes DEF IInv
    <3>2. QED BY <3>1 DEF Shape, RequestInv, Waits, Step, Talks, Session
  <2>2. proc[Session(r)].reader \in {"reading", "ended", "gave_up"}
    <3>1. TypeOK /\ ProcInv
      BY DEF IInv
    <3>2. proc[Session(r)].reader \in {"none", "reading", "ended", "gave_up"}
      BY <2>1, <3>1 DEF TypeOK, ProcState
    <3>3. QED BY <2>1, <3>1, <3>2 DEF ProcInv
  <2>3. QED BY <2>1, <2>2 DEF IInv, DeadInv
<1>2. QED BY <1>1, Invariance, PTL

\* Two processes of one session id never run at once, but for one whose entry
\* the close of an earlier one took (mcp_stdio.rs:336-367, 147).
THEOREM SessionsHaveOneProcess == Spec => []OneProcessPerSession
<1>1. IInv => OneProcessPerSession
  <2> SUFFICES ASSUME IInv, NEW p \in Requests \ stray, NEW q \in Requests \ stray,
                      p # q, proc[p].id = proc[q].id, proc[p].id # Nobody,
                      proc[p].state = "running", proc[q].state = "running"
               PROVE  FALSE
    BY DEF OneProcessPerSession
  <2>0. TypeOK /\ RequestInv /\ IdInv /\ LockInv /\ EntryInv /\ RunningInv /\ Shape
    BY Shapes DEF IInv
  <2>1. \A s \in {p, q} : sessions[proc[s].id] = s \/ Step(s) = "insert"
    BY <2>0 DEF RunningInv
  <2>2. \A s \in {p, q} : Step(s) = "insert" =>
            Id(s) = proc[s].id /\ sessions[proc[s].id] = Nobody
    BY <2>0 DEF EntryInv, Opens
  <2>3. p # Nobody /\ q # Nobody
    BY StdioAssumption
  <2>4. Step(p) = "insert" /\ Step(q) = "insert" /\ Id(p) = Id(q)
    BY <2>1, <2>2, <2>3
  <2>5. ASSUME NEW s \in Requests, Step(s) = "insert"
        PROVE  \/ Kind(s) = "initialize" /\ Id(s) = s
               \/ resuming = s /\ Id(s) \in Known
    <3>1. Step(s) \in Opens /\ Kind(s) \in {"initialize", "call"}
      BY <2>0, <2>5 DEF RequestInv, Opens
    <3>2. QED BY <2>0, <2>5, <3>1 DEF IdInv, LockInv
  <2>6. p \notin Known /\ q \notin Known
    BY <2>0, <2>4 DEF Shape, Step
  <2>7. QED BY <2>4, <2>5, <2>6
<1>2. QED BY <1>1, Invariance, PTL

\* A session whose DELETE has returned is not in the table and not saved, but
\* for one that a resume brought back that had read the row (mcp_stdio.rs:471-478).
THEOREM EndedSessionsStayEnded == Spec => []EndedStaysEnded
<1>1. IInv => EndedStaysEnded
  BY DEF IInv, TypeOK, ForgetInv, Forgotten, EndedStaysEnded
<1>2. QED BY <1>1, Invariance, PTL
=============================================================================
