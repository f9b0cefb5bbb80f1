---------------------------- MODULE SurfaceProofs ----------------------------
(***************************************************************************)
(* Proofs about Surface, for every number of exchanges, tools and reloads, *)
(* whatever clients post, the app offers and the rules say. One inductive  *)
(* invariant, IInv. The last part is about Screen, which shares nothing    *)
(* with Surface: any file, commands and dialogs, and others that edit the  *)
(* file meanwhile. Its inductive invariant is ScreenInv.                   *)
(***************************************************************************)
EXTENDS Surface, Screen, TLAPS

Kinds == {"absent", "plain", "runs"}

EntryState ==
    [state : {"starting", "live", "waiting", "refused"}, tools : [Tools -> Kinds],
     allowed : SUBSET Tools, defaultOn : BOOLEAN]

Callable == Tools \union {NoTool}

\* What clients post and what the app asks them; what may have come of it.
Spoken == RpcMessage \union {Question(id) : id \in Ids}
Replies == SUBSET (Spoken \X {"ok", "error", "none", "large"})

ExchangeState ==
    [step : {"none", "gate", "calling", "called", "filtering", "body", "copied", "ended", "gone", "broken"},
     batch : Batches \union {{}}, entry : EntryState, answer : [Tools -> Kinds], todo : SUBSET Tools,
     tool : Callable, shown : SUBSET Tools, replies : Replies,
     lone : BOOLEAN, fresh : SUBSET Tools]

TypeInv ==
    /\ app \in [Tools -> Kinds]
    /\ trusted \in BOOLEAN
    /\ rules \in Settings
    /\ entry \in EntryState
    /\ refused \subseteq Tools
    /\ exch \in [Exchanges -> ExchangeState]
    /\ log \subseteq Exchanges \X Spoken \X {"refused", "error", "ok"}
    /\ listed \subseteq Tools

\* An entry allows valid tools only, and is live with one that runs commands only if
\* the app is trusted; that of an exchange was live when it began.
Sound(e) ==
    /\ e.allowed \intersect Invalid = {}
    /\ e.state = "live" => \A t \in e.allowed : Dangerous(e.tools, t) => trusted

Begun == {"gate", "calling", "called", "filtering", "body", "copied"}

EntryInv ==
    /\ Sound(entry)
    /\ \A x \in Exchanges :
          Sound(exch[x].entry) /\ (exch[x].step \in Begun => exch[x].entry.state = "live")

\* A list that nothing overlapped is the only one that can write into refused.
LoneInv ==
    \A x, y \in Exchanges : x # y /\ Listing(x) /\ exch[x].lone => ~Listing(y)

Learnt(x) == {t \in Tools \ exch[x].todo : exch[x].answer[t] # "absent"}
HeldBack(x, t) == Dangerous(exch[x].answer, t) /\ ~Dangerous(exch[x].entry.tools, t)

\* What a filter has got through so far: of a lone list the map says what its answer
\* does, and it has shown the rest.
FilterOf(x) ==
    /\ exch[x].step \in {"gate", "calling", "called"} => exch[x].tool = NoTool /\ exch[x].shown = {}
    /\ exch[x].step = "called" /\ Lists(exch[x].batch) =>
          exch[x].todo = {t \in Tools : exch[x].answer[t] # "absent"}
    /\ exch[x].step = "filtering" =>
          /\ Lists(exch[x].batch)
          /\ exch[x].todo \subseteq {t \in Tools : exch[x].answer[t] # "absent"}
          /\ exch[x].tool \notin exch[x].todo \union Invalid
          /\ exch[x].tool # NoTool => exch[x].answer[exch[x].tool] # "absent"
    /\ exch[x].step = "filtering" /\ exch[x].lone =>
          /\ \A t \in Learnt(x) \ Invalid : t \in refused <=> HeldBack(x, t)
          /\ exch[x].shown = {t \in (Learnt(x) \intersect exch[x].entry.allowed) \ {exch[x].tool} : ~HeldBack(x, t)}

\* In the end that is all of it: LoneListsAreExact.
ExactOf(x) ==
    exch[x].step \in {"body", "copied"} /\ Lists(exch[x].batch) /\ exch[x].lone =>
        exch[x].shown = {t \in exch[x].entry.allowed : exch[x].answer[t] # "absent" /\ ~HeldBack(x, t)}

FilterInv == \A x \in Exchanges : FilterOf(x) /\ ExactOf(x)

\* What lists know of a tool that did not change since: the registry has not
\* forgotten that it runs commands, and the answer says what the app does.
FreshOf(x) ==
    Listing(x) => \A t \in exch[x].fresh \ Invalid :
        /\ exch[x].step \in {"called", "filtering"} => exch[x].answer[t] = app[t]
        /\ Dangerous(app, t) /\ Dangerous(exch[x].entry.tools, t) => Dangerous(entry.tools, t)

FreshInv == \A x \in Exchanges : FreshOf(x)

\* The same of tools that are listed; one of them is held back until the registry
\* knows, and no list under way lets it go.
ListedOf(x) ==
    Listing(x) => \A t \in listed \ Invalid : Dangerous(app, t) =>
        /\ exch[x].step \in {"called", "filtering"} => Dangerous(exch[x].answer, t)
        /\ Dangerous(exch[x].entry.tools, t) => Dangerous(entry.tools, t)

ListedInv ==
    /\ \A t \in listed \ Invalid : Dangerous(app, t) => Dangerous(entry.tools, t) \/ t \in refused
    /\ \A x \in Exchanges : ListedOf(x)

\* Nothing is logged of an exchange before it ends.
LogInv == \A x \in Exchanges : exch[x].step \in Begun => \A l \in log : l[1] # x

\* A call is logged by these lines, by what came with its id.
LoggedBy(x, c, lines, replies) ==
    \E r \in replies :
        /\ r[1].id = c.id
        /\ {l \in lines : l[1] = x /\ l[2] = c} =
              {<<x, c, IF r[2] \in {"ok", "large"} THEN "ok" ELSE "error">>}

IInv ==
    /\ TypeInv
    /\ EntryInv
    /\ LoneInv
    /\ FilterInv
    /\ FreshInv
    /\ ListedInv
    /\ LogInv
    /\ AnsweredCallsAreLogged

-----------------------------------------------------------------------------
(* What steps have in common. *)

LEMMA CallsAreMessages == \A b \in Batches \union {{}} : Calls(b) \subseteq b /\ b \subseteq Spoken
BY SurfaceAssumption DEF Calls, Spoken

\* What AnsweredCallsAreLogged says of one exchange.
LEMMA LoggedIs ==
  AnsweredCallsAreLogged <=>
    \A x \in Exchanges : exch[x].step = "ended" =>
        \A c \in Calls(exch[x].batch) : LoggedBy(x, c, log, exch[x].replies)
BY DEF AnsweredCallsAreLogged, LoggedBy

LEMMA Nothings ==
    /\ NoEntry \in EntryState /\ NoEntry.state = "starting" /\ NoEntry.allowed = {}
    /\ NoEntry.tools = [t \in Tools |-> "absent"]
    /\ NoExchange \in ExchangeState /\ NoExchange.step = "none" /\ NoExchange.replies = {}
    /\ NoExchange.entry = NoEntry /\ NoExchange.batch = {} /\ NoExchange.fresh = {}
    /\ NoExchange.tool = NoTool /\ NoExchange.shown = {} /\ NoExchange.todo = {}
<1>1. /\ NoEntry \in EntryState /\ NoEntry.state = "starting" /\ NoEntry.allowed = {}
      /\ NoEntry.tools = [t \in Tools |-> "absent"]
  BY DEF NoEntry, EntryState, Kinds
<1>r. {} \in Replies
  BY DEF Replies
<1>2. NoEntry.tools \in [Tools -> Kinds]
  BY <1>1 DEF Kinds
<1>3. QED BY <1>1, <1>2, <1>r DEF NoExchange, ExchangeState, Callable

\* What the registry makes of the tools it is told of.
LEMMA ChecksAreSound ==
  ASSUME NEW tools \in [Tools -> Kinds], NEW setting \in Settings, trusted \in BOOLEAN
  PROVE  LET e == Checked(tools, setting, trusted) IN
         /\ e \in EntryState /\ Sound(e)
         /\ \A t \in Tools \ Invalid : e.tools[t] = tools[t]
<1> DEFINE known == [t \in Tools |-> IF t \in Invalid THEN "absent" ELSE tools[t]]
           allowed == {t \in Tools : known[t] # "absent" /\ t \notin setting.off}
           danger == {t \in allowed : Dangerous(known, t)}
           state == IF danger = {} \/ trusted THEN "live" ELSE "refused"
           e == Checked(tools, setting, trusted)
<1>1. e = [state |-> state, tools |-> known, allowed |-> allowed, defaultOn |-> setting.defaultOn]
  BY DEF Checked
<1>2. known \in [Tools -> Kinds] /\ \A t \in Tools : known[t] = IF t \in Invalid THEN "absent" ELSE tools[t]
  BY DEF Kinds
<1>3. state \in {"live", "refused"} /\ (state = "live" => \A t \in allowed : Dangerous(known, t) => trusted)
  OBVIOUS
<1>4. allowed \in SUBSET Tools /\ allowed \intersect Invalid = {} /\ setting.defaultOn \in BOOLEAN
  BY <1>2, SurfaceAssumption
<1> HIDE DEF known, allowed, state, e
<1>5. /\ e \in EntryState /\ e.state = state /\ e.tools = known /\ e.allowed = allowed
  BY <1>1, <1>2, <1>3, <1>4 DEF EntryState
<1>6. QED BY <1>2, <1>3, <1>4, <1>5 DEF Sound, e

\* What is left of an exchange that ends.
LEMMA OverIs ==
  ASSUME NEW x \in Exchanges, exch[x] \in ExchangeState, NEW how \in {"ended", "gone", "broken"},
         NEW replies \in Replies
  PROVE  LET w == Over(x, how, replies) IN
         /\ w \in ExchangeState /\ w.entry = NoEntry /\ w.step \in {"none", how}
         /\ w.step = how => w.replies = replies /\ w.batch = exch[x].batch
<1> DEFINE kept == [NoExchange EXCEPT !.step = how, !.replies = replies, !.batch = exch[x].batch]
<1>1. /\ kept \in ExchangeState /\ kept.entry = NoEntry /\ kept.step = how
      /\ kept.replies = replies /\ kept.batch = exch[x].batch
  BY Nothings DEF ExchangeState
<1>2. Over(x, how, replies) = IF replies = {} THEN NoExchange ELSE kept
  BY DEF Over
<1> HIDE DEF kept
<1>3. QED BY <1>1, <1>2, Nothings

LEMMA ExchangeBecomes ==
  ASSUME TypeInv, NEW x \in Exchanges, NEW w \in ExchangeState, exch' = [exch EXCEPT ![x] = w]
  PROVE  /\ exch' \in [Exchanges -> ExchangeState] /\ exch'[x] = w
         /\ \A y \in Exchanges \ {x} : exch'[y] = exch[y]
BY DEF TypeInv

LEMMA Parts ==
  IInv => TypeInv /\ EntryInv /\ LoneInv /\ FilterInv /\ FreshInv /\ ListedInv /\ LogInv /\ AnsweredCallsAreLogged
BY DEF IInv

LEMMA TypesOf ==
  ASSUME TypeInv, NEW x \in Exchanges
  PROVE  /\ exch[x] \in ExchangeState
         /\ exch[x].batch \in Batches \union {{}} /\ exch[x].entry \in EntryState
         /\ exch[x].answer \in [Tools -> Kinds] /\ exch[x].todo \in SUBSET Tools /\ exch[x].tool \in Callable
         /\ exch[x].replies \in Replies
         /\ exch[x].fresh \in SUBSET Tools /\ exch[x].shown \in SUBSET Tools /\ exch[x].lone \in BOOLEAN
BY DEF TypeInv, ExchangeState

\* An exchange goes on with the entry and the batch it began with.
LEMMA FilterGoesOn ==
  ASSUME IInv, NEW x \in Exchanges, NEW w \in ExchangeState, exch' = [exch EXCEPT ![x] = w],
         UNCHANGED <<app, trusted, rules, entry, log>>, exch[x].step \in Begun, w.step \in Begun,
         w.batch = exch[x].batch, w.entry = exch[x].entry, w.lone = exch[x].lone, w.fresh = exch[x].fresh,
         refused' \in SUBSET Tools, listed' \in SUBSET Tools, refused' = refused \/ Listing(x),
         Listing(x)' => Listing(x), FilterOf(x)', ExactOf(x)', FreshOf(x)', ListedInv'
  PROVE  IInv'
<1>0. TypeInv /\ EntryInv /\ LoneInv /\ FilterInv /\ FreshInv /\ ListedInv /\ LogInv /\ AnsweredCallsAreLogged
  BY Parts
<1>a. /\ exch' \in [Exchanges -> ExchangeState] /\ exch'[x] = w
      /\ \A y \in Exchanges \ {x} : exch'[y] = exch[y]
  BY <1>0, ExchangeBecomes
<1>b. \A y \in Exchanges : Listing(y)' => Listing(y)
  BY <1>a DEF Listing
<1>1. TypeInv'
  BY <1>0, <1>a DEF TypeInv
<1>2. EntryInv'
  BY <1>0, <1>a DEF EntryInv, Sound
<1>3. LoneInv'
  BY <1>0, <1>a, <1>b DEF LoneInv
<1>4. FilterInv'
  <2> SUFFICES ASSUME NEW y \in Exchanges, y # x PROVE FilterOf(y)' /\ ExactOf(y)'
    BY DEF FilterInv
  <2>1. exch'[y] = exch[y] /\ FilterOf(y) /\ ExactOf(y)
    BY <1>0, <1>a DEF FilterInv
  <2>2. exch[y].step = "filtering" /\ exch[y].lone => refused' = refused
    BY <1>0, <2>1 DEF FilterOf, LoneInv, Listing
  <2>3. QED BY <2>1, <2>2 DEF FilterOf, ExactOf, Learnt, HeldBack
<1>5. FreshInv'
  BY <1>0, <1>a DEF FreshInv, FreshOf, Listing
<1>7. LogInv'
  BY <1>0, <1>a DEF LogInv
<1>8. AnsweredCallsAreLogged'
  BY <1>0, <1>a DEF AnsweredCallsAreLogged, Begun
<1>9. QED BY <1>1, <1>2, <1>3, <1>4, <1>5, <1>7, <1>8 DEF IInv

LEMMA ExchangeGoesOn ==
  ASSUME IInv, NEW x \in Exchanges, NEW w \in ExchangeState, exch' = [exch EXCEPT ![x] = w],
         UNCHANGED <<app, trusted, rules, entry, refused, log, listed>>,
         exch[x].step \in Begun, w.step \in Begun,
         w.batch = exch[x].batch, w.entry = exch[x].entry, w.lone = exch[x].lone, w.fresh = exch[x].fresh,
         Listing(x)' => Listing(x), FilterOf(x)', ExactOf(x)', FreshOf(x)', ListedOf(x)'
  PROVE  IInv'
<1>0. TypeInv /\ ListedInv
  BY Parts
<1>a. \A y \in Exchanges \ {x} : exch'[y] = exch[y]
  BY <1>0, ExchangeBecomes
<1>1. ListedInv'
  BY <1>0, <1>a DEF ListedInv, ListedOf, Listing
<1>2. refused' \in SUBSET Tools /\ listed' \in SUBSET Tools
  BY <1>0 DEF TypeInv
<1>3. QED BY <1>1, <1>2, FilterGoesOn

\* An exchange ends, with these entries of the log.
LEMMA ExchangeEnds ==
  ASSUME IInv, NEW x \in Exchanges, NEW how \in {"ended", "gone", "broken"},
         NEW replies \in Replies, NEW lines \in SUBSET ({x} \X Spoken \X {"refused", "error", "ok"}),
         exch[x].step \in Begun, exch' = [exch EXCEPT ![x] = Over(x, how, replies)],
         log' = log \union lines, UNCHANGED <<app, trusted, rules, refused, listed>>,
         entry' \in EntryState, entry'.tools = entry.tools, entry'.allowed = entry.allowed,
         entry'.state = "live" => entry.state = "live",
         how = "ended" /\ replies # {} => \A c \in Calls(exch[x].batch) : LoggedBy(x, c, lines, replies)
  PROVE  IInv'
<1>0. TypeInv /\ EntryInv /\ LoneInv /\ FilterInv /\ FreshInv /\ ListedInv /\ LogInv /\ AnsweredCallsAreLogged
  BY Parts
<1> DEFINE w == Over(x, how, replies)
<1>w. /\ w \in ExchangeState /\ w.entry = NoEntry /\ w.step \in {"none", how}
      /\ w.step = how => w.replies = replies /\ w.batch = exch[x].batch /\ replies # {}
  <2>1. replies = {} => w = NoExchange
    BY DEF Over
  <2>2. QED BY <1>0, <2>1, TypesOf, OverIs, Nothings
<1> HIDE DEF w
<1>a. /\ exch' \in [Exchanges -> ExchangeState] /\ exch'[x] = w
      /\ \A y \in Exchanges \ {x} : exch'[y] = exch[y]
  BY <1>0, <1>w, ExchangeBecomes DEF w
<1>b. \A y \in Exchanges : (Listing(y)' => y # x /\ Listing(y)) /\ w.step \notin Begun
  BY <1>a, <1>w DEF Listing, Begun
<1>1. TypeInv'
  <2>1. log' \subseteq Exchanges \X Spoken \X {"refused", "error", "ok"}
    BY <1>0 DEF TypeInv
  <2>2. QED BY <1>0, <1>a, <2>1 DEF TypeInv
<1>2. EntryInv'
  <2>1. Sound(NoEntry)' /\ Sound(entry)'
    BY <1>0, Nothings DEF EntryInv, Sound, Dangerous
  <2>2. \A y \in Exchanges : exch'[y].entry = IF y = x THEN NoEntry ELSE exch[y].entry
    BY <1>a, <1>w
  <2>4. \A y \in Exchanges : Sound(exch[y].entry)'
    BY <1>0, <2>1, <2>2 DEF EntryInv, Sound
  <2>3. QED BY <1>0, <1>a, <1>b, <2>1, <2>4 DEF EntryInv
<1>3. LoneInv'
  BY <1>0, <1>a, <1>b DEF LoneInv
<1>4. FilterInv'
  BY <1>0, <1>a, <1>b DEF FilterInv, FilterOf, ExactOf, Learnt, HeldBack, Begun
<1>5. FreshInv'
  BY <1>0, <1>a, <1>b DEF FreshInv, FreshOf
<1>6. ListedInv'
  BY <1>0, <1>a, <1>b DEF ListedInv, ListedOf
<1>7. LogInv'
  BY <1>0, <1>a, <1>b DEF LogInv
<1>8. AnsweredCallsAreLogged'
  <2> SUFFICES ASSUME NEW y \in Exchanges, exch'[y].step = "ended", NEW c \in Calls(exch'[y].batch)
               PROVE  LoggedBy(y, c, log', exch'[y].replies)
    BY DEF AnsweredCallsAreLogged, LoggedBy
  <2>1. CASE y # x
    <3>1. {l \in log' : l[1] = y /\ l[2] = c} = {l \in log : l[1] = y /\ l[2] = c}
      BY <2>1
    <3>2. LoggedBy(y, c, log, exch[y].replies) /\ exch'[y] = exch[y]
      BY <1>0, <1>a, <2>1, LoggedIs
    <3>3. QED BY <3>1, <3>2 DEF LoggedBy
  <2>2. CASE y = x
    <3>1. exch'[x].replies = replies /\ LoggedBy(x, c, lines, replies)
      BY <1>a, <1>w, <2>2
    <3>2. {l \in log' : l[1] = x /\ l[2] = c} = {l \in lines : l[1] = x /\ l[2] = c}
      BY <1>0 DEF LogInv
    <3>3. QED BY <2>2, <3>1, <3>2 DEF LoggedBy
  <2>3. QED BY <2>1, <2>2
<1>9. QED BY <1>1, <1>2, <1>3, <1>4, <1>5, <1>6, <1>7, <1>8 DEF IInv

-----------------------------------------------------------------------------
(* The registry and the app. *)

\* What the registry checks again is no less known to run commands.
LEMMA EntryChanges ==
  ASSUME IInv, UNCHANGED <<app, trusted, refused, exch, log, listed>>, rules' \in Settings,
         entry' \in EntryState, Sound(entry)',
         \A t \in Tools \ Invalid : Dangerous(app, t) /\ Dangerous(entry.tools, t) => Dangerous(entry.tools, t)'
  PROVE  IInv'
<1>0. TypeInv /\ EntryInv /\ LoneInv /\ FilterInv /\ FreshInv /\ ListedInv /\ LogInv /\ AnsweredCallsAreLogged
  BY Parts
<1>1. TypeInv' /\ (\A x \in Exchanges : exch[x].fresh \in SUBSET Tools)
  BY <1>0, TypesOf DEF TypeInv
<1>2. EntryInv'
  BY <1>0 DEF EntryInv, Sound
<1>3. LoneInv' /\ LogInv' /\ AnsweredCallsAreLogged'
  BY <1>0 DEF LoneInv, LogInv, AnsweredCallsAreLogged, Listing
<1>4. FilterInv'
  BY <1>0 DEF FilterInv, FilterOf, ExactOf, Learnt, HeldBack
<1>5. FreshInv'
  BY <1>0, <1>1 DEF FreshInv, FreshOf, Listing
<1>6. ListedInv'
  BY <1>0 DEF ListedInv, ListedOf, Listing, TypeInv
<1>7. QED BY <1>1, <1>2, <1>3, <1>4, <1>5, <1>6 DEF IInv

LEMMA CheckStep ==
  ASSUME IInv, Check PROVE IInv'
<1>0. TypeInv /\ EntryInv
  BY Parts
<1> DEFINE e == Checked(app, rules, trusted)
<1>1. e \in EntryState /\ Sound(e) /\ \A t \in Tools \ Invalid : e.tools[t] = app[t]
  BY <1>0, ChecksAreSound DEF TypeInv
<1> HIDE DEF e
<1>2. entry' = e /\ UNCHANGED <<app, trusted, rules, refused, exch, log, listed>>
  BY DEF Check, e
<1>3. rules' \in Settings /\ Sound(entry)'
  BY <1>0, <1>1, <1>2 DEF TypeInv, Sound
<1>4. QED BY <1>1, <1>2, <1>3, EntryChanges DEF Dangerous

LEMMA SetRulesStep ==
  ASSUME IInv, NEW setting \in Settings, SetRules(setting) PROVE IInv'
<1>0. TypeInv /\ EntryInv /\ entry \in EntryState /\ entry.tools \in [Tools -> Kinds]
  BY Parts DEF TypeInv, EntryState
<1> DEFINE e == Checked(entry.tools, setting, trusted)
<1>1. e \in EntryState /\ Sound(e) /\ \A t \in Tools \ Invalid : e.tools[t] = entry.tools[t]
  BY <1>0, ChecksAreSound DEF TypeInv
<1> HIDE DEF e
<1>2. /\ entry' = e \/ entry' = entry
      /\ UNCHANGED <<app, trusted, refused, exch, log, listed>> /\ rules' \in Settings
  BY DEF SetRules, e
<1>3. entry' \in EntryState /\ Sound(entry)'
  BY <1>0, <1>1, <1>2 DEF EntryInv, Sound
<1>4. QED BY <1>1, <1>2, <1>3, EntryChanges DEF Dangerous

LEMMA ChangeStep ==
  ASSUME IInv, NEW offer \in Offers, Change(offer) PROVE IInv'
<1>0. TypeInv /\ EntryInv /\ LoneInv /\ FilterInv /\ FreshInv /\ ListedInv /\ LogInv /\ AnsweredCallsAreLogged
  BY Parts
<1>1. /\ app' = offer /\ listed' = {t \in listed : offer[t] = app[t]}
      /\ exch' = [x \in Exchanges |-> [exch[x] EXCEPT !.fresh = {t \in @ : offer[t] = app[t]}]]
      /\ UNCHANGED <<trusted, rules, entry, refused, log>>
  BY DEF Change
<1>2. ASSUME NEW x \in Exchanges
      PROVE  /\ exch'[x] \in ExchangeState /\ exch'[x].fresh = {t \in exch[x].fresh : offer[t] = app[t]}
             /\ exch'[x].step = exch[x].step /\ exch'[x].batch = exch[x].batch /\ exch'[x].entry = exch[x].entry
             /\ exch'[x].answer = exch[x].answer /\ exch'[x].todo = exch[x].todo /\ exch'[x].tool = exch[x].tool
             /\ exch'[x].shown = exch[x].shown /\ exch'[x].replies = exch[x].replies
             /\ exch'[x].lone = exch[x].lone
  <2>1. exch[x] \in ExchangeState
    BY <1>0 DEF TypeInv
  <2>2. exch'[x] = [exch[x] EXCEPT !.fresh = {t \in @ : offer[t] = app[t]}]
    BY <1>1
  <2>3. QED BY <2>1, <2>2 DEF ExchangeState
<1>3. exch' \in [Exchanges -> ExchangeState] /\ app' \in [Tools -> Kinds]
  BY <1>1, <1>2, SurfaceAssumption DEF Kinds
<1>a. /\ app' = offer /\ listed' = {t \in listed : offer[t] = app[t]}
      /\ UNCHANGED <<trusted, rules, entry, refused, log>>
  BY <1>1
<1>4. TypeInv'
  BY <1>0, <1>a, <1>3 DEF TypeInv
<1>5. EntryInv'
  BY <1>0, <1>a, <1>2 DEF EntryInv, Sound
<1>6. \A x \in Exchanges : Listing(x)' = Listing(x)
  BY <1>2 DEF Listing
<1>7. LoneInv'
  BY <1>0, <1>2, <1>6 DEF LoneInv
<1>8. FilterInv'
  <2> SUFFICES ASSUME NEW x \in Exchanges PROVE FilterOf(x)' /\ ExactOf(x)'
    BY DEF FilterInv
  <2>1. Learnt(x)' = Learnt(x) /\ \A t : HeldBack(x, t)' = HeldBack(x, t)
    BY <1>2 DEF Learnt, HeldBack
  <2>2. QED BY <1>0, <1>a, <1>2, <2>1 DEF FilterInv, FilterOf, ExactOf
<1>9. FreshInv'
  BY <1>0, <1>a, <1>2, <1>6 DEF FreshInv, FreshOf, Dangerous
<1>10. ListedInv'
  BY <1>0, <1>a, <1>2, <1>6 DEF ListedInv, ListedOf, Dangerous
<1>11. LogInv'
  BY <1>0, <1>a, <1>2 DEF LogInv
<1>12. AnsweredCallsAreLogged'
  BY <1>0, <1>a, <1>2 DEF AnsweredCallsAreLogged
<1>13. QED BY <1>4, <1>5, <1>7, <1>8, <1>9, <1>10, <1>11, <1>12 DEF IInv

-----------------------------------------------------------------------------
(* The steps of an exchange. *)

LEMMA BeginStep ==
  ASSUME IInv, NEW x \in Exchanges, NEW b \in Batches, NEW mine \in BOOLEAN, Begin(x, b, mine)
  PROVE  IInv'
<1>0. TypeInv /\ EntryInv /\ LoneInv /\ FilterInv /\ FreshInv /\ ListedInv /\ LogInv /\ AnsweredCallsAreLogged
  BY Parts
<1> DEFINE lone == Lists(b) => ~\E z \in Exchanges : Listing(z)
           new == [NoExchange EXCEPT !.step = "gate", !.batch = b, !.entry = entry,
                                     !.fresh = IF Lists(b) THEN Tools ELSE {}, !.lone = lone]
           heard(y) == [exch[y] EXCEPT !.lone = FALSE]
<1>1. /\ new \in ExchangeState /\ new.step = "gate" /\ new.batch = b /\ new.entry = entry
      /\ new.tool = NoTool /\ new.shown = {} /\ new.replies = {} /\ new.lone = lone
  <2>1. entry \in EntryState
    BY <1>0 DEF TypeInv
  <2>2. QED BY <2>1, Nothings DEF ExchangeState
<1>2. \A y \in Exchanges : exch[y] \in ExchangeState =>
        /\ heard(y) \in ExchangeState /\ heard(y).lone = FALSE
        /\ heard(y).step = exch[y].step /\ heard(y).batch = exch[y].batch /\ heard(y).entry = exch[y].entry
        /\ heard(y).answer = exch[y].answer /\ heard(y).todo = exch[y].todo /\ heard(y).tool = exch[y].tool
        /\ heard(y).shown = exch[y].shown /\ heard(y).replies = exch[y].replies
        /\ heard(y).fresh = exch[y].fresh
  BY DEF ExchangeState
<1>3. /\ exch[x].step \in {"none", "ended", "gone", "broken"}
      /\ exch' = [y \in Exchanges |->
           CASE y = x /\ ~(mine /\ entry.state = "live") -> NoExchange
             [] y = x /\ mine /\ entry.state = "live" -> new
             [] y # x /\ Lists(b) /\ Listing(y) -> heard(y)
             [] OTHER -> exch[y]]
  BY DEF Begin
<1>4. log' = {l \in log : l[1] # x} /\ UNCHANGED <<app, trusted, rules, entry, refused, listed>>
  BY DEF Begin
<1> HIDE DEF new, heard
<1>5. (exch'[x] = new /\ entry.state = "live") \/ exch'[x] = NoExchange
  BY <1>3
<1>6. \A y \in Exchanges \ {x} : exch'[y] = IF Lists(b) /\ Listing(y) THEN heard(y) ELSE exch[y]
  BY <1>3
<1>7. \A y \in Exchanges \ {x} :
        /\ exch'[y].step = exch[y].step /\ exch'[y].batch = exch[y].batch /\ exch'[y].entry = exch[y].entry
        /\ exch'[y].answer = exch[y].answer /\ exch'[y].todo = exch[y].todo /\ exch'[y].tool = exch[y].tool
        /\ exch'[y].shown = exch[y].shown /\ exch'[y].replies = exch[y].replies
        /\ exch'[y].fresh = exch[y].fresh
        /\ exch'[y].lone => exch[y].lone /\ ~(Lists(b) /\ Listing(y))
  BY <1>0, <1>2, <1>6 DEF TypeInv
<1>8. \A y \in Exchanges \ {x} : Listing(y)' = Listing(y)
  BY <1>7 DEF Listing
<1>9. ~Listing(x) /\ (Listing(x)' => Lists(b) /\ exch'[x] = new)
  BY <1>1, <1>3, <1>5, Nothings DEF Listing
<1>10. TypeInv'
  <2>1. DOMAIN exch' = Exchanges /\ \A y \in Exchanges : exch'[y] \in ExchangeState
    BY <1>0, <1>1, <1>2, <1>3, <1>5, <1>6, Nothings DEF TypeInv
  <2>2. exch' \in [Exchanges -> ExchangeState]
    BY <1>3, <2>1
  <2>3. QED BY <1>0, <1>4, <2>2 DEF TypeInv
<1>11. EntryInv'
  <2>1. Sound(NoEntry)' /\ Sound(entry)'
    BY <1>0, <1>4, Nothings DEF EntryInv, Sound
  <2>2. Sound(exch[x].entry)' /\ (exch'[x].step \in Begun => exch'[x].entry.state = "live")
    BY <1>1, <1>4, <1>5, <2>1, Nothings DEF Sound, Begun
  <2>3. \A y \in Exchanges \ {x} : Sound(exch[y].entry)' /\ (exch'[y].step \in Begun => exch'[y].entry.state = "live")
    BY <1>0, <1>4, <1>7 DEF EntryInv, Sound
  <2>4. QED BY <2>1, <2>2, <2>3 DEF EntryInv
<1>12. LoneInv'
  BY <1>0, <1>1, <1>7, <1>8, <1>9 DEF LoneInv
<1>13. FilterInv'
  <2>1. FilterOf(x)' /\ ExactOf(x)'
    BY <1>1, <1>5, Nothings DEF FilterOf, ExactOf
  <2>2. ASSUME NEW y \in Exchanges \ {x} PROVE FilterOf(y)' /\ ExactOf(y)'
    <3>1. Learnt(y)' = Learnt(y) /\ \A t : HeldBack(y, t)' = HeldBack(y, t)
      BY <1>7 DEF Learnt, HeldBack
    <3>2. FilterOf(y) /\ ExactOf(y)
      BY <1>0 DEF FilterInv
    <3>3. QED BY <1>4, <1>7, <3>1, <3>2 DEF FilterOf, ExactOf
  <2>3. QED BY <2>1, <2>2 DEF FilterInv
<1>14. FreshInv'
  <2>1. FreshOf(x)'
    BY <1>1, <1>4, <1>9 DEF FreshOf
  <2>2. \A y \in Exchanges \ {x} : FreshOf(y)'
    BY <1>0, <1>4, <1>7, <1>8 DEF FreshInv, FreshOf
  <2>3. QED BY <2>1, <2>2 DEF FreshInv
<1>15. ListedInv'
  <2>1. ListedOf(x)'
    BY <1>1, <1>4, <1>9 DEF ListedOf
  <2>2. \A y \in Exchanges \ {x} : ListedOf(y)'
    BY <1>0, <1>4, <1>7, <1>8 DEF ListedInv, ListedOf
  <2>3. QED BY <1>0, <1>4, <2>1, <2>2 DEF ListedInv
<1>16. LogInv'
  <2>1. \A l \in log' : l[1] # x
    BY <1>4
  <2>2. \A y \in Exchanges \ {x} : exch'[y].step \in Begun => \A l \in log' : l[1] # y
    BY <1>0, <1>4, <1>7 DEF LogInv
  <2>3. QED BY <2>1, <2>2 DEF LogInv
<1>17. AnsweredCallsAreLogged'
  <2> SUFFICES ASSUME NEW y \in Exchanges, exch'[y].step = "ended", NEW c \in Calls(exch'[y].batch)
               PROVE  LoggedBy(y, c, log', exch'[y].replies)
    BY DEF AnsweredCallsAreLogged, LoggedBy
  <2>1. y # x
    BY <1>1, <1>5, Nothings
  <2>2. {l \in log' : l[1] = y /\ l[2] = c} = {l \in log : l[1] = y /\ l[2] = c}
    BY <1>4, <2>1
  <2>3. LoggedBy(y, c, log, exch'[y].replies)
    BY <1>0, <1>7, <2>1, LoggedIs
  <2>4. QED BY <2>2, <2>3 DEF LoggedBy
<1>18. QED BY <1>10, <1>11, <1>12, <1>13, <1>14, <1>15, <1>16, <1>17 DEF IInv

LEMMA GateStep ==
  ASSUME IInv, NEW x \in Exchanges, Gate(x) PROVE IInv'
<1>0. /\ TypeInv /\ EntryInv /\ FilterOf(x) /\ FreshOf(x) /\ ListedOf(x)
      /\ exch[x] \in ExchangeState /\ exch[x].step = "gate" /\ exch[x].step \in Begun
  BY Parts, TypesOf DEF FilterInv, FreshInv, ListedInv, Gate, Begun
<1>1. CASE Blocked(x)
  <2>1. BlockedCalls(x) \subseteq Spoken
    BY <1>0, TypesOf, CallsAreMessages DEF BlockedCalls
  <2>2. log' = log \/ \E first \in BlockedCalls(x) : log' = log \union {<<x, first, "refused">>}
    BY Zenon DEF Gate
  <2>3. PICK lines \in SUBSET ({x} \X Spoken \X {"refused", "error", "ok"}) : log' = log \union lines
    <3>1. CASE log' = log
      <4>1. {} \in SUBSET ({x} \X Spoken \X {"refused", "error", "ok"}) /\ log' = log \union {}
        BY <3>1
      <4>2. QED BY <4>1
    <3>2. ASSUME NEW first \in BlockedCalls(x), log' = log \union {<<x, first, "refused">>}
          PROVE  \E lines \in SUBSET ({x} \X Spoken \X {"refused", "error", "ok"}) : log' = log \union lines
      <4>1. {<<x, first, "refused">>} \in SUBSET ({x} \X Spoken \X {"refused", "error", "ok"})
        BY <2>1
      <4>2. QED BY <3>2, <4>1
    <3>3. QED BY <2>2, <3>1, <3>2
  <2>4. /\ exch' = [exch EXCEPT ![x] = Over(x, "ended", {})]
        /\ UNCHANGED <<app, trusted, rules, entry, refused, listed>>
    BY <1>1 DEF Gate, Over
  <2>5. entry' \in EntryState /\ {} \in Replies
    BY <1>0, <2>4 DEF TypeInv, Replies
  <2>6. QED BY <1>0, <2>3, <2>4, <2>5, ExchangeEnds
<1>2. CASE ~Blocked(x)
  <2> DEFINE w == [exch[x] EXCEPT !.step = "calling"]
  <2>1. /\ w \in ExchangeState /\ w.step = "calling" /\ w.batch = exch[x].batch /\ w.entry = exch[x].entry
        /\ w.answer = exch[x].answer /\ w.tool = exch[x].tool /\ w.shown = exch[x].shown
        /\ w.replies = exch[x].replies /\ w.lone = exch[x].lone /\ w.fresh = exch[x].fresh
    BY <1>0 DEF ExchangeState
  <2>2. /\ exch' = [exch EXCEPT ![x] = w] /\ log' = log
        /\ UNCHANGED <<app, trusted, rules, entry, refused, listed>>
    BY <1>2 DEF Gate, Blocked
  <2> HIDE DEF w
  <2>3. exch'[x] = w
    BY <1>0, <2>1, <2>2, ExchangeBecomes
  <2>4. (Listing(x)' => Listing(x)) /\ FilterOf(x)' /\ ExactOf(x)'
    BY <1>0, <2>1, <2>3 DEF Listing, FilterOf, ExactOf
  <2>5. FreshOf(x)' /\ ListedOf(x)'
    BY <1>0, <2>1, <2>2, <2>3, <2>4 DEF FreshOf, ListedOf
  <2>6. w.step \in Begun
    BY <2>1 DEF Begun
  <2>7. QED BY <1>0, <2>1, <2>2, <2>4, <2>5, <2>6, ExchangeGoesOn
<1>3. QED BY <1>1, <1>2

LEMMA ExecuteStep ==
  ASSUME IInv, NEW x \in Exchanges, Execute(x) PROVE IInv'
<1>0. /\ TypeInv /\ EntryInv /\ FilterOf(x) /\ FreshOf(x) /\ ListedOf(x)
      /\ exch[x] \in ExchangeState /\ exch[x].step = "calling" /\ exch[x].step \in Begun
      /\ exch[x].batch \subseteq Spoken /\ app \in [Tools -> Kinds]
      /\ exch[x].answer \in [Tools -> Kinds]
  BY Parts, TypesOf, CallsAreMessages DEF FilterInv, FreshInv, ListedInv, Execute, Begun, TypeInv
<1> DEFINE answer == IF Lists(exch[x].batch) THEN app ELSE exch[x].answer
           todo == IF Lists(exch[x].batch) THEN {t \in Tools : app[t] # "absent"} ELSE {}
           reply(failing, m) == IF m \in failing THEN "error" ELSE "ok"
           comes(failing, asked) == {<<m, reply(failing, m)>> : m \in Wanted(exch[x].batch, asked)}
           does(failing, asked) == [exch[x] EXCEPT !.step = "called", !.answer = answer, !.todo = todo,
                                                   !.replies = comes(failing, asked)]
<1>1. PICK failing \in SUBSET Calls(exch[x].batch), asked \in SUBSET Questions :
        exch' = [exch EXCEPT ![x] = does(failing, asked)]
  BY Zenon DEF Execute
<1> DEFINE replies == comes(failing, asked)
           w == [exch[x] EXCEPT !.step = "called", !.answer = answer, !.todo = todo, !.replies = replies]
<1>2. answer \in [Tools -> Kinds] /\ todo \in SUBSET Tools
  BY <1>0
<1>r. \A m : reply(failing, m) \in {"ok", "error", "none", "large"}
  OBVIOUS
<1>m. Wanted(exch[x].batch, asked) \subseteq Spoken
  BY <1>0, SurfaceAssumption DEF Wanted, Spoken
<1> HIDE DEF reply
<1>3. replies \in Replies
  BY <1>r, <1>m DEF Replies
<1>4. exch' = [exch EXCEPT ![x] = w] /\ UNCHANGED <<app, trusted, rules, entry, refused, log, listed>>
  <2>1. exch' = [exch EXCEPT ![x] = w]
    BY <1>1, Zenon
  <2>2. UNCHANGED <<app, trusted, rules, entry, refused, log, listed>>
    BY DEF Execute
  <2>3. QED BY <2>1, <2>2
<1> HIDE DEF answer, todo, replies, comes
<1>5. /\ w \in ExchangeState /\ w.step = "called" /\ w.batch = exch[x].batch /\ w.entry = exch[x].entry
      /\ w.answer = answer /\ w.tool = exch[x].tool /\ w.shown = exch[x].shown /\ w.todo = todo
      /\ w.replies = replies /\ w.lone = exch[x].lone /\ w.fresh = exch[x].fresh
  BY <1>0, <1>2, <1>3 DEF ExchangeState
<1> HIDE DEF w
<1>6. exch'[x] = w
  BY <1>0, <1>4, <1>5, ExchangeBecomes
<1>7. (Listing(x)' => Listing(x) /\ answer = app) /\ ExactOf(x)'
  BY <1>0, <1>5, <1>6 DEF Listing, ExactOf, answer
<1>8. FilterOf(x)'
  BY <1>0, <1>5, <1>6 DEF FilterOf, answer, todo
<1>9. FreshOf(x)' /\ ListedOf(x)'
  BY <1>0, <1>4, <1>5, <1>6, <1>7 DEF FreshOf, ListedOf
<1>10. w.step \in Begun
  BY <1>5 DEF Begun
<1>11. QED BY <1>0, <1>4, <1>5, <1>7, <1>8, <1>9, <1>10, ExchangeGoesOn

LEMMA HeadersStep ==
  ASSUME IInv, NEW x \in Exchanges, Headers(x) PROVE IInv'
<1>0. /\ TypeInv /\ EntryInv /\ FilterOf(x) /\ FreshOf(x) /\ ListedOf(x)
      /\ exch[x] \in ExchangeState /\ exch[x].step = "called" /\ exch[x].step \in Begun
      /\ exch[x].answer \in [Tools -> Kinds]
  BY Parts, TypesOf DEF FilterInv, FreshInv, ListedInv, Headers, Begun
<1> DEFINE step == IF Lists(exch[x].batch) THEN "filtering" ELSE "body"
           w == [exch[x] EXCEPT !.step = step]
<1>1. /\ w \in ExchangeState /\ w.step = step /\ w.batch = exch[x].batch /\ w.entry = exch[x].entry
      /\ w.answer = exch[x].answer /\ w.tool = exch[x].tool /\ w.shown = exch[x].shown /\ w.todo = exch[x].todo
      /\ w.replies = exch[x].replies /\ w.lone = exch[x].lone /\ w.fresh = exch[x].fresh
  BY <1>0 DEF ExchangeState
<1>2. exch' = [exch EXCEPT ![x] = w] /\ UNCHANGED <<app, trusted, rules, entry, refused, log, listed>>
  BY DEF Headers
<1> HIDE DEF w
<1>3. exch'[x] = w /\ w.step \in Begun
  BY <1>0, <1>1, <1>2, ExchangeBecomes DEF Begun
<1>4. (Listing(x)' => Listing(x)) /\ ExactOf(x)'
  BY <1>0, <1>1, <1>3 DEF Listing, ExactOf
<1>5. FilterOf(x)'
  <2>1. CASE Lists(exch[x].batch)
    <3>1. Learnt(x)' = {}
      BY <1>0, <1>1, <1>3, <2>1 DEF Learnt, FilterOf
    <3>2. exch'[x].step = "filtering" /\ exch'[x].shown = {} /\ exch'[x].tool = NoTool
      BY <1>0, <1>1, <1>3, <2>1 DEF FilterOf
    <3>3. /\ exch'[x].todo = {t \in Tools : exch'[x].answer[t] # "absent"} /\ Lists(exch'[x].batch)
          /\ exch'[x].tool \notin exch'[x].todo \union Invalid
      BY <1>0, <1>1, <1>3, <2>1, <3>2, SurfaceAssumption DEF FilterOf
    <3>4. QED BY <3>1, <3>2, <3>3 DEF FilterOf
  <2>2. CASE ~Lists(exch[x].batch)
    BY <1>0, <1>1, <1>3, <2>2 DEF FilterOf
  <2>3. QED BY <2>1, <2>2
<1>6. FreshOf(x)' /\ ListedOf(x)'
  BY <1>0, <1>1, <1>2, <1>3, <1>4 DEF FreshOf, ListedOf
<1>7. QED BY <1>0, <1>1, <1>2, <1>3, <1>4, <1>5, <1>6, ExchangeGoesOn

LEMMA FailStep ==
  ASSUME IInv, NEW x \in Exchanges, Fail(x) PROVE IInv'
<1>0. TypeInv /\ exch[x] \in ExchangeState /\ exch[x].step \in Begun
  BY Parts, TypesOf DEF Fail, Begun
<1> DEFINE calls == Calls(exch[x].batch)
           lines == {<<x, c, "error">> : c \in calls}
           replies == {<<c, "none">> : c \in calls}
<1>1. calls \subseteq Spoken
  BY <1>0, TypesOf, CallsAreMessages
<1>2. /\ exch' = [exch EXCEPT ![x] = Over(x, "ended", replies)] /\ log' = log \union lines
      /\ UNCHANGED <<app, trusted, rules, refused, listed>>
  BY DEF Fail
<1> HIDE DEF calls
<1>3. /\ lines \in SUBSET ({x} \X Spoken \X {"refused", "error", "ok"})
      /\ replies \in Replies
  BY <1>1 DEF Replies
<1>4. ASSUME NEW c \in calls PROVE LoggedBy(x, c, lines, replies)
  <2>1. {l \in lines : l[1] = x /\ l[2] = c} = {<<x, c, "error">>}
    OBVIOUS
  <2> DEFINE r == <<c, "none">>
  <2>2. r \in replies /\ r[1] = c /\ r[2] = "none"
    OBVIOUS
  <2> HIDE DEF r, lines, replies
  <2>3. QED BY <2>1, <2>2 DEF LoggedBy
<1> HIDE DEF lines, replies
<1>5. /\ entry' \in EntryState /\ entry'.tools = entry.tools /\ entry'.allowed = entry.allowed
      /\ entry'.state = "live" => entry.state = "live"
  BY <1>0 DEF Fail, TypeInv, EntryState
<1>6. QED BY <1>0, <1>2, <1>3, <1>4, <1>5, ExchangeEnds DEF calls

LEMMA BreakStep ==
  ASSUME IInv, NEW x \in Exchanges, Break(x) PROVE IInv'
<1>0. TypeInv /\ exch[x].step \in Begun /\ exch[x].replies \in Replies
  BY Parts, TypesOf DEF Break, Begun
<1>1. /\ exch' = [exch EXCEPT ![x] = Over(x, "broken", exch[x].replies)] /\ log' = log \union {}
      /\ UNCHANGED <<app, trusted, rules, refused, listed>>
  BY DEF Break
<1>2. /\ entry' \in EntryState /\ entry'.tools = entry.tools /\ entry'.allowed = entry.allowed
      /\ entry'.state = "live" => entry.state = "live"
  BY <1>0 DEF Break, TypeInv, EntryState
<1>3. {} \in SUBSET ({x} \X Spoken \X {"refused", "error", "ok"})
  OBVIOUS
<1>4. QED BY <1>0, <1>1, <1>2, <1>3, ExchangeEnds

LEMMA RecordStep ==
  ASSUME IInv, NEW x \in Exchanges, Record(x) PROVE IInv'
<1>0. /\ TypeInv /\ exch[x].step \in Begun /\ entry \in EntryState /\ exch[x].replies \in Replies
      /\ Calls(exch[x].batch) \subseteq Spoken
  BY Parts, TypesOf, CallsAreMessages DEF Record, Begun, TypeInv
<1> DEFINE calls == Calls(exch[x].batch)
<1>1. /\ exch' = [exch EXCEPT ![x] = Over(x, "ended", exch[x].replies)]
      /\ UNCHANGED <<app, trusted, rules, entry, refused, listed>>
  BY DEF Record
<1>2. PICK found \in [Ids -> {"ok", "error"}] :
        /\ \A c \in calls : found[c.id] \in Outcomes(x, c)
        /\ log' = log \union {<<x, c, found[c.id]>> : c \in calls}
  BY DEF Record
<1> DEFINE lines == {<<x, c, found[c.id]>> : c \in calls}
<1>3. \A c \in calls : \E r \in exch[x].replies : r[1].id = c.id /\ found[c.id] = OutcomeOf(r[2])
  BY <1>2 DEF Outcomes
<1>4. \A reply : OutcomeOf(reply) = IF reply \in {"ok", "large"} THEN "ok" ELSE "error"
  BY DEF OutcomeOf
<1> HIDE DEF calls
<1>5. lines \in SUBSET ({x} \X Spoken \X {"refused", "error", "ok"})
  BY <1>0, <1>3, <1>4 DEF calls
<1>6. ASSUME NEW c \in calls PROVE LoggedBy(x, c, lines, exch[x].replies)
  <2>1. {l \in lines : l[1] = x /\ l[2] = c} = {<<x, c, found[c.id]>>}
    OBVIOUS
  <2> HIDE DEF lines
  <2>2. PICK r \in exch[x].replies : r[1].id = c.id /\ found[c.id] = OutcomeOf(r[2])
    BY <1>3
  <2>3. QED BY <1>4, <2>1, <2>2 DEF LoggedBy
<1>7. log' = log \union lines
  BY <1>2
<1> HIDE DEF lines
<1>8. QED BY <1>0, <1>1, <1>5, <1>6, <1>7, ExchangeEnds DEF calls

\* The copy of a body ends before the app's answer does.
LEMMA CopyEnds ==
  ASSUME IInv, NEW x \in Exchanges, exch[x].step = "body", NEW replies \in Replies,
         exch' = [exch EXCEPT ![x] = [exch[x] EXCEPT !.step = "copied", !.replies = replies]],
         UNCHANGED <<app, trusted, rules, entry, refused, log, listed>>
  PROVE  IInv'
<1>0. /\ TypeInv /\ EntryInv /\ FilterOf(x) /\ ExactOf(x) /\ FreshOf(x) /\ ListedOf(x)
      /\ exch[x] \in ExchangeState /\ exch[x].step \in Begun
  BY Parts, TypesOf DEF FilterInv, FreshInv, ListedInv, Begun
<1> DEFINE w == [exch[x] EXCEPT !.step = "copied", !.replies = replies]
<1>2. /\ w \in ExchangeState /\ w.step = "copied" /\ w.batch = exch[x].batch /\ w.entry = exch[x].entry
      /\ w.answer = exch[x].answer /\ w.tool = exch[x].tool /\ w.shown = exch[x].shown /\ w.todo = exch[x].todo
      /\ w.replies = replies /\ w.lone = exch[x].lone /\ w.fresh = exch[x].fresh
  BY <1>0 DEF ExchangeState
<1>3. exch' = [exch EXCEPT ![x] = w]
  OBVIOUS
<1> HIDE DEF w
<1>4. exch'[x] = w /\ w.step \in Begun
  BY <1>0, <1>2, <1>3, ExchangeBecomes DEF Begun
<1>5. ~Listing(x)' /\ FilterOf(x)'
  BY <1>2, <1>4 DEF Listing, FilterOf
<1>6. ExactOf(x)'
  BY <1>0, <1>2, <1>4 DEF ExactOf, HeldBack
<1>7. FreshOf(x)' /\ ListedOf(x)'
  BY <1>5 DEF FreshOf, ListedOf
<1>8. QED BY <1>0, <1>2, <1>3, <1>4, <1>5, <1>6, <1>7, ExchangeGoesOn

LEMMA CutStep ==
  ASSUME IInv, NEW x \in Exchanges, NEW lost, Cut(x, lost) PROVE IInv'
<1> DEFINE became(how, r) == IF r[1] \in lost THEN how ELSE r[2]
           left(how) == {<<r[1], became(how, r)>> : r \in exch[x].replies}
<1>1. PICK how \in {"none", "large"} :
        exch' = [exch EXCEPT ![x] = [exch[x] EXCEPT !.step = "copied", !.replies = left(how)]]
  BY Zenon DEF Cut
<1>2. exch[x].step = "body" /\ UNCHANGED <<app, trusted, rules, entry, refused, log, listed>>
  BY DEF Cut
<1>3. exch[x].replies \in SUBSET (Spoken \X {"ok", "error", "none", "large"})
  BY Parts, TypesOf DEF Replies
<1>4. \A r \in exch[x].replies : r[1] \in Spoken /\ became(how, r) \in {"ok", "error", "none", "large"}
  BY <1>3
<1> HIDE DEF became
<1>5. left(how) \in Replies
  BY <1>4 DEF Replies
<1> HIDE DEF left
<1>6. QED BY <1>1, <1>2, <1>5, CopyEnds

LEMMA LeaveStep ==
  ASSUME IInv, NEW x \in Exchanges, Leave(x) PROVE IInv'
<1>1. CASE exch[x].step = "body"
  <2> DEFINE replies == {<<r[1], "none">> : r \in exch[x].replies}
  <2>0. exch' = [exch EXCEPT ![x] =
           IF exch[x].step = "body" THEN [exch[x] EXCEPT !.step = "copied", !.replies = replies]
           ELSE Over(x, "gone", exch[x].replies)]
    BY Zenon DEF Leave
  <2>1. /\ exch' = [exch EXCEPT ![x] = [exch[x] EXCEPT !.step = "copied", !.replies = replies]]
        /\ UNCHANGED <<app, trusted, rules, entry, refused, log, listed>>
    BY <1>1, <2>0 DEF Leave
  <2>2. \A r \in exch[x].replies : r[1] \in Spoken
    BY Parts, TypesOf DEF Replies
  <2>3. replies \in Replies
    BY <2>2 DEF Replies
  <2> HIDE DEF replies
  <2>4. QED BY <1>1, <2>1, <2>3, CopyEnds
<1>2. CASE exch[x].step # "body"
  <2>1. TypeInv /\ exch[x].step \in Begun /\ entry \in EntryState /\ exch[x].replies \in Replies
    BY Parts, TypesOf DEF Leave, Begun, TypeInv
  <2>2. /\ exch' = [exch EXCEPT ![x] = Over(x, "gone", exch[x].replies)] /\ log' = log \union {}
        /\ UNCHANGED <<app, trusted, rules, entry, refused, listed>>
    BY <1>2 DEF Leave
  <2>3. {} \in SUBSET ({x} \X Spoken \X {"refused", "error", "ok"})
    OBVIOUS
  <2>4. QED BY <2>1, <2>2, <2>3, ExchangeEnds
<1>3. QED BY <1>1, <1>2

-----------------------------------------------------------------------------
(* The steps of a filter. *)

LEMMA LearnStep ==
  ASSUME IInv, NEW x \in Exchanges, NEW t \in Tools, Learn(x, t) PROVE IInv'
<1>0. /\ TypeInv /\ Sound(exch[x].entry) /\ FilterOf(x) /\ FreshOf(x) /\ ListedInv /\ ListedOf(x)
      /\ exch[x] \in ExchangeState /\ exch[x].step = "filtering" /\ exch[x].step \in Begun
      /\ exch[x].tool = NoTool /\ t \in exch[x].todo /\ exch[x].todo \in SUBSET Tools
      /\ Lists(exch[x].batch) /\ Listing(x) /\ refused \in SUBSET Tools /\ listed \in SUBSET Tools
  BY Parts, TypesOf DEF EntryInv, FilterInv, FreshInv, ListedInv, Learn, Begun, FilterOf, Listing, TypeInv
<1> DEFINE tool == IF t \in Invalid THEN NoTool ELSE t
           w == [exch[x] EXCEPT !.todo = exch[x].todo \ {t}, !.tool = tool]
<1>1. /\ w \in ExchangeState /\ w.step = "filtering" /\ w.batch = exch[x].batch /\ w.entry = exch[x].entry
      /\ w.answer = exch[x].answer /\ w.tool = tool /\ w.shown = exch[x].shown /\ w.todo = exch[x].todo \ {t}
      /\ w.replies = exch[x].replies /\ w.lone = exch[x].lone /\ w.fresh = exch[x].fresh
  BY <1>0 DEF ExchangeState, Callable
<1>2. exch' = [exch EXCEPT ![x] = w] /\ UNCHANGED <<app, trusted, rules, entry, log, listed>>
  <2>1. exch' = [exch EXCEPT ![x] = w]
    BY Zenon DEF Learn
  <2>2. QED BY <2>1 DEF Learn
<1>3. refused' = IF t \in Invalid THEN refused ELSE IF HeldBack(x, t) THEN refused \union {t} ELSE refused \ {t}
  BY DEF Learn, Learned, HeldBack
<1> HIDE DEF w
<1>4. exch'[x] = w /\ w.step \in Begun
  BY <1>0, <1>1, <1>2, ExchangeBecomes DEF Begun
<1>5. Listing(x)' /\ ExactOf(x)'
  BY <1>0, <1>1, <1>4 DEF Listing, ExactOf
<1>6. FreshOf(x)'
  BY <1>0, <1>1, <1>2, <1>4 DEF FreshOf
<1>7. FilterOf(x)'
  <2>1. /\ exch'[x].todo \subseteq {u \in Tools : exch'[x].answer[u] # "absent"} /\ Lists(exch'[x].batch)
        /\ exch'[x].tool \notin exch'[x].todo \union Invalid
        /\ exch'[x].tool # NoTool => exch'[x].answer[exch'[x].tool] # "absent"
    BY <1>0, <1>1, <1>4, SurfaceAssumption DEF FilterOf
  <2>2. Learnt(x)' = Learnt(x) \union {t}
    BY <1>0, <1>1, <1>4 DEF Learnt, FilterOf
  <2>3. \A u : HeldBack(x, u)' <=> HeldBack(x, u)
    BY <1>1, <1>4 DEF HeldBack
  <2>4. ASSUME exch[x].lone
        PROVE  \A u \in Learnt(x)' \ Invalid : u \in refused' <=> HeldBack(x, u)'
    BY <1>0, <1>3, <2>2, <2>3, <2>4 DEF FilterOf
  <2>5. exch[x].entry.allowed \intersect Invalid = {} /\ NoTool \notin Tools /\ t \notin Learnt(x)
    BY <1>0, SurfaceAssumption DEF Sound, Learnt
  <2>6. ASSUME exch[x].lone
        PROVE  exch'[x].shown = {u \in (Learnt(x)' \intersect exch'[x].entry.allowed) \ {exch'[x].tool} : ~HeldBack(x, u)'}
    <3>1. /\ exch[x].shown = {u \in (Learnt(x) \intersect exch[x].entry.allowed) \ {NoTool} : ~HeldBack(x, u)}
          /\ Learnt(x) \subseteq Tools
      BY <1>0, <2>6 DEF FilterOf, Learnt
    <3>2. exch[x].shown = {u \in ((Learnt(x) \union {t}) \intersect exch[x].entry.allowed) \ {tool} : ~HeldBack(x, u)}
      BY <2>5, <3>1
    <3>3. QED BY <1>1, <1>4, <2>2, <2>3, <3>2
  <2>7. exch'[x].step = "filtering" /\ exch'[x].lone = exch[x].lone
    BY <1>1, <1>4
  <2>8. QED BY <2>1, <2>4, <2>6, <2>7 DEF FilterOf
<1>8. ListedInv'
  <2>1. ASSUME NEW u \in listed \ Invalid, Dangerous(app, u)
        PROVE  Dangerous(entry.tools, u) \/ u \in refused'
    <3>1. Dangerous(entry.tools, u) \/ u \in refused
      BY <1>0, <2>1 DEF ListedInv
    <3>2. HeldBack(x, u) \/ Dangerous(entry.tools, u)
      BY <1>0, <2>1 DEF ListedOf, HeldBack
    <3>3. QED BY <1>3, <3>1, <3>2
  <2>2. ASSUME NEW y \in Exchanges PROVE ListedOf(y)'
    <3>1. ListedOf(y)
      BY <1>0 DEF ListedInv
    <3>2. CASE y = x
      BY <1>0, <1>1, <1>2, <1>4, <3>2 DEF ListedOf
    <3>3. CASE y # x
      <4>1. exch'[y] = exch[y]
        BY <1>0, <1>1, <1>2, <3>3, ExchangeBecomes
      <4>2. QED BY <1>2, <3>1, <4>1 DEF ListedOf, Listing
    <3>4. QED BY <3>2, <3>3
  <2>3. QED BY <1>2, <2>1, <2>2 DEF ListedInv
<1>9. refused' \in SUBSET Tools /\ listed' \in SUBSET Tools
  BY <1>0, <1>2, <1>3
<1>10. QED BY <1>0, <1>1, <1>2, <1>4, <1>5, <1>6, <1>7, <1>8, <1>9, FilterGoesOn

LEMMA ShowStep ==
  ASSUME IInv, NEW x \in Exchanges, Show(x) PROVE IInv'
<1>0. /\ TypeInv /\ FilterOf(x) /\ FreshOf(x) /\ ListedOf(x)
      /\ exch[x] \in ExchangeState /\ exch[x].step = "filtering" /\ exch[x].step \in Begun
      /\ exch[x].tool # NoTool /\ exch[x].tool \in Tools /\ exch[x].entry.allowed \in SUBSET Tools
      /\ Lists(exch[x].batch)
  BY Parts, TypesOf DEF FilterInv, FreshInv, ListedInv, Show, Begun, FilterOf, Callable, EntryState
<1> DEFINE shown == exch[x].shown \union ({exch[x].tool} \intersect (exch[x].entry.allowed \ refused))
           w == [exch[x] EXCEPT !.shown = shown, !.tool = NoTool]
<1>1. shown \in SUBSET Tools
  BY <1>0, TypesOf
<1>2. exch' = [exch EXCEPT ![x] = w] /\ UNCHANGED <<app, trusted, rules, entry, refused, log, listed>>
  <2>1. exch' = [exch EXCEPT ![x] = w]
    BY Zenon DEF Show
  <2>2. QED BY <2>1 DEF Show
<1> HIDE DEF shown
<1>3. /\ w \in ExchangeState /\ w.step = "filtering" /\ w.batch = exch[x].batch /\ w.entry = exch[x].entry
      /\ w.answer = exch[x].answer /\ w.tool = NoTool /\ w.shown = shown /\ w.todo = exch[x].todo
      /\ w.replies = exch[x].replies /\ w.lone = exch[x].lone /\ w.fresh = exch[x].fresh
  BY <1>0, <1>1 DEF ExchangeState, Callable
<1> HIDE DEF w
<1>4. exch'[x] = w /\ w.step \in Begun
  BY <1>0, <1>2, <1>3, ExchangeBecomes DEF Begun
<1>5. (Listing(x)' => Listing(x)) /\ ExactOf(x)'
  BY <1>0, <1>3, <1>4 DEF Listing, ExactOf
<1>6. FilterOf(x)'
  <2>1. /\ exch'[x].todo \subseteq {u \in Tools : exch'[x].answer[u] # "absent"} /\ Lists(exch'[x].batch)
        /\ exch'[x].tool \notin exch'[x].todo \union Invalid /\ exch'[x].tool = NoTool
    BY <1>0, <1>3, <1>4, TypesOf, SurfaceAssumption DEF FilterOf
  <2>2. Learnt(x)' = Learnt(x) /\ exch[x].tool \in Learnt(x) \ Invalid
    BY <1>0, <1>3, <1>4 DEF Learnt, FilterOf
  <2>3. \A u : HeldBack(x, u)' <=> HeldBack(x, u)
    BY <1>3, <1>4 DEF HeldBack
  <2>4. ASSUME exch[x].lone
        PROVE  /\ \A u \in Learnt(x)' \ Invalid : u \in refused' <=> HeldBack(x, u)'
               /\ exch'[x].shown = {u \in (Learnt(x)' \intersect exch'[x].entry.allowed) \ {exch'[x].tool} : ~HeldBack(x, u)'}
    <3>1. /\ \A u \in Learnt(x) \ Invalid : u \in refused <=> HeldBack(x, u)
          /\ exch[x].shown = {u \in (Learnt(x) \intersect exch[x].entry.allowed) \ {exch[x].tool} : ~HeldBack(x, u)}
      BY <1>0, <2>4 DEF FilterOf
    <3>2. exch[x].tool \in refused <=> HeldBack(x, exch[x].tool)
      BY <2>2, <3>1
    <3>3. shown = {u \in (Learnt(x) \intersect exch[x].entry.allowed) \ {NoTool} : ~HeldBack(x, u)}
      BY <1>0, <2>2, <3>1, <3>2, SurfaceAssumption DEF shown
    <3>4. QED BY <1>2, <1>3, <1>4, <2>2, <2>3, <3>1, <3>3
  <2>5. exch'[x].step = "filtering" /\ exch'[x].lone = exch[x].lone
    BY <1>3, <1>4
  <2>6. QED BY <2>1, <2>4, <2>5 DEF FilterOf
<1>7. FreshOf(x)' /\ ListedOf(x)'
  BY <1>0, <1>2, <1>3, <1>4, <1>5 DEF FreshOf, ListedOf
<1>8. QED BY <1>0, <1>2, <1>3, <1>4, <1>5, <1>6, <1>7, ExchangeGoesOn

LEMMA FilteredStep ==
  ASSUME IInv, NEW x \in Exchanges, Filtered(x) PROVE IInv'
<1>0. /\ TypeInv /\ LoneInv /\ Sound(exch[x].entry) /\ FilterOf(x) /\ FreshOf(x) /\ ListedInv
      /\ exch[x] \in ExchangeState /\ exch[x].step = "filtering" /\ exch[x].step \in Begun
      /\ exch[x].tool = NoTool /\ exch[x].todo = {} /\ Lists(exch[x].batch) /\ Listing(x)
      /\ refused \in SUBSET Tools /\ listed \in SUBSET Tools /\ exch[x].fresh \in SUBSET Tools
      /\ exch[x].entry.allowed \in SUBSET Tools
  BY Parts, TypesOf DEF EntryInv, FilterInv, FreshInv, LogInv, Filtered, Begun, FilterOf, Listing, TypeInv, EntryState
<1> DEFINE w == [exch[x] EXCEPT !.step = "body"]
           news == {t \in exch[x].fresh : Dangerous(exch[x].answer, t)}
<1>1. /\ w \in ExchangeState /\ w.step = "body" /\ w.batch = exch[x].batch /\ w.entry = exch[x].entry
      /\ w.answer = exch[x].answer /\ w.tool = exch[x].tool /\ w.shown = exch[x].shown /\ w.todo = exch[x].todo
      /\ w.replies = exch[x].replies /\ w.lone = exch[x].lone /\ w.fresh = exch[x].fresh
  BY <1>0 DEF ExchangeState
<1>2. /\ exch' = [exch EXCEPT ![x] = w] /\ UNCHANGED <<app, trusted, rules, entry, refused, log>>
      /\ listed' = IF exch[x].lone THEN listed \union news ELSE listed
  BY DEF Filtered
<1> HIDE DEF w
<1>3. /\ exch'[x] = w /\ w.step \in Begun
      /\ \A y \in Exchanges \ {x} : exch'[y] = exch[y]
  BY <1>0, <1>1, <1>2, ExchangeBecomes DEF Begun
<1>4. ~Listing(x)' /\ FilterOf(x)' /\ FreshOf(x)' /\ ListedOf(x)'
  BY <1>1, <1>3 DEF Listing, FilterOf, FreshOf, ListedOf
<1>5. Learnt(x) = {t \in Tools : exch[x].answer[t] # "absent"}
  BY <1>0 DEF Learnt
<1>6. ExactOf(x)'
  <2>1. \A u : HeldBack(x, u)' <=> HeldBack(x, u)
    BY <1>1, <1>3 DEF HeldBack
  <2>2. ASSUME exch[x].lone
        PROVE  exch[x].shown = {t \in exch[x].entry.allowed : exch[x].answer[t] # "absent" /\ ~HeldBack(x, t)}
    BY <1>0, <1>5, <2>2, SurfaceAssumption DEF FilterOf
  <2>3. QED BY <1>1, <1>3, <2>1, <2>2 DEF ExactOf
<1>7. ListedInv'
  <2>1. ASSUME exch[x].lone, NEW t \in news \ Invalid, Dangerous(app, t)
        PROVE  Dangerous(entry.tools, t) \/ t \in refused
    <3>1. t \in Learnt(x) \ Invalid
      BY <1>0, <1>5, <2>1 DEF Dangerous
    <3>2. t \in refused <=> HeldBack(x, t)
      BY <1>0, <2>1, <3>1 DEF FilterOf
    <3>3. Dangerous(exch[x].entry.tools, t) => Dangerous(entry.tools, t)
      BY <1>0, <2>1 DEF FreshOf
    <3>4. QED BY <2>1, <3>2, <3>3 DEF HeldBack
  <2>2. \A t \in listed' \ Invalid : Dangerous(app, t) => Dangerous(entry.tools, t) \/ t \in refused
    BY <1>0, <1>2, <2>1 DEF ListedInv
  <2>3. ASSUME NEW y \in Exchanges PROVE ListedOf(y)'
    <3>1. CASE y = x
      BY <1>4, <3>1
    <3>2. CASE y # x /\ Listing(y)
      <4>1. ListedOf(y) /\ exch'[y] = exch[y] /\ ~exch[x].lone
        BY <1>0, <1>3, <3>2 DEF LoneInv, ListedInv
      <4>2. QED BY <1>2, <4>1 DEF ListedOf, Listing
    <3>3. CASE y # x /\ ~Listing(y)
      BY <1>3, <3>3 DEF ListedOf, Listing
    <3>4. QED BY <3>1, <3>2, <3>3
  <2>4. QED BY <1>2, <2>2, <2>3 DEF ListedInv
<1>8. refused' \in SUBSET Tools /\ listed' \in SUBSET Tools
  BY <1>0, <1>2
<1>9. QED BY <1>0, <1>1, <1>2, <1>3, <1>4, <1>6, <1>7, <1>8, FilterGoesOn

-----------------------------------------------------------------------------
(* The theorems. *)

LEMMA InitInv ==
  ASSUME Init PROVE IInv
<1> DEFINE e == Checked(app, rules, trusted)
<1>1. app \in [Tools -> Kinds]
  BY SurfaceAssumption DEF Init, Kinds
<1>2. e \in EntryState /\ Sound(e)
  BY <1>1, ChecksAreSound DEF Init
<1>3. entry = e
  BY DEF Init
<1> HIDE DEF e
<1>4. /\ refused = {} /\ log = {} /\ listed = {} /\ exch = [x \in Exchanges |-> NoExchange]
      /\ trusted \in BOOLEAN /\ rules \in Settings
  BY DEF Init
<1>5. \A x \in Exchanges : exch[x] = NoExchange /\ ~Listing(x)
  BY <1>4, Nothings DEF Listing
<1>6. TypeInv
  BY <1>1, <1>2, <1>3, <1>4, Nothings DEF TypeInv
<1>7. EntryInv
  <2>1. Sound(NoEntry)
    BY Nothings DEF Sound
  <2>2. QED BY <1>2, <1>3, <1>5, <2>1, Nothings DEF EntryInv, Begun
<1>8. LoneInv /\ FreshInv /\ ListedInv
  BY <1>4, <1>5 DEF LoneInv, FreshInv, FreshOf, ListedInv, ListedOf
<1>9. FilterInv /\ LogInv /\ AnsweredCallsAreLogged
  BY <1>4, <1>5, Nothings DEF FilterInv, FilterOf, ExactOf, LogInv, AnsweredCallsAreLogged
<1>10. QED BY <1>6, <1>7, <1>8, <1>9 DEF IInv

LEMMA NextInv ==
  ASSUME IInv, [Next]_vars PROVE IInv'
<1>1. CASE UNCHANGED vars
  <2>1. UNCHANGED <<app, trusted, refused, exch, log, listed>> /\ rules' = rules /\ entry' = entry
    BY <1>1 DEF vars
  <2>2. /\ rules' \in Settings /\ entry' \in EntryState /\ Sound(entry)'
        /\ \A t \in Tools \ Invalid :
              Dangerous(app, t) /\ Dangerous(entry.tools, t) => Dangerous(entry.tools, t)'
    BY <2>1, Parts DEF TypeInv, EntryInv, Sound
  <2>3. QED BY <2>1, <2>2, EntryChanges
<1>2. ASSUME NEW offer \in Offers, Change(offer) PROVE IInv'
  BY <1>2, ChangeStep
<1>3. CASE Check
  BY <1>3, CheckStep
<1>4. ASSUME NEW setting \in Settings, SetRules(setting) PROVE IInv'
  BY <1>4, SetRulesStep
<1>5. ASSUME NEW x \in Exchanges, NEW b \in Batches, NEW mine \in BOOLEAN, Begin(x, b, mine) PROVE IInv'
  BY <1>5, BeginStep
<1>6. ASSUME NEW x \in Exchanges,
             \/ Gate(x) \/ Execute(x) \/ Headers(x) \/ Fail(x)
             \/ Show(x) \/ Filtered(x) \/ Break(x) \/ Record(x) \/ Leave(x)
      PROVE  IInv'
  BY <1>6, GateStep, ExecuteStep, HeadersStep, FailStep, ShowStep, FilteredStep, BreakStep, RecordStep, LeaveStep
<1>7. ASSUME NEW x \in Exchanges, NEW t \in Tools, Learn(x, t) PROVE IInv'
  BY <1>7, LearnStep
<1>8. ASSUME NEW x \in Exchanges, NEW lost, Cut(x, lost) PROVE IInv'
  BY <1>8, CutStep
<1>9. QED BY <1>1, <1>2, <1>3, <1>4, <1>5, <1>6, <1>7, <1>8 DEF Next

\* The inductive invariant holds in every reachable state.
THEOREM Invariance == Spec => []IInv
<1>1. Init => IInv
  BY InitInv
<1>2. IInv /\ [Next]_vars => IInv'
  BY NextInv
<1>3. QED BY <1>1, <1>2, PTL DEF Spec

\* A list that nothing overlapped shows what its entry allows and its answer has, but
\* for what newly runs commands (surfaces.rs, the filter of tools/list).
THEOREM ListsAreExact == Spec => []LoneListsAreExact
<1>1. IInv => LoneListsAreExact
  BY Parts DEF FilterInv, ExactOf, HeldBack, LoneListsAreExact
<1>2. QED BY <1>1, Invariance, PTL

\* Every call that the app was asked to make is logged once when the exchange is over,
\* by what came with its id (record_calls).
THEOREM CallsAreLogged == Spec => []AnsweredCallsAreLogged
<1>1. IInv => AnsweredCallsAreLogged
  BY Parts
<1>2. QED BY <1>1, Invariance, PTL

\* A request gets past the gate only by what Gate asks.
LEMMA OnlyByTheGate ==
  ASSUME IInv, Next, NEW x \in Exchanges, exch[x].step = "gate", exch'[x].step = "calling"
  PROVE  ~Blocked(x)
<1>0. TypeInv /\ exch[x] \in ExchangeState
  BY Parts, TypesOf
<1>1. ASSUME NEW offer \in Offers, Change(offer) PROVE FALSE
  <2>1. exch'[x] = [exch[x] EXCEPT !.fresh = {t \in @ : offer[t] = app[t]}]
    BY <1>1 DEF Change
  <2>2. QED BY <1>0, <2>1 DEF ExchangeState
<1>2. CASE Check \/ \E setting \in Settings : SetRules(setting)
  BY <1>2 DEF Check, SetRules
<1>3. ASSUME NEW y \in Exchanges, NEW b \in Batches, NEW mine \in BOOLEAN, Begin(y, b, mine) PROVE FALSE
  <2>1. exch'[x] = exch[x] \/ exch'[x] = [exch[x] EXCEPT !.lone = FALSE]
    BY <1>3 DEF Begin
  <2>2. QED BY <1>0, <2>1 DEF ExchangeState
<1>4. ASSUME NEW y \in Exchanges, NEW t \in Tools, Learn(y, t) PROVE FALSE
  <2>1. exch[y].step = "filtering" /\ \E w : exch' = [exch EXCEPT ![y] = w]
    BY <1>4 DEF Learn
  <2>2. QED BY <1>0, <2>1 DEF TypeInv
<1>5. ASSUME NEW y \in Exchanges, NEW lost, Cut(y, lost) PROVE FALSE
  <2>1. exch[y].step = "body" /\ \E w : exch' = [exch EXCEPT ![y] = w]
    BY <1>5 DEF Cut
  <2>2. QED BY <1>0, <2>1 DEF TypeInv
<1>6. exch \in [Exchanges -> ExchangeState] /\ exch[x].replies \in Replies
  BY <1>0, TypesOf DEF TypeInv
<1>7. CASE Gate(x)
  BY <1>6, <1>7, Nothings DEF Gate
<1>8. CASE Leave(x)
  <2>1. exch' = [exch EXCEPT ![x] = Over(x, "gone", exch[x].replies)]
    BY <1>8 DEF Leave
  <2>2. QED BY <1>0, <1>6, <2>1, OverIs
<1>9. ASSUME NEW y \in Exchanges,
             \/ \E b \in Batches, mine \in BOOLEAN : Begin(y, b, mine)
             \/ Gate(y) \/ Execute(y) \/ Headers(y) \/ Fail(y)
             \/ \E t \in Tools : Learn(y, t)
             \/ Show(y) \/ Filtered(y) \/ Break(y)
             \/ \E lost \in SUBSET {r[1] : r \in exch[y].replies} : Cut(y, lost)
             \/ Record(y) \/ Leave(y)
      PROVE  ~Blocked(x)
  <2>1. CASE \E b \in Batches, mine \in BOOLEAN : Begin(y, b, mine)
    BY <1>3, <2>1
  <2>2. CASE \E t \in Tools : Learn(y, t)
    BY <1>4, <2>2
  <2>3. CASE \E lost \in SUBSET {r[1] : r \in exch[y].replies} : Cut(y, lost)
    BY <1>5, <2>3
  <2>4. CASE \/ Gate(y) \/ Execute(y) \/ Headers(y) \/ Fail(y)
             \/ Show(y) \/ Filtered(y) \/ Break(y) \/ Record(y) \/ Leave(y)
    <3>1. CASE y = x
      BY <1>7, <1>8, <2>4, <3>1 DEF Execute, Headers, Fail, Show, Filtered, Break, Record
    <3>2. CASE y # x
      <4>1. \E w : exch' = [exch EXCEPT ![y] = w]
        BY <2>4 DEF Gate, Execute, Headers, Fail, Show, Filtered, Break, Record, Leave
      <4>2. QED BY <1>0, <3>2, <4>1 DEF TypeInv
    <3>3. QED BY <3>1, <3>2
  <2>5. QED BY <1>9, <2>1, <2>2, <2>3, <2>4
<1>10. QED BY <1>1, <1>2, <1>9 DEF Next

\* A tool that a list has shown to run commands is not called before the registry
\* knows, but for an app that is trusted (surfaces.rs, refused).
THEOREM DangerIsRefused == Spec => NewDangerIsRefused
<1>1. ASSUME IInv, Next, NEW x \in Exchanges, exch[x].step = "gate", exch'[x].step = "calling",
             NEW t \in Called(exch[x].batch) \intersect listed, Dangerous(app, t), ~Dangerous(entry.tools, t)
      PROVE  trusted
  <2>0. PICK c \in Calls(exch[x].batch) : c.tool = t
    BY <1>1 DEF Called
  <2>1. t \in exch[x].entry.allowed /\ (t \notin refused \/ CaughtUp(x, t))
    BY <1>1, <2>0, OnlyByTheGate DEF Blocked, BlockedCalls, ToolBlocked
  <2>2. Sound(exch[x].entry) /\ exch[x].entry.state = "live"
    BY <1>1, Parts DEF EntryInv, Begun
  <2>3. t \in refused
    BY <1>1, <2>1, <2>2, Parts DEF ListedInv, Sound
  <2>4. QED BY <2>1, <2>2, <2>3 DEF CaughtUp, Sound
<1>2. IInv /\ [Next]_vars =>
        [\A x \in Exchanges : exch[x].step = "gate" /\ exch'[x].step = "calling" =>
          \A t \in Called(exch[x].batch) \intersect listed :
              Dangerous(app, t) /\ ~Dangerous(entry.tools, t) => trusted]_vars
  BY <1>1
<1>3. QED BY <1>2, Invariance, PTL DEF Spec, NewDangerIsRefused

-----------------------------------------------------------------------------
(* The terminal screen. *)

\* An entry of commands: what it runs, whether it only reads, is a resource, may run code.
Entry(c) == c = Command(c.run, c.reads, c.resource, c.allow)

\* A file as porchlight writes it: All is the one list with a star.
FileOk(f) ==
    /\ f = [mcp |-> f.mcp, commands |-> f.commands, links |-> f.links]
    /\ "*" \notin DOMAIN f.commands
    /\ \A l \in DOMAIN f.links : f.links[l] = All \/ "*" \notin f.links[l]
    /\ \A a \in DOMAIN f.commands : Entry(f.commands[a])

\* No command that deletes is told to only read, unless it is refused.
Truthful(c) == Claims(c) /\ Compiles(c) => c.run \notin Effects

\* A command that may be written once the words were typed for.
Safe(c, words) ==
    /\ RunsCode(c.run) \/ NeedsPerson(c.run, Claims(c)) => c.run \in words
    /\ Truthful(c)

Good(f, words) == FileOk(f) /\ \A a \in DOMAIN f.commands : Safe(f.commands[a], words)

\* The steps of a dialog that adds a command: what was asked so far was answered.
DraftOk(m, f, words) ==
    LET d == m.about
    IN /\ m.step = "CommandDanger" => d = Draft(d.run)
       /\ m.step = "CommandName" => Entry(d) /\ (RunsCode(d.run) => d.run \in words)
       /\ m.step = "CommandReadOnly" =>
            d.app \in Names /\ Entry(d.draft) /\ (RunsCode(d.draft.run) => d.draft.run \in words)
       /\ m.step = "CommandOpenInputs" => d.app \in Names /\ Entry(d.draft) /\ Truthful(d.draft)
       /\ m.step = "CommandLinks" =>
            /\ d.app \in Names
            /\ Entry(d.draft) /\ Safe(d.draft, words)
            /\ m.boxes = LinkChecks(f, d.app)

\* The steps of the other dialogs: they speak of what the snapshot has, and their
\* boxes are those of the snapshot.
StepOk(m, f) ==
    LET d == m.about
    IN /\ m.step = "AppLinks" => d.app \in DOMAIN f.commands /\ m.boxes = LinkChecks(f, d.app)
       /\ m.step = "LinkApps" => d.link \in DOMAIN f.links /\ m.boxes = LinkAppChecks(f, d.link)
       /\ m.step = "NewLinkApps" => \E X : m.boxes = NewLinkChecks(f, X)
       /\ m.step \in {"EditRun", "AllowDangerous"} => d.app \in DOMAIN f.commands
       /\ m.step \in {"EditReads", "EditConfirmed"} =>
            d.app \in DOMAIN f.commands /\ ~RunsCode(d.run)

Dialogs == {"Choose", "Input", "Confirm", "Checklist"}
ModeOk(m, f, words) == m.is \in Dialogs => DraftOk(m, f, words) /\ StepOk(m, f)

ScreenInv ==
    /\ Good(file, typed)
    /\ Good(snap.file, typed)
    /\ ModeOk(mode, snap.file, typed)
    /\ CodeIsOfARequest
    /\ AnswersDoWhatWasTicked
-----------------------------------------------------------------------------
(* What the operators that change the file keep. *)

LEMMA GoodMore ==
  ASSUME NEW f, NEW words, NEW more, Good(f, words)
  PROVE  Good(f, words \cup more)
BY DEF Good, Safe

LEMMA GoodServers ==
  ASSUME NEW f, NEW words, NEW section, Good(f, words)
  PROVE  Good([f EXCEPT !.mcp = section], words)
BY DEF Good, FileOk

LEMMA GoodCommands ==
  ASSUME NEW f, NEW words, NEW section, Good(f, words), "*" \notin DOMAIN section,
         \A n \in DOMAIN section :
            Entry(section[n]) /\ Safe(section[n], words)
  PROVE  Good([f EXCEPT !.commands = section], words)
BY DEF Good, FileOk

LEMMA GoodLinks ==
  ASSUME NEW f, NEW words, NEW section, Good(f, words),
         \A l \in DOMAIN section : section[l] = All \/ "*" \notin section[l]
  PROVE  Good([f EXCEPT !.links = section], words)
BY DEF Good, FileOk

LEMMA GoodCommand ==
  ASSUME NEW f, NEW words, NEW name, NEW c, Good(f, words), name # "*", Entry(c), Safe(c, words)
  PROVE  Good([f EXCEPT !.commands = Put(@, name, c)], words)
<1> DEFINE new == Put(f.commands, name, c)
<1>1. /\ DOMAIN new = DOMAIN f.commands \cup {name}
      /\ \A n \in DOMAIN new : new[n] = IF n = name THEN c ELSE f.commands[n]
  BY DEF Put
<1> HIDE DEF new
<1>2. "*" \notin DOMAIN new
  BY <1>1 DEF Good, FileOk
<1>3. \A n \in DOMAIN new : Entry(new[n]) /\ Safe(new[n], words)
  BY <1>1 DEF Good, FileOk
<1>4. Good([f EXCEPT !.commands = new], words)
  BY <1>2, <1>3, GoodCommands
<1>5. QED BY <1>4 DEF new

LEMMA GoodFewer ==
  ASSUME NEW f, NEW words, NEW S, Good(f, words)
  PROVE  Good([f EXCEPT !.commands = Restrict(@, DOMAIN @ \ S)], words)
<1> DEFINE new == Restrict(f.commands, DOMAIN f.commands \ S)
<1>1. DOMAIN new = DOMAIN f.commands \ S /\ \A n \in DOMAIN new : new[n] = f.commands[n]
  BY DEF Restrict
<1> HIDE DEF new
<1>2. Good([f EXCEPT !.commands = new], words)
  BY <1>1, GoodCommands DEF Good, FileOk
<1>3. QED BY <1>2 DEF new

LEMMA GoodNewLink ==
  ASSUME NEW f, NEW words, NEW l, NEW members, Good(f, words), members = All \/ "*" \notin members
  PROVE  Good(NewLink(f, l, members), words)
<1> DEFINE new == Put(f.links, l, members)
<1>1. /\ DOMAIN new = DOMAIN f.links \cup {l}
      /\ \A k \in DOMAIN new : new[k] = IF k = l THEN members ELSE f.links[k]
  BY DEF Put
<1> HIDE DEF new
<1>2. Good([f EXCEPT !.links = new], words)
  BY <1>1, GoodLinks DEF Good, FileOk
<1>3. QED BY <1>2 DEF new, NewLink

LEMMA GoodWithoutLink ==
  ASSUME NEW f, NEW words, NEW l, Good(f, words)
  PROVE  Good(WithoutLink(f, l), words)
<1> DEFINE new == Restrict(f.links, DOMAIN f.links \ {l})
<1>1. DOMAIN new = DOMAIN f.links \ {l} /\ \A k \in DOMAIN new : new[k] = f.links[k]
  BY DEF Restrict
<1> HIDE DEF new
<1>2. Good([f EXCEPT !.links = new], words)
  BY <1>1, GoodLinks DEF Good, FileOk
<1>3. QED BY <1>2 DEF new, WithoutLink

LEMMA GoodSetMembers ==
  ASSUME NEW f, NEW words, NEW l, NEW members, Good(f, words), "*" \notin members
  PROVE  Good(SetMembers(f, l, members), words)
BY GoodNewLink, GoodWithoutLink DEF SetMembers

LEMMA GoodEditTool ==
  ASSUME NEW f, NEW words, NEW name, NEW c, Good(f, words), name # "*", Entry(c), Safe(c, words)
  PROVE  Good(EditTool(f, name, c), words)
BY GoodCommand DEF EditTool

\* What the changes of one entry make of it.
Became(c, run, reads, resource) ==
    Entry(c) /\ c.run = run /\ c.reads = reads /\ c.resource = resource
LEMMA CommandChanges ==
  ASSUME NEW c, Entry(c)
  PROVE  /\ Became(WithKey(c), c.run, c.reads, c.resource)
         /\ \A run, reads : Became([c EXCEPT !.run = run, !.reads = reads], run, reads, c.resource)
         /\ \A reads : Became([c EXCEPT !.reads = reads], c.run, reads, c.resource)
<1>1. PICK r, b, s, g : c = Command(r, b, s, g)
  BY DEF Entry
<1>2. \A run, reads, resource, allow :
        /\ Entry(Command(run, reads, resource, allow))
        /\ Command(run, reads, resource, allow).run = run
        /\ Command(run, reads, resource, allow).reads = reads
        /\ Command(run, reads, resource, allow).resource = resource
  BY DEF Entry, Command
<1>3. c.run = r /\ c.reads = b /\ c.resource = s
  BY <1>1, <1>2
<1>4. WithKey(c) = Command(r, b, s, TRUE)
  <2>1. \A v : [Command(r, b, s, g) EXCEPT !.allow = v] = Command(r, b, s, v)
    BY DEF Command
  <2>2. QED BY <1>1, <2>1 DEF WithKey
<1>5. ASSUME NEW run, NEW reads
      PROVE  [c EXCEPT !.run = run, !.reads = reads] = Command(run, reads, s, g)
  <2>1. [Command(r, b, s, g) EXCEPT !.run = run] = Command(run, b, s, g)
    BY DEF Command
  <2>2. [Command(run, b, s, g) EXCEPT !.reads = reads] = Command(run, reads, s, g)
    BY DEF Command
  <2>3. [c EXCEPT !.run = run, !.reads = reads] = [[c EXCEPT !.run = run] EXCEPT !.reads = reads]
    OBVIOUS
  <2>4. QED BY <1>1, <2>1, <2>2, <2>3
<1>6. ASSUME NEW reads PROVE [c EXCEPT !.reads = reads] = Command(r, reads, s, g)
  <2>1. [Command(r, b, s, g) EXCEPT !.reads = reads] = Command(r, reads, s, g)
    BY DEF Command
  <2>2. QED BY <1>1, <2>1
<1>7. \A run, reads, resource, allow : Became(Command(run, reads, resource, allow), run, reads, resource)
  BY <1>2 DEF Became
<1>8. Became(WithKey(c), c.run, c.reads, c.resource)
  BY <1>3, <1>4, <1>7
<1>9. ASSUME NEW run, NEW reads PROVE Became([c EXCEPT !.run = run, !.reads = reads], run, reads, c.resource)
  <2>1. Became(Command(run, reads, s, g), run, reads, s)
    BY <1>7
  <2>2. QED BY <1>3, <1>5, <2>1, Zenon
<1>10. ASSUME NEW reads PROVE Became([c EXCEPT !.reads = reads], c.run, reads, c.resource)
  <2>1. Became(Command(r, reads, s, g), r, reads, s)
    BY <1>7
  <2>2. QED BY <1>3, <1>6, <2>1, Zenon
<1>11. QED BY <1>8, <1>9, <1>10

LEMMA DraftIs ==
  ASSUME NEW run
  PROVE  Entry(Draft(run)) /\ Draft(run).run = run /\ ~Draft(run).reads /\ ~Draft(run).resource
BY DEF Draft, Entry, Command

LEMMA HonestIs ==
  ASSUME NEW c, Entry(c)
  PROVE  Entry(Honest(c)) /\ Honest(c).run = c.run /\ Truthful(Honest(c))
<1> DEFINE e == [c EXCEPT !.reads = FALSE]
<1>1. Entry(e) /\ e.run = c.run /\ e.resource = c.resource /\ ~e.reads
  <2>1. \A reads : Became([c EXCEPT !.reads = reads], c.run, reads, c.resource)
    BY CommandChanges
  <2>2. Became(e, c.run, FALSE, c.resource)
    BY <2>1
  <2>3. QED BY <2>2 DEF Became
<1>2. Honest(c) = IF c.run \in Effects /\ Claims(c) THEN e ELSE c
  BY DEF Honest
<1> HIDE DEF e
<1>3. CASE c.run \in Effects /\ Claims(c)
  BY <1>1, <1>2, <1>3 DEF Truthful, Claims, Compiles
<1>4. CASE ~(c.run \in Effects /\ Claims(c))
  BY <1>2, <1>4 DEF Truthful
<1>5. QED BY <1>3, <1>4

\* The key is no claim, and asks for no word.
LEMMA SafeWithKey ==
  ASSUME NEW c, NEW words, Entry(c), Safe(c, words)
  PROVE  Entry(WithKey(c)) /\ Safe(WithKey(c), words)
<1>1. /\ Entry(WithKey(c)) /\ WithKey(c).run = c.run
      /\ WithKey(c).reads = c.reads /\ WithKey(c).resource = c.resource
  BY CommandChanges DEF Became
<1>2. QED BY <1>1 DEF Safe, Truthful, Claims, Compiles

LEMMA SafeDraft ==
  ASSUME NEW run, NEW words, RunsCode(run) \/ run \in Open => run \in words
  PROVE  Entry(Draft(run)) /\ Safe(Draft(run), words)
BY DraftIs DEF Safe, Truthful, Claims, NeedsPerson

LEMMA GoodAllowDangerous ==
  ASSUME NEW f, NEW words, NEW name, NEW then, NEW line, Good(f, words), name # "*",
         Entry(then), Safe(then, words)
  PROVE  Good(AllowDangerous(f, name, then, line), words)
<1>1. ASSUME NEW c, Entry(c), Safe(c, words) PROVE Good(EditTool(f, name, WithKey(c)), words)
  BY <1>1, SafeWithKey, GoodEditTool
<1>2. CASE line
  BY <1>1, <1>2 DEF AllowDangerous
<1>3. CASE ~line /\ name \in DOMAIN f.commands
  <2>1. Entry(f.commands[name]) /\ Safe(f.commands[name], words)
    BY <1>3 DEF Good, FileOk
  <2>2. QED BY <1>1, <1>3, <2>1 DEF AllowDangerous
<1>4. CASE ~line /\ name \notin DOMAIN f.commands
  <2>1. Entry(Draft(NoRun)) /\ Safe(Draft(NoRun), words)
    BY SafeDraft, NoRunIsNoCommand, DangersAreWords DEF RunsCode
  <2>2. QED BY <1>1, <1>4, <2>1 DEF AllowDangerous
<1>5. QED BY <1>2, <1>3, <1>4

\* What SetLinksOf writes: the links that have the app and should not, or the other way.
Toggled(s, name, wanted) ==
    {l \in DOMAIN s.links : s.links[l] # All /\ (name \in s.links[l]) # (l \in wanted)}
    \cup (wanted \ DOMAIN s.links)
ListOf(s, l) == IF l \in DOMAIN s.links THEN s.links[l] ELSE {}
WithOrWithout(s, name, wanted, l) ==
    (ListOf(s, l) \ {name}) \cup (IF l \in wanted THEN {name} ELSE {})

LEMMA SetLinksOfWrites ==
  ASSUME NEW f, NEW s, NEW name, NEW wanted,
         f = [mcp |-> f.mcp, commands |-> f.commands, links |-> f.links]
  PROVE  LET new == SetLinksOf(f, s, name, wanted)
         IN /\ new = [f EXCEPT !.links = new.links]
            /\ DOMAIN new.links = Toggled(s, name, wanted) \cup DOMAIN f.links
            /\ \A l \in DOMAIN new.links :
                  new.links[l] = IF l \in Toggled(s, name, wanted) THEN WithOrWithout(s, name, wanted, l)
                                                                  ELSE f.links[l]
<1> DEFINE T == Toggled(s, name, wanted)
           W(l) == WithOrWithout(s, name, wanted, l)
           links == [l \in T \cup DOMAIN f.links |-> IF l \in T THEN W(l) ELSE f.links[l]]
<1>1. SetLinksOf(f, s, name, wanted) = [f EXCEPT !.links = links]
  BY Zenon DEF SetLinksOf, Toggled, WithOrWithout, ListOf
<1>2. DOMAIN links = T \cup DOMAIN f.links /\ \A l \in DOMAIN links : links[l] = IF l \in T THEN W(l) ELSE f.links[l]
  OBVIOUS
<1> HIDE DEF T, W, links
<1>3. [f EXCEPT !.links = links].links = links
  OBVIOUS
<1>4. QED BY <1>1, <1>2, <1>3 DEF T, W

LEMMA GoodSetLinksOf ==
  ASSUME NEW f, NEW s, NEW words, NEW name, NEW wanted, Good(f, words), name # "*",
         \A l \in DOMAIN s.links : s.links[l] = All \/ "*" \notin s.links[l]
  PROVE  Good(SetLinksOf(f, s, name, wanted), words)
<1> DEFINE new == SetLinksOf(f, s, name, wanted)
<1>1. /\ new = [f EXCEPT !.links = new.links]
      /\ DOMAIN new.links = Toggled(s, name, wanted) \cup DOMAIN f.links
      /\ \A l \in DOMAIN new.links :
            new.links[l] = IF l \in Toggled(s, name, wanted) THEN WithOrWithout(s, name, wanted, l)
                                                            ELSE f.links[l]
  BY SetLinksOfWrites DEF Good, FileOk
<1> HIDE DEF new
<1>2. \A l \in Toggled(s, name, wanted) : "*" \notin WithOrWithout(s, name, wanted, l)
  BY DEF Toggled, WithOrWithout, ListOf
<1>3. \A l \in DOMAIN new.links : new.links[l] = All \/ "*" \notin new.links[l]
  BY <1>1, <1>2 DEF Good, FileOk
<1>4. Good([f EXCEPT !.links = new.links], words)
  BY <1>3, GoodLinks
<1>5. QED BY <1>1, <1>4 DEF new

LEMMA GoodAddCommand ==
  ASSUME NEW f, NEW words, NEW name, NEW c, NEW wanted, Good(f, words), name # "*",
         Entry(c), Safe(c, words)
  PROVE  Good(AddCommand(f, name, c, wanted), words)
<1> DEFINE written == [f EXCEPT !.commands = Put(@, name, c)]
<1>1. Good(written, words)
  BY GoodCommand
<1> HIDE DEF written
<1>2. Good(SetLinksOf(written, written, name, wanted), words)
  BY <1>1, GoodSetLinksOf DEF Good, FileOk
<1>3. QED BY <1>2 DEF AddCommand, written

LEMMA GoodRemoveApp ==
  ASSUME NEW f, NEW s, NEW words, NEW name, Good(f, words),
         \A l \in DOMAIN s.links : s.links[l] = All \/ "*" \notin s.links[l]
  PROVE  Good(RemoveApp(f, s, name), words)
<1> DEFINE Touched == {l \in DOMAIN s.links : s.links[l] # All /\ name \in s.links[l]}
           links == [l \in Touched \cup DOMAIN f.links |-> IF l \in Touched THEN s.links[l] \ {name} ELSE f.links[l]]
           cut == [f EXCEPT !.links = links]
<1>1. \A l \in DOMAIN links : links[l] = All \/ "*" \notin links[l]
  BY DEF Good, FileOk
<1>2. RemoveApp(f, s, name) =
        IF name \in DOMAIN s.commands
          THEN [cut EXCEPT !.commands = Restrict(@, DOMAIN @ \ {name})]
          ELSE [cut EXCEPT !.mcp = Restrict(@, DOMAIN @ \ {name})]
  BY Zenon DEF RemoveApp
<1> HIDE DEF links
<1>3. Good(cut, words)
  BY <1>1, GoodLinks
<1> HIDE DEF cut
<1>4. Good([cut EXCEPT !.commands = Restrict(@, DOMAIN @ \ {name})], words)
  BY <1>3, GoodFewer
<1>5. Good([cut EXCEPT !.mcp = Restrict(@, DOMAIN @ \ {name})], words)
  BY <1>3, GoodServers
<1>6. QED BY <1>2, <1>4, <1>5

-----------------------------------------------------------------------------
(* What an answer from a list of boxes does to the placements. *)

On(f, l, a) ==
    l \in DOMAIN f.links /\ a \in DOMAIN f.commands /\ (f.links[l] = All \/ a \in f.links[l])

LEMMA PlacementsAre ==
  ASSUME NEW f
  PROVE  /\ \A l, a : <<l, a>> \in Placements(f) <=> On(f, l, a)
         /\ \A p \in Placements(f) : p = <<p[1], p[2]>>
BY DEF Placements, On

\* From the file f to g every box that was shown and free is as it was ticked, and
\* nothing else changed but what the boxes that were fixed stand for.
AsTicked(f, g, shown, locked, picked) ==
    /\ Placements(g) \cap shown = picked
    /\ \A p \in (Placements(g) \ Placements(f)) \cup (Placements(f) \ Placements(g)) :
          p \in shown \cup locked

\* Boxes of links, for one app; h is f, or f with that app in it.
LEMMA TickedLinks ==
  ASSUME NEW f, NEW h, FileOk(f), FileOk(h), h.links = f.links, NEW name, name # "*",
         DOMAIN h.commands = DOMAIN f.commands \cup {name},
         NEW boxes, boxes = LinkChecks(f, name),
         NEW picked, boxes.locked \subseteq picked, picked \subseteq boxes.shown
  PROVE  AsTicked(f, SetLinksOf(h, h, name, picked), (boxes.shown \ boxes.locked) \X {name},
                  boxes.locked \X {name}, (picked \ boxes.locked) \X {name})
<1> DEFINE g == SetLinksOf(h, h, name, picked)
           T == Toggled(h, name, picked)
           free == boxes.shown \ boxes.locked
<1>1. boxes.shown = DOMAIN f.links /\ boxes.locked = {l \in DOMAIN f.links : f.links[l] = All}
  BY DEF LinkChecks, Boxes
<1>2. /\ g = [h EXCEPT !.links = g.links]
      /\ DOMAIN g.links = T \cup DOMAIN h.links
      /\ \A l \in DOMAIN g.links :
            g.links[l] = IF l \in T THEN WithOrWithout(h, name, picked, l) ELSE h.links[l]
  BY SetLinksOfWrites DEF FileOk
<1>3. T = {l \in DOMAIN f.links : f.links[l] # All /\ (name \in f.links[l]) # (l \in picked)}
  BY <1>1 DEF Toggled
<1>4. \A l \in T : WithOrWithout(h, name, picked, l) =
                     (f.links[l] \ {name}) \cup (IF l \in picked THEN {name} ELSE {})
  BY <1>3 DEF WithOrWithout, ListOf
<1>5. \A l \in T : "*" \notin f.links[l]
  BY <1>3 DEF FileOk
<1>6. DOMAIN g.commands = DOMAIN f.commands \cup {name} /\ DOMAIN g.links = DOMAIN f.links
  <2>1. g.commands = h.commands
    BY <1>2 DEF FileOk
  <2>2. QED BY <2>1, <1>2, <1>3
<1> HIDE DEF g, T
<1>7. \A l \in T : "*" \notin g.links[l]
  BY <1>2, <1>4, <1>5, <1>6, <1>3
<1>8. \A l, a : a # name => (On(g, l, a) <=> On(f, l, a))
  <2> SUFFICES ASSUME NEW l \in DOMAIN f.links, NEW a, a # name
               PROVE  g.links[l] = All \/ a \in g.links[l] <=> f.links[l] = All \/ a \in f.links[l]
    BY <1>6 DEF On
  <2>1. CASE l \in T
    <3>1. g.links[l] # All /\ f.links[l] # All
      BY <1>5, <1>7, <2>1 DEF All
    <3>2. a \in g.links[l] <=> a \in f.links[l]
      BY <1>2, <1>4, <1>6, <2>1
    <3>3. QED BY <3>1, <3>2
  <2>2. CASE l \notin T
    BY <1>2, <1>6, <2>2
  <2>3. QED BY <2>1, <2>2
<1>9. \A l \in free : On(g, l, name) <=> l \in picked
  <2> SUFFICES ASSUME NEW l \in DOMAIN f.links, f.links[l] # All
               PROVE  g.links[l] = All \/ name \in g.links[l] <=> l \in picked
    BY <1>1, <1>6 DEF On
  <2>1. CASE l \in T
    <3>1. g.links[l] # All
      BY <1>7, <2>1 DEF All
    <3>2. name \in g.links[l] <=> l \in picked
      BY <1>2, <1>4, <1>6, <2>1
    <3>3. QED BY <3>1, <3>2
  <2>2. CASE l \notin T
    <3>1. name \in f.links[l] <=> l \in picked
      BY <1>3, <2>2
    <3>2. QED BY <1>2, <1>6, <2>2, <3>1
  <2>3. QED BY <2>1, <2>2
<1>10. \A l, a : On(g, l, a) => l \in boxes.shown
  BY <1>1, <1>6 DEF On
<1>11. \A l, a : On(f, l, a) => l \in boxes.shown
  BY <1>1 DEF On
<1>12. Placements(g) \cap (free \X {name}) = (picked \ boxes.locked) \X {name}
  <2>1. ASSUME NEW p, p \in Placements(g), p \in free \X {name}
        PROVE  p \in (picked \ boxes.locked) \X {name}
    <3>1. PICK l \in free : p = <<l, name>>
      BY <2>1
    <3>2. On(g, l, name)
      BY <2>1, <3>1, PlacementsAre
    <3>3. QED BY <1>9, <3>1, <3>2
  <2>2. ASSUME NEW p, p \in (picked \ boxes.locked) \X {name}
        PROVE  p \in Placements(g) /\ p \in free \X {name}
    <3>1. PICK l \in picked \ boxes.locked : p = <<l, name>>
      BY <2>2
    <3>2. l \in free
      OBVIOUS
    <3>3. On(g, l, name)
      BY <1>9, <3>2
    <3>4. QED BY <3>1, <3>2, <3>3, PlacementsAre
  <2>3. QED BY <2>1, <2>2
<1>13. ASSUME NEW p \in (Placements(g) \ Placements(f)) \cup (Placements(f) \ Placements(g))
       PROVE  p \in (free \X {name}) \cup (boxes.locked \X {name})
  <2>1. p = <<p[1], p[2]>>
    BY PlacementsAre
  <2>2. ~(On(g, p[1], p[2]) <=> On(f, p[1], p[2]))
    BY <2>1, PlacementsAre DEF On
  <2>3. p[2] = name /\ p[1] \in boxes.shown
    BY <1>8, <1>10, <1>11, <2>2
  <2>4. QED BY <2>1, <2>3
<1>14. QED BY <1>12, <1>13 DEF AsTicked, g

\* Boxes of the commands, for one link: from f to g its new list is members, or it goes.
ListsApps(f, g, l, members, locked, picked) ==
    /\ g \in {NewLink(f, l, members), SetMembers(f, l, members)}
    /\ members \subseteq DOMAIN f.commands /\ picked \subseteq DOMAIN f.commands
    /\ members \ locked = picked \ locked

LEMMA TickedApps ==
  ASSUME NEW f, NEW g, NEW l, NEW members, NEW locked, NEW picked, FileOk(f),
         ListsApps(f, g, l, members, locked, picked)
  PROVE  AsTicked(f, g, {l} \X (DOMAIN f.commands \ locked), {l} \X locked, {l} \X (picked \ locked))
<1>0. /\ g \in {NewLink(f, l, members), SetMembers(f, l, members)}
      /\ members \subseteq DOMAIN f.commands /\ picked \subseteq DOMAIN f.commands
      /\ members \ locked = picked \ locked
  BY DEF ListsApps
<1> DEFINE free == DOMAIN f.commands \ locked
<1>1. DOMAIN g.commands = DOMAIN f.commands
  BY <1>0 DEF NewLink, SetMembers, WithoutLink, FileOk
<1>2. \A k, a : k # l => (On(g, k, a) <=> On(f, k, a))
  <2>1. CASE g = NewLink(f, l, members)
    <3>1. g.links = Put(f.links, l, members)
      BY <2>1 DEF NewLink, FileOk
    <3>2. QED BY <1>1, <3>1 DEF On, Put
  <2>2. CASE g = WithoutLink(f, l)
    <3>1. g.links = Restrict(f.links, DOMAIN f.links \ {l})
      BY <2>2 DEF WithoutLink, FileOk
    <3>2. QED BY <1>1, <3>1 DEF On, Restrict
  <2>3. QED BY <1>0, <2>1, <2>2 DEF SetMembers
<1>3. \A a : On(g, l, a) <=> a \in members
  <2>1. CASE g = NewLink(f, l, members)
    <3>1. g.links = Put(f.links, l, members)
      BY <2>1 DEF NewLink, FileOk
    <3>2. l \in DOMAIN g.links /\ g.links[l] = members
      BY <3>1 DEF Put
    <3>3. members # All
      BY <1>0 DEF FileOk, All
    <3>4. QED BY <1>0, <1>1, <3>2, <3>3 DEF On
  <2>2. CASE g = WithoutLink(f, l) /\ members = {}
    <3>1. g.links = Restrict(f.links, DOMAIN f.links \ {l})
      BY <2>2 DEF WithoutLink, FileOk
    <3>2. l \notin DOMAIN g.links
      BY <3>1 DEF Restrict
    <3>3. QED BY <2>2, <3>2 DEF On
  <2>3. QED BY <1>0, <2>1, <2>2 DEF SetMembers
<1>4. Placements(g) \cap ({l} \X free) = {l} \X (picked \ locked)
  <2>1. ASSUME NEW p, p \in Placements(g), p \in {l} \X free
        PROVE  p \in {l} \X (picked \ locked)
    <3>1. PICK a \in free : p = <<l, a>>
      BY <2>1
    <3>2. On(g, l, a)
      BY <2>1, <3>1, PlacementsAre
    <3>3. QED BY <1>0, <1>3, <3>1, <3>2
  <2>2. ASSUME NEW p, p \in {l} \X (picked \ locked)
        PROVE  p \in Placements(g) /\ p \in {l} \X free
    <3>1. PICK a \in picked \ locked : p = <<l, a>>
      BY <2>2
    <3>2. On(g, l, a)
      BY <1>0, <1>3
    <3>3. QED BY <1>0, <3>1, <3>2, PlacementsAre
  <2>3. QED BY <2>1, <2>2
<1>5. ASSUME NEW p \in (Placements(g) \ Placements(f)) \cup (Placements(f) \ Placements(g))
      PROVE  p \in ({l} \X free) \cup ({l} \X locked)
  <2>1. p = <<p[1], p[2]>>
    BY PlacementsAre
  <2>2. ~(On(g, p[1], p[2]) <=> On(f, p[1], p[2]))
    BY <2>1, PlacementsAre DEF On
  <2>3. p[1] = l /\ p[2] \in DOMAIN f.commands
    BY <1>1, <1>2, <2>2 DEF On
  <2>4. QED BY <2>1, <2>3
<1>6. QED BY <1>4, <1>5 DEF AsTicked

-----------------------------------------------------------------------------
(* What the ways to end a step keep. *)

LEMMA ScreenParts ==
  ASSUME ScreenInv
  PROVE  /\ Good(file, typed) /\ Good(snap.file, typed) /\ ModeOk(mode, snap.file, typed)
         /\ FileOk(file) /\ FileOk(snap.file)
BY DEF ScreenInv, Good

LEMMA NothingTicked ==
  ASSUME ticked' = NotTicked
  PROVE  AnswersDoWhatWasTicked'
BY DEF AnswersDoWhatWasTicked, NotTicked

Quiet(m) == m.is \notin Dialogs \cup {"Code"}

LEMMA QuietModes ==
  /\ Quiet(Normal)
  /\ \A what : Quiet(Message(what))
  /\ \A m : Quiet(m) => m.is # "Code"
BY DEF Quiet, Normal, Message, Dialogs

LEMMA ModeMore ==
  ASSUME NEW m, NEW f, NEW words, NEW more, ModeOk(m, f, words)
  PROVE  ModeOk(m, f, words \cup more)
BY DEF ModeOk, DraftOk, Safe

LEMMA OpensStep ==
  ASSUME ScreenInv, NEW m, Opens(m), ModeOk(m, snap.file, typed),
         m.is = "Code" => m.request \in snap.store.pending
  PROVE  ScreenInv'
<1>1. AnswersDoWhatWasTicked'
  BY NothingTicked DEF Opens
<1>2. mode' = m /\ UNCHANGED <<file, snap, typed>>
  BY DEF Opens
<1>3. QED BY <1>1, <1>2 DEF ScreenInv, CodeIsOfARequest

LEMMA OpensQuietStep ==
  ASSUME ScreenInv, NEW m, Opens(m), Quiet(m)
  PROVE  ScreenInv'
BY OpensStep DEF Quiet, ModeOk

LEMMA RefreshStep ==
  ASSUME NEW m, Refresh(m), m.is \notin Dialogs, Good(file', typed'), AnswersDoWhatWasTicked'
  PROVE  ScreenInv'
<1>1. snap'.file = file' /\ snap'.store = store' /\ mode' = AfterRefresh(m, store')
  BY DEF Refresh, Taken
<1>2. mode'.is \notin Dialogs
  BY <1>1, QuietModes DEF AfterRefresh, Quiet
<1>3. mode'.is = "Code" => mode'.request \in snap'.store.pending
  BY <1>1, QuietModes DEF AfterRefresh
<1>4. ModeOk(mode', snap'.file, typed')
  BY <1>2 DEF ModeOk
<1>5. QED BY <1>1, <1>3, <1>4 DEF ScreenInv, CodeIsOfARequest

LEMMA SavesStep ==
  ASSUME NEW f, NEW m, Saves(f, m), Quiet(m), Good(f, typed'), AnswersDoWhatWasTicked'
  PROVE  ScreenInv'
BY RefreshStep DEF Saves, Quiet

LEMMA ChangesStep ==
  ASSUME ScreenInv, NEW f, Changes(f), Good(f, typed)
  PROVE  ScreenInv'
BY SavesStep, NothingTicked, QuietModes DEF Changes

LEMMA AnswersStep ==
  ASSUME ScreenInv, NEW f, NEW picked, NEW m, Answers(f, picked, m), Quiet(m), Good(f, typed),
         snap.file = file =>
            AsTicked(file, f, Pairs(mode.boxes.shown \ mode.boxes.locked), Pairs(mode.boxes.locked),
                     Pairs(picked \ mode.boxes.locked))
  PROVE  ScreenInv'
<1> DEFINE shown == Pairs(mode.boxes.shown \ mode.boxes.locked)
           locked == Pairs(mode.boxes.locked)
           chosen == Pairs(picked \ mode.boxes.locked)
<1>1. /\ ticked' = [clean |-> snap.file = file, before |-> Placements(file), shown |-> shown,
                    locked |-> locked, picked |-> chosen]
      /\ file' = f /\ typed' = typed /\ Saves(f, m)
  BY DEF Answers, Saves
<1>2. snap.file = file => AsTicked(file, f, shown, locked, chosen)
  OBVIOUS
<1> HIDE DEF shown, locked, chosen
<1>3. /\ ticked'.clean <=> snap.file = file
      /\ ticked'.before = Placements(file) /\ ticked'.shown = shown
      /\ ticked'.locked = locked /\ ticked'.picked = chosen
  BY <1>1
<1>4. Placements(file') = Placements(f)
  BY <1>1
<1>5. AnswersDoWhatWasTicked'
  BY <1>2, <1>3, <1>4 DEF AnswersDoWhatWasTicked, AsTicked
<1>6. QED BY <1>1, <1>5, SavesStep

LEMMA StoreStep ==
  ASSUME ScreenInv, NEW s, NEW m, StoreChanges(s, m), Quiet(m)
  PROVE  ScreenInv'
<1>1. AnswersDoWhatWasTicked' /\ Refresh(m) /\ UNCHANGED <<file, typed>>
  BY NothingTicked DEF StoreChanges
<1>2. QED BY <1>1, RefreshStep, ScreenParts DEF Quiet

LEMMA ConfirmedStep ==
  ASSUME ScreenInv, NEW words, NEW m, Confirmed(words, m), m.is # "Code",
         ModeOk(m, snap.file, typed \cup words)
  PROVE  ScreenInv'
<1>1. AnswersDoWhatWasTicked'
  BY NothingTicked DEF Confirmed
<1>2. mode' = m /\ typed' = typed \cup words /\ UNCHANGED <<file, snap>>
  BY DEF Confirmed
<1>3. Good(file, typed \cup words) /\ Good(snap.file, typed \cup words)
  BY ScreenParts, GoodMore
<1>4. QED BY <1>1, <1>2, <1>3 DEF ScreenInv, CodeIsOfARequest

LEMMA WorldStep ==
  ASSUME ScreenInv, World, NEW more, typed' = typed \cup more, Good(file', typed')
  PROVE  ScreenInv'
<1>1. AnswersDoWhatWasTicked' /\ UNCHANGED <<snap, mode>>
  BY NothingTicked DEF World
<1>2. Good(snap.file, typed \cup more) /\ ModeOk(mode, snap.file, typed \cup more)
  BY ScreenParts, GoodMore, ModeMore
<1>3. QED BY <1>1, <1>2 DEF ScreenInv, CodeIsOfARequest

-----------------------------------------------------------------------------
(* The steps of the screen. *)

CheckedSteps ==
    {"CommandDanger", "CommandName", "CommandReadOnly", "CommandOpenInputs", "CommandLinks",
     "AppLinks", "LinkApps", "NewLinkApps", "EditRun", "EditReads", "EditConfirmed", "AllowDangerous"}

LEMMA OpensPlainStep ==
  ASSUME ScreenInv, NEW is, NEW step, NEW about, Opens(Dialog(is, step, about)),
         is # "Code", step \notin CheckedSteps
  PROVE  ScreenInv'
<1> DEFINE m == Dialog(is, step, about)
<1>1. m.is = is /\ m.step = step
  BY DEF Dialog
<1>2. Opens(m)
  OBVIOUS
<1> HIDE DEF m
<1>3. ModeOk(m, snap.file, typed)
  BY <1>1 DEF ModeOk, DraftOk, StepOk, CheckedSteps
<1>4. QED BY <1>1, <1>2, <1>3, OpensStep

LEMMA DialogFields ==
  /\ \A is, step, about : /\ Dialog(is, step, about).is = is
                          /\ Dialog(is, step, about).step = step
                          /\ Dialog(is, step, about).about = about
  /\ \A step, about, boxes : /\ Checklist(step, about, boxes).is = "Checklist"
                             /\ Checklist(step, about, boxes).step = step
                             /\ Checklist(step, about, boxes).about = about
                             /\ Checklist(step, about, boxes).boxes = boxes
BY DEF Dialog, Checklist

\* What is known of the dialog that is answered.
LEMMA AnsweredDialog ==
  ASSUME ScreenInv, NEW step, At(step)
  PROVE  mode.step = step /\ DraftOk(mode, snap.file, typed) /\ StepOk(mode, snap.file)
BY DEF ScreenInv, At, ModeOk, Dialogs

LEMMA PressAppStep ==
  ASSUME ScreenInv, PressAdd \/ PressOnApp \/ PressTry
  PROVE  ScreenInv'
<1>1. CASE PressAdd
  BY <1>1, OpensPlainStep DEF PressAdd, CheckedSteps
<1>2. CASE PressTry
  <2>1. PICK a : Opens([is |-> "Try", about |-> [app |-> a]])
    BY <1>2 DEF PressTry
  <2> DEFINE m == [is |-> "Try", about |-> [app |-> a]]
  <2>2. Quiet(m)
    BY DEF Quiet, Dialogs
  <2>3. QED BY <2>1, <2>2, OpensQuietStep
<1>3. CASE PressOnApp
  <2>1. PICK a \in Apps(snap.file) :
          \/ Opens(Dialog("Confirm", "RemoveApp", [app |-> a]))
          \/ Changes([file EXCEPT !.mcp = Put(@, a, ~snap.file.mcp[a])])
          \/ a \in DOMAIN snap.file.commands /\ Opens(Checklist("AppLinks", [app |-> a], LinkChecks(snap.file, a)))
          \/ a \in DOMAIN snap.file.commands /\ Opens(Dialog("Input", "EditRun", [app |-> a]))
          \/ a \in DOMAIN snap.file.commands /\ Opens(Dialog("Confirm", "AllowDangerous", [app |-> a]))
          \/ Opens(Dialog("Choose", "RemoveTool", [app |-> a]))
    BY <1>3 DEF PressOnApp, Runnable
  <2>2. CASE Opens(Dialog("Confirm", "RemoveApp", [app |-> a])) \/ Opens(Dialog("Choose", "RemoveTool", [app |-> a]))
    BY <2>2, OpensPlainStep DEF CheckedSteps
  <2>3. CASE Changes([file EXCEPT !.mcp = Put(@, a, ~snap.file.mcp[a])])
    BY <2>3, ScreenParts, GoodServers, ChangesStep
  <2>4. CASE a \in DOMAIN snap.file.commands /\ Opens(Checklist("AppLinks", [app |-> a], LinkChecks(snap.file, a)))
    <3> DEFINE m == Checklist("AppLinks", [app |-> a], LinkChecks(snap.file, a))
    <3>1. m.is = "Checklist" /\ m.step = "AppLinks" /\ m.about.app = a /\ m.boxes = LinkChecks(snap.file, a)
      BY DialogFields
    <3>2. Opens(m)
      BY <2>4
    <3> HIDE DEF m
    <3>3. ModeOk(m, snap.file, typed)
      BY <2>4, <3>1 DEF ModeOk, DraftOk, StepOk
    <3>4. QED BY <3>1, <3>2, <3>3, OpensStep
  <2>5. ASSUME a \in DOMAIN snap.file.commands, NEW is, NEW step, is \in Dialogs,
               step \in {"EditRun", "AllowDangerous"}, Opens(Dialog(is, step, [app |-> a]))
        PROVE  ScreenInv'
    <3> DEFINE m == Dialog(is, step, [app |-> a])
    <3>1. m.is = is /\ m.step = step /\ m.about.app = a
      BY DialogFields
    <3>2. Opens(m)
      BY <2>5
    <3> HIDE DEF m
    <3>3. ModeOk(m, snap.file, typed)
      BY <2>5, <3>1 DEF ModeOk, DraftOk, StepOk
    <3>4. QED BY <2>5, <3>1, <3>2, <3>3, OpensStep DEF Dialogs
  <2>6. QED BY <2>1, <2>2, <2>3, <2>4, <2>5 DEF Dialogs
<1>4. QED BY <1>1, <1>2, <1>3

LEMMA PressLinkStep ==
  ASSUME ScreenInv, PressOnLink
  PROVE  ScreenInv'
<1>1. CASE \E l : \/ Opens(Dialog("Confirm", "DeleteLink", [link |-> l]))
                  \/ Opens(Dialog("Confirm", "RemoveApp", [app |-> l]))
  BY <1>1, OpensPlainStep DEF CheckedSteps
<1>2. CASE Opens(Dialog("Input", "NewLinkName", [app |-> {}]))
  BY <1>2, OpensPlainStep DEF CheckedSteps
<1>3. ASSUME NEW l \in DOMAIN snap.file.links,
             Opens(Checklist("LinkApps", [link |-> l], LinkAppChecks(snap.file, l)))
      PROVE  ScreenInv'
  <2> DEFINE m == Checklist("LinkApps", [link |-> l], LinkAppChecks(snap.file, l))
  <2>1. m.is = "Checklist" /\ m.step = "LinkApps" /\ m.about.link = l /\ m.boxes = LinkAppChecks(snap.file, l)
    BY DialogFields
  <2>2. Opens(m)
    BY <1>3
  <2> HIDE DEF m
  <2>3. ModeOk(m, snap.file, typed)
    BY <2>1 DEF ModeOk, DraftOk, StepOk
  <2>4. QED BY <2>1, <2>2, <2>3, OpensStep
<1>4. QED BY <1>1, <1>2, <1>3 DEF PressOnLink

LEMMA PressClientStep ==
  ASSUME ScreenInv, PressOnClient
  PROVE  ScreenInv'
<1>1. ASSUME NEW r \in snap.store.pending, Opens(CodeOf(r)) PROVE ScreenInv'
  <2>1. CodeOf(r).is = "Code" /\ CodeOf(r).request = r
    BY DEF CodeOf
  <2>2. ModeOk(CodeOf(r), snap.file, typed)
    BY <2>1 DEF ModeOk, Dialogs
  <2>3. QED BY <1>1, <2>1, <2>2, OpensStep
<1>2. CASE \E r : StoreChanges([store EXCEPT !.pending = @ \ {r}], Normal)
  BY <1>2, StoreStep, QuietModes
<1>3. CASE \/ \E g : Opens(Dialog("Confirm", "RevokeClient", [grant |-> g]))
           \/ Opens(Dialog("Confirm", "RevokeAll", <<>>))
           \/ \E l : Opens(Dialog("Choose", "NewToken", [link |-> l]))
  BY <1>3, OpensPlainStep DEF CheckedSteps
<1>4. QED BY <1>1, <1>2, <1>3 DEF PressOnClient

\* Nothing of what the invariant speaks of changes.
LEMMA JobStep ==
  ASSUME ScreenInv, PressTunnel \/ HideJob
  PROVE  ScreenInv'
<1>1. AnswersDoWhatWasTicked' /\ UNCHANGED <<file, store, snap, mode, typed>>
  BY NothingTicked DEF PressTunnel, HideJob
<1>2. QED BY <1>1 DEF ScreenInv, CodeIsOfARequest

LEMMA DismissStep ==
  ASSUME ScreenInv, PressHelp \/ Escape \/ AddKind \/ NewLinkFromList
  PROVE  ScreenInv'
<1>1. CASE PressHelp
  <2> DEFINE m == [is |-> "Help"]
  <2>1. Quiet(m)
    BY DEF Quiet, Dialogs
  <2>2. QED BY <1>1, <2>1, OpensQuietStep DEF PressHelp
<1>2. CASE Escape
  BY <1>2, OpensQuietStep, QuietModes DEF Escape
<1>3. CASE AddKind \/ NewLinkFromList
  BY <1>3, OpensPlainStep DEF AddKind, NewLinkFromList, CheckedSteps
<1>4. QED BY <1>1, <1>2, <1>3

\* A dialog that answers "not that" and stays open.
LEMMA StaysOpenStep ==
  ASSUME ScreenInv, Opens(mode)
  PROVE  ScreenInv'
<1>1. mode' = mode /\ UNCHANGED <<file, store, snap, typed>> /\ AnswersDoWhatWasTicked'
  BY NothingTicked DEF Opens
<1>2. QED BY <1>1 DEF ScreenInv, CodeIsOfARequest

LEMMA ServersStep ==
  ASSUME ScreenInv, ServerName \/ Found
  PROVE  ScreenInv'
<1>1. CASE Opens(mode)
  BY <1>1, StaysOpenStep
<1>2. ASSUME NEW section, NEW what, Saves([file EXCEPT !.mcp = section], Message(what)),
             UNCHANGED typed, ticked' = NotTicked
      PROVE  ScreenInv'
  BY <1>2, ScreenParts, GoodServers, NothingTicked, QuietModes, SavesStep
<1>3. QED BY <1>1, <1>2 DEF ServerName, Found

LEMMA DraftStep ==
  ASSUME ScreenInv, CommandRun \/ CommandDanger \/ CommandName
  PROVE  ScreenInv'
<1>1. ASSUME NEW run, RunsCode(run), Opens(Dialog("Confirm", "CommandDanger", Draft(run)))
      PROVE  ScreenInv'
  <2> DEFINE m == Dialog("Confirm", "CommandDanger", Draft(run))
  <2>1. m.is = "Confirm" /\ m.step = "CommandDanger" /\ m.about = Draft(run)
    BY DialogFields
  <2>2. Entry(Draft(run)) /\ Draft(run).run = run
    BY DraftIs
  <2>3. Opens(m)
    BY <1>1
  <2> HIDE DEF m
  <2>4. ModeOk(m, snap.file, typed)
    BY <2>1, <2>2 DEF ModeOk, DraftOk, StepOk
  <2>5. QED BY <2>1, <2>3, <2>4, OpensStep
<1>2. ASSUME NEW run, ~RunsCode(run), Opens(Dialog("Input", "CommandName", Draft(run)))
      PROVE  ScreenInv'
  <2> DEFINE m == Dialog("Input", "CommandName", Draft(run))
  <2>1. m.is = "Input" /\ m.step = "CommandName" /\ m.about = Draft(run)
    BY DialogFields
  <2>2. Entry(Draft(run)) /\ Draft(run).run = run
    BY DraftIs
  <2>3. Opens(m)
    BY <1>2
  <2> HIDE DEF m
  <2>4. ModeOk(m, snap.file, typed)
    BY <1>2, <2>1, <2>2 DEF ModeOk, DraftOk, StepOk
  <2>5. QED BY <2>1, <2>3, <2>4, OpensStep
<1>3. CASE CommandDanger
  <2> DEFINE run == mode.about.run
             about == WithKey(mode.about)
             m == Dialog("Input", "CommandName", about)
  <2>1. mode.about = Draft(run) /\ Confirmed({run}, m)
    BY <1>3, AnsweredDialog DEF CommandDanger, DraftOk
  <2>2. about.run = run /\ Entry(about)
    BY <2>1, DraftIs, CommandChanges DEF Became
  <2>3. m.is = "Input" /\ m.step = "CommandName" /\ m.about = about
    BY DialogFields
  <2> HIDE DEF run, about, m
  <2>4. ModeOk(m, snap.file, typed \cup {run})
    BY <2>2, <2>3 DEF ModeOk, DraftOk, StepOk
  <2>5. QED BY <2>1, <2>3, <2>4, ConfirmedStep
<1>4. ASSUME CommandName, NEW name \in Names,
             Opens(Dialog("Choose", "CommandReadOnly", [app |-> name, draft |-> mode.about]))
      PROVE  ScreenInv'
  <2> DEFINE about == [app |-> name, draft |-> mode.about]
             m == Dialog("Choose", "CommandReadOnly", about)
  <2>1. Entry(mode.about) /\ (RunsCode(mode.about.run) => mode.about.run \in typed)
    BY <1>4, AnsweredDialog DEF CommandName, DraftOk
  <2>2. about.draft = mode.about /\ about.app = name
    OBVIOUS
  <2>3. m.is = "Choose" /\ m.step = "CommandReadOnly" /\ m.about = about
    BY DialogFields
  <2>4. Opens(m)
    BY <1>4
  <2> HIDE DEF about, m
  <2>5. ModeOk(m, snap.file, typed)
    BY <2>1, <2>2, <2>3 DEF ModeOk, DraftOk, StepOk
  <2>6. QED BY <2>3, <2>4, <2>5, OpensStep
<1>5. QED BY <1>1, <1>2, <1>3, <1>4, StaysOpenStep DEF CommandRun, CommandName

\* The list of links a draft is put on.
LEMMA LinksChecklistOk ==
  ASSUME NEW about, about.app \in Names, NEW words, Entry(about.draft), Safe(about.draft, words)
  PROVE  LET m == LinksChecklist(about) IN m.is = "Checklist" /\ ModeOk(m, snap.file, words)
<1> DEFINE m == LinksChecklist(about)
<1>1. /\ m.is = "Checklist" /\ m.step = "CommandLinks" /\ m.about = about
      /\ m.boxes = LinkChecks(snap.file, about.app)
  BY DialogFields DEF LinksChecklist
<1> HIDE DEF m
<1>2. ModeOk(m, snap.file, words)
  BY <1>1 DEF ModeOk, DraftOk, StepOk
<1>3. QED BY <1>1, <1>2 DEF m

LEMMA ReadOnlyStep ==
  ASSUME ScreenInv, CommandReadOnly \/ CommandOpenInputs
  PROVE  ScreenInv'
<1>1. CASE CommandReadOnly
  <2>1. PICK reads \in BOOLEAN :
          LET draft == Honest([mode.about.draft EXCEPT !.reads = reads])
              about == [app |-> mode.about.app, draft |-> draft]
          IN Opens(IF NeedsPerson(draft.run, Claims(draft)) THEN Dialog("Confirm", "CommandOpenInputs", about)
                                                            ELSE LinksChecklist(about))
    BY <1>1 DEF CommandReadOnly
  <2>2. /\ mode.about.app \in Names /\ Entry(mode.about.draft)
        /\ RunsCode(mode.about.draft.run) => mode.about.draft.run \in typed
    BY <1>1, AnsweredDialog DEF CommandReadOnly, DraftOk
  <2> DEFINE said == [mode.about.draft EXCEPT !.reads = reads]
             draft == Honest(said)
             about == [app |-> mode.about.app, draft |-> draft]
  <2>3. Entry(said) /\ said.run = mode.about.draft.run
    BY <2>2, CommandChanges DEF Became
  <2> HIDE DEF said
  <2>4. Entry(draft) /\ draft.run = mode.about.draft.run /\ Truthful(draft)
    BY <2>3, HonestIs
  <2>5. Opens(IF NeedsPerson(draft.run, Claims(draft)) THEN Dialog("Confirm", "CommandOpenInputs", about)
                                                       ELSE LinksChecklist(about))
    BY <2>1 DEF said
  <2> HIDE DEF draft
  <2>6. about.app = mode.about.app /\ about.draft = draft
    OBVIOUS
  <2> HIDE DEF about
  <2>7. CASE NeedsPerson(draft.run, Claims(draft))
    <3> DEFINE m == Dialog("Confirm", "CommandOpenInputs", about)
    <3>1. m.is = "Confirm" /\ m.step = "CommandOpenInputs" /\ m.about = about
      BY DialogFields
    <3>2. Opens(m)
      BY <2>5, <2>7
    <3> HIDE DEF m
    <3>3. ModeOk(m, snap.file, typed)
      BY <2>2, <2>4, <2>6, <3>1 DEF ModeOk, DraftOk, StepOk
    <3>4. QED BY <3>1, <3>2, <3>3, OpensStep
  <2>8. CASE ~NeedsPerson(draft.run, Claims(draft))
    <3>1. Safe(draft, typed)
      BY <2>2, <2>4, <2>8 DEF Safe
    <3>2. QED BY <2>2, <2>4, <2>5, <2>6, <2>8, <3>1, LinksChecklistOk, OpensStep
  <2>9. QED BY <2>7, <2>8
<1>2. CASE CommandOpenInputs
  <2>1. /\ Confirmed({mode.about.draft.run}, LinksChecklist(mode.about))
        /\ mode.about.app \in Names /\ Entry(mode.about.draft) /\ Truthful(mode.about.draft)
    BY <1>2, AnsweredDialog DEF CommandOpenInputs, DraftOk
  <2>2. Safe(mode.about.draft, typed \cup {mode.about.draft.run})
    BY <2>1 DEF Safe
  <2>3. QED BY <2>1, <2>2, LinksChecklistOk, ConfirmedStep
<1>3. QED BY <1>1, <1>2

LEMMA CommandLinksStep ==
  ASSUME ScreenInv, CommandLinks
  PROVE  ScreenInv'
<1> DEFINE d == mode.about
           c == d.draft
<1>1. /\ mode.step = "CommandLinks" /\ d.app \in Names /\ Entry(c) /\ Safe(c, typed)
      /\ mode.boxes = LinkChecks(snap.file, d.app)
  BY AnsweredDialog DEF CommandLinks, DraftOk
<1>4. CASE Opens(Message("Couldn't add it"))
  BY <1>4, OpensQuietStep, QuietModes
<1>5. ASSUME NEW picked \in Pickings, Answers(AddCommand(file, d.app, c, picked), picked, Message("Added"))
      PROVE  ScreenInv'
  <2> DEFINE f == AddCommand(file, d.app, c, picked)
             h == [file EXCEPT !.commands = Put(@, d.app, c)]
             boxes == mode.boxes
  <2>1. d.app # "*"
    BY <1>1, NamesAssumption
  <2>2. Good(f, typed) /\ Good(h, typed)
    BY <1>1, <2>1, ScreenParts, GoodAddCommand, GoodCommand
  <2>3. /\ Pairs(boxes.shown \ boxes.locked) = (boxes.shown \ boxes.locked) \X {d.app}
        /\ Pairs(boxes.locked) = boxes.locked \X {d.app}
        /\ Pairs(picked \ boxes.locked) = (picked \ boxes.locked) \X {d.app}
    BY <1>1 DEF Pairs
  <2>4. boxes.locked \subseteq picked /\ picked \subseteq boxes.shown
    <3>1. boxes.locked \subseteq boxes.shown
      BY <1>1 DEF LinkChecks, Boxes
    <3>2. QED BY <1>5, <3>1 DEF Pickings
  <2>5. /\ f = SetLinksOf(h, h, d.app, picked)
        /\ h.links = file.links /\ DOMAIN h.commands = DOMAIN file.commands \cup {d.app}
    BY ScreenParts DEF AddCommand, FileOk, Put
  <2>6. Answers(f, picked, Message("Added"))
    BY <1>5
  <2> HIDE DEF f, h
  <2>7. ASSUME snap.file = file
        PROVE  AsTicked(file, f, Pairs(boxes.shown \ boxes.locked), Pairs(boxes.locked), Pairs(picked \ boxes.locked))
    <3>1. FileOk(file) /\ FileOk(h) /\ boxes = LinkChecks(file, d.app)
      BY <1>1, <2>2, <2>7, ScreenParts DEF Good
    <3> HIDE DEF d, boxes
    <3>2. AsTicked(file, SetLinksOf(h, h, d.app, picked), (boxes.shown \ boxes.locked) \X {d.app},
                   boxes.locked \X {d.app}, (picked \ boxes.locked) \X {d.app})
      BY <2>1, <2>4, <2>5, <3>1, TickedLinks
    <3>3. QED BY <2>3, <2>5, <3>2
  <2>8. QED BY <2>2, <2>6, <2>7, AnswersStep, QuietModes
<1>6. QED BY <1>4, <1>5 DEF CommandLinks

LEMMA NewLinkNameStep ==
  ASSUME ScreenInv, NewLinkName
  PROVE  ScreenInv'
<1>1. ASSUME NEW l, NEW X, Opens(Checklist("NewLinkApps", [link |-> l], NewLinkChecks(snap.file, X)))
      PROVE  ScreenInv'
  <2> DEFINE m == Checklist("NewLinkApps", [link |-> l], NewLinkChecks(snap.file, X))
  <2>1. m.is = "Checklist" /\ m.step = "NewLinkApps" /\ m.boxes = NewLinkChecks(snap.file, X)
    BY DialogFields
  <2>2. Opens(m)
    BY <1>1
  <2> HIDE DEF m
  <2>3. ModeOk(m, snap.file, typed)
    BY <2>1 DEF ModeOk, DraftOk, StepOk
  <2>4. QED BY <2>1, <2>2, <2>3, OpensStep
<1>2. QED BY <1>1, StaysOpenStep DEF NewLinkName

LEMMA AppLinksStep ==
  ASSUME ScreenInv, AppLinks
  PROVE  ScreenInv'
<1> DEFINE name == mode.about.app
           boxes == mode.boxes
<1>1. mode.step = "AppLinks" /\ name \in DOMAIN snap.file.commands /\ boxes = LinkChecks(snap.file, name)
  BY AnsweredDialog DEF AppLinks, StepOk
<1>2. name # "*"
  BY <1>1, ScreenParts DEF FileOk
<1>3. CASE Opens(Normal)
  BY <1>3, OpensQuietStep, QuietModes
<1>4. ASSUME NEW picked \in Pickings, Answers(SetLinksOf(file, snap.file, name, picked), picked, Normal)
      PROVE  ScreenInv'
  <2> DEFINE f == SetLinksOf(file, snap.file, name, picked)
  <2>1. Good(f, typed)
    BY <1>2, ScreenParts, GoodSetLinksOf DEF FileOk
  <2>2. /\ Pairs(boxes.shown \ boxes.locked) = (boxes.shown \ boxes.locked) \X {name}
        /\ Pairs(boxes.locked) = boxes.locked \X {name}
        /\ Pairs(picked \ boxes.locked) = (picked \ boxes.locked) \X {name}
    BY <1>1 DEF Pairs
  <2>3. boxes.locked \subseteq picked /\ picked \subseteq boxes.shown
    <3>1. boxes.locked \subseteq boxes.shown
      BY <1>1 DEF LinkChecks, Boxes
    <3>2. QED BY <1>4, <3>1 DEF Pickings
  <2>4. Answers(f, picked, Normal)
    BY <1>4
  <2>5. ASSUME snap.file = file
        PROVE  AsTicked(file, f, Pairs(boxes.shown \ boxes.locked), Pairs(boxes.locked), Pairs(picked \ boxes.locked))
    <3>1. FileOk(file) /\ boxes = LinkChecks(file, name) /\ f = SetLinksOf(file, file, name, picked)
      BY <1>1, <2>5, ScreenParts
    <3>2. DOMAIN file.commands = DOMAIN file.commands \cup {name}
      BY <1>1, <2>5
    <3> HIDE DEF name, boxes, f
    <3>3. AsTicked(file, SetLinksOf(file, file, name, picked), (boxes.shown \ boxes.locked) \X {name},
                   boxes.locked \X {name}, (picked \ boxes.locked) \X {name})
      BY <1>2, <2>3, <3>1, <3>2, TickedLinks
    <3>4. QED BY <2>2, <3>1, <3>3
  <2> HIDE DEF f
  <2>6. QED BY <2>1, <2>4, <2>5, AnswersStep, QuietModes
<1>5. QED BY <1>3, <1>4 DEF AppLinks

LEMMA NewLinkAppsStep ==
  ASSUME ScreenInv, NewLinkApps
  PROVE  ScreenInv'
<1>1. PICK X : mode.boxes = NewLinkChecks(snap.file, X) /\ mode.step = "NewLinkApps"
  BY AnsweredDialog DEF NewLinkApps, StepOk
<1>2. PICK picked \in Pickings :
        LET members == {a \in picked : ~OnEveryLink(snap.file, a)}
        IN Answers(NewLink(file, mode.about.link, members), picked, Normal)
  BY DEF NewLinkApps
<1> DEFINE boxes == mode.boxes
           l == mode.about.link
           members == {a \in picked : ~OnEveryLink(snap.file, a)}
           f == NewLink(file, l, members)
<1>3. /\ boxes.shown = DOMAIN snap.file.commands
      /\ boxes.locked = {a \in DOMAIN snap.file.commands : OnEveryLink(snap.file, a)}
  BY <1>1 DEF NewLinkChecks, Boxes
<1>4. picked \subseteq DOMAIN snap.file.commands
  BY <1>2, <1>3 DEF Pickings
<1>5. members \subseteq picked /\ members \ boxes.locked = picked \ boxes.locked
  BY <1>3, <1>4
<1>6. \A S : Pairs(S) = {l} \X S
  BY <1>1 DEF Pairs
<1>7. Answers(f, picked, Normal)
  BY <1>2
<1> HIDE DEF members
<1>8. Good(f, typed)
  BY <1>4, <1>5, ScreenParts, GoodNewLink DEF FileOk
<1>9. ASSUME snap.file = file
      PROVE  AsTicked(file, f, Pairs(boxes.shown \ boxes.locked), Pairs(boxes.locked), Pairs(picked \ boxes.locked))
  <2> DEFINE locked == boxes.locked
  <2>1. ListsApps(file, f, l, members, locked, picked)
    BY <1>4, <1>5, <1>9 DEF ListsApps
  <2> HIDE DEF boxes, l, f, locked
  <2>2. AsTicked(file, f, {l} \X (DOMAIN file.commands \ locked), {l} \X locked, {l} \X (picked \ locked))
    BY <2>1, ScreenParts, TickedApps
  <2>3. QED BY <1>3, <1>6, <1>9, <2>2 DEF locked
<1> HIDE DEF f
<1>10. QED BY <1>7, <1>8, <1>9, AnswersStep, QuietModes

LEMMA LinkAppsStep ==
  ASSUME ScreenInv, LinkApps
  PROVE  ScreenInv'
<1> DEFINE boxes == mode.boxes
           l == mode.about.link
           all == l \in DOMAIN snap.file.links /\ snap.file.links[l] = All
           members(picked) == {a \in picked : ~OnEveryLink(snap.file, a) \/ all}
<1>1. mode.step = "LinkApps" /\ l \in DOMAIN snap.file.links /\ boxes = LinkAppChecks(snap.file, l)
  BY AnsweredDialog DEF LinkApps, StepOk
<1>2. CASE Opens(Normal)
  BY <1>2, OpensQuietStep, QuietModes
<1>3. ASSUME NEW picked \in Pickings, NEW f,
             f \in {NewLink(file, l, members(picked)), SetMembers(file, l, members(picked))},
             Answers(f, picked, Normal)
      PROVE  ScreenInv'
  <2>1. /\ boxes.shown = DOMAIN snap.file.commands
        /\ boxes.locked = IF all THEN {} ELSE {a \in DOMAIN snap.file.commands : OnEveryLink(snap.file, a)}
    BY <1>1 DEF LinkAppChecks, Boxes
  <2>2. picked \subseteq DOMAIN snap.file.commands
    BY <1>3, <2>1 DEF Pickings
  <2>3. members(picked) \subseteq picked /\ members(picked) \ boxes.locked = picked \ boxes.locked
    <3>1. CASE all
      BY <2>1, <2>2, <3>1
    <3>2. CASE ~all
      <4> HIDE DEF all
      <4>1. QED BY <2>1, <2>2, <3>2
    <3>3. QED BY <3>1, <3>2
  <2>4. \A S : Pairs(S) = {l} \X S
    BY <1>1 DEF Pairs
  <2> HIDE DEF members, l, boxes
  <2>5. Good(f, typed)
    BY <1>3, <2>2, <2>3, ScreenParts, GoodNewLink, GoodSetMembers DEF FileOk
  <2>6. ASSUME snap.file = file
        PROVE  AsTicked(file, f, Pairs(boxes.shown \ boxes.locked), Pairs(boxes.locked),
                        Pairs(picked \ boxes.locked))
    <3> DEFINE locked == boxes.locked
               new == members(picked)
    <3>1. ListsApps(file, f, l, new, locked, picked)
      BY <1>3, <2>2, <2>3, <2>6 DEF ListsApps
    <3> HIDE DEF locked, new
    <3>2. AsTicked(file, f, {l} \X (DOMAIN file.commands \ locked), {l} \X locked, {l} \X (picked \ locked))
      BY <3>1, ScreenParts, TickedApps
    <3>3. QED BY <2>1, <2>4, <2>6, <3>2 DEF locked
  <2>7. QED BY <1>3, <2>5, <2>6, AnswersStep, QuietModes DEF boxes
<1>4. QED BY <1>2, <1>3 DEF LinkApps

LEMMA EditStep ==
  ASSUME ScreenInv, EditRun \/ EditReads \/ EditConfirmed
  PROVE  ScreenInv'
<1> DEFINE name == mode.about.app
<1>1. ASSUME NEW run, ~RunsCode(run), NEW m, name \in DOMAIN snap.file.commands, Opens(m),
             m.is \in Dialogs, m.step \in {"EditReads", "EditConfirmed"}, m.about.app = name, m.about.run = run
      PROVE  ScreenInv'
  <2>1. ModeOk(m, snap.file, typed)
    BY <1>1 DEF ModeOk, DraftOk, StepOk
  <2>2. QED BY <1>1, <2>1, OpensStep DEF Dialogs
<1>2. CASE EditRun
  <2>1. name \in DOMAIN snap.file.commands
    BY <1>2, AnsweredDialog DEF EditRun, StepOk
  <2>2. ASSUME NEW run, ~RunsCode(run), Opens(Dialog("Choose", "EditReads", [app |-> name, run |-> run]))
        PROVE  ScreenInv'
    <3> DEFINE m == Dialog("Choose", "EditReads", [app |-> name, run |-> run])
    <3>1. m.is = "Choose" /\ m.step = "EditReads" /\ m.about.app = name /\ m.about.run = run
      BY DialogFields
    <3>2. Opens(m)
      BY <2>2
    <3> HIDE DEF m, name
    <3>3. QED BY <1>1, <2>1, <2>2, <3>1, <3>2 DEF Dialogs
  <2>3. QED BY <1>2, <2>2, StaysOpenStep DEF EditRun
<1>3. CASE EditReads \/ EditConfirmed
  <2>1. name \in DOMAIN snap.file.commands /\ ~RunsCode(mode.about.run)
    BY <1>3, AnsweredDialog DEF EditReads, EditConfirmed, StepOk
  <2>2. Entry(Current) /\ Safe(Current, typed) /\ name # "*"
    BY <2>1, ScreenParts DEF Good, FileOk, Current
  <2> DEFINE run == mode.about.run
  <2>3. \A reads : Became(Edited(run, reads), run, reads, Current.resource)
    BY <2>2, CommandChanges DEF Edited
  <2>4. CASE EditReads
    <3>1. PICK reads \in BOOLEAN :
            LET draft == Honest(Edited(run, reads))
            IN IF NeedsPerson(run, Claims(draft)) /\ ~AskedBefore(run)
                 THEN Opens(Dialog("Confirm", "EditConfirmed", mode.about))
                 ELSE Changes(EditTool(file, name, draft))
      BY <2>4 DEF EditReads
    <3> DEFINE draft == Honest(Edited(run, reads))
    <3>2. Entry(draft) /\ draft.run = run /\ Truthful(draft)
      BY <2>3, HonestIs DEF Became
    <3>3. IF NeedsPerson(run, Claims(draft)) /\ ~AskedBefore(run)
            THEN Opens(Dialog("Confirm", "EditConfirmed", mode.about))
            ELSE Changes(EditTool(file, name, draft))
      BY <3>1
    <3> HIDE DEF draft
    <3>4. CASE NeedsPerson(run, Claims(draft)) /\ ~AskedBefore(run)
      <4> DEFINE m == Dialog("Confirm", "EditConfirmed", mode.about)
      <4>1. m.is = "Confirm" /\ m.step = "EditConfirmed" /\ m.about = mode.about
        BY DialogFields
      <4>2. Opens(m)
        BY <3>3, <3>4
      <4> HIDE DEF m
      <4>3. QED BY <1>1, <2>1, <4>1, <4>2 DEF Dialogs
    <3>5. CASE ~(NeedsPerson(run, Claims(draft)) /\ ~AskedBefore(run))
      <4>1. NeedsPerson(run, Claims(draft)) => run \in typed
        BY <2>2, <3>5 DEF AskedBefore, Safe
      <4>2. Safe(draft, typed)
        BY <2>1, <3>2, <4>1 DEF Safe
      <4>3. Good(EditTool(file, name, draft), typed)
        BY <2>2, <3>2, <4>2, ScreenParts, GoodEditTool
      <4>4. QED BY <3>3, <3>5, <4>3, ChangesStep
    <3>6. QED BY <3>4, <3>5
  <2>5. CASE EditConfirmed
    <3> DEFINE now == typed \cup {run}
               c == Edited(run, FALSE)
               f == EditTool(file, name, c)
    <3>1. typed' = now /\ ticked' = NotTicked /\ Saves(f, Normal)
      BY <2>5 DEF EditConfirmed
    <3>2. Entry(c) /\ c.run = run /\ ~c.reads
      <4>1. Became(c, run, FALSE, Current.resource)
        BY <2>3
      <4>2. QED BY <4>1 DEF Became
    <3> HIDE DEF c
    <3>3. Safe(c, now)
      BY <3>2 DEF Safe, Truthful, Claims, Compiles
    <3>4. Good(file, now)
      BY ScreenParts, GoodMore
    <3> HIDE DEF now
    <3>5. Good(f, now)
      BY <2>2, <3>2, <3>3, <3>4, GoodEditTool
    <3> HIDE DEF f
    <3>6. QED BY <3>1, <3>5, NothingTicked, QuietModes, SavesStep
  <2>6. QED BY <1>3, <2>4, <2>5
<1>4. QED BY <1>2, <1>3

LEMMA RemoveStep ==
  ASSUME ScreenInv, RemoveTool \/ RemoveAppStep
  PROVE  ScreenInv'
<1>1. CASE Changes(RemoveApp(file, snap.file, mode.about.app))
  BY <1>1, ScreenParts, GoodRemoveApp, ChangesStep DEF FileOk
<1>2. ASSUME NEW what, Opens(Message(what)) PROVE ScreenInv'
  BY <1>2, OpensQuietStep, QuietModes
<1>3. QED BY <1>1, <1>2 DEF RemoveTool, RemoveAppStep

LEMMA AllowStep ==
  ASSUME ScreenInv, AllowDangerousStep
  PROVE  ScreenInv'
<1> DEFINE a == mode.about.app
<1>1. a \in DOMAIN snap.file.commands
  BY AnsweredDialog DEF AllowDangerousStep, StepOk
<1>2. Entry(Current) /\ Safe(Current, typed) /\ a # "*"
  BY <1>1, ScreenParts DEF Good, FileOk, Current
<1>3. ASSUME NEW line, Changes(AllowDangerous(file, a, Current, line)) PROVE ScreenInv'
  BY <1>2, <1>3, ScreenParts, GoodAllowDangerous, ChangesStep
<1>4. CASE StoreChanges(store, Message("Couldn't change that"))
  BY <1>4, QuietModes, StoreStep
<1>5. QED BY <1>3, <1>4 DEF AllowDangerousStep

LEMMA DeleteLinkStep ==
  ASSUME ScreenInv, DeleteLink
  PROVE  ScreenInv'
<1> DEFINE f == WithoutLink(file, mode.about.link)
<1>1. typed' = typed /\ ticked' = NotTicked /\ Saves(f, Normal)
  BY DEF DeleteLink
<1>2. Good(f, typed)
  BY ScreenParts, GoodWithoutLink
<1> HIDE DEF f
<1>3. QED BY <1>1, <1>2, NothingTicked, QuietModes, SavesStep

LEMMA ClientsStep ==
  ASSUME ScreenInv, RevokeClient \/ RevokeAll \/ NewToken \/ DenyShown
  PROVE  ScreenInv'
<1>1. ASSUME NEW s, NEW m, Quiet(m), StoreChanges(s, m) PROVE ScreenInv'
  BY <1>1, StoreStep
<1>2. QED BY <1>1, QuietModes DEF RevokeClient, RevokeAll, NewToken, DenyShown

LEMMA ClockStep ==
  ASSUME ScreenInv, Tick \/ FinishJob
  PROVE  ScreenInv'
<1>1. UNCHANGED <<file, typed>> /\ AnswersDoWhatWasTicked'
  BY NothingTicked DEF Tick, FinishJob
<1>2. CASE Tick
  BY <1>1, <1>2, ScreenParts, RefreshStep DEF Tick, RefreshesIn, Dialogs
<1>3. CASE FinishJob
  BY <1>1, <1>3, ScreenParts, RefreshStep, QuietModes DEF FinishJob, Quiet
<1>4. QED BY <1>2, <1>3

LEMMA OthersStep ==
  ASSUME ScreenInv, OtherEdits \/ Asks \/ Decided
  PROVE  ScreenInv'
<1>1. ASSUME World, UNCHANGED typed, Good(file', typed) PROVE ScreenInv'
  <2>1. typed' = typed \cup {}
    BY <1>1
  <2>2. QED BY <1>1, <2>1, WorldStep
<1>2. CASE Asks \/ Decided
  BY <1>1, <1>2, ScreenParts DEF Asks, Decided
<1>3. CASE OtherEdits
  <2>1. ASSUME NEW l, NEW members \in (SUBSET (DOMAIN file.commands)) \cup {All}, file' = NewLink(file, l, members)
        PROVE  Good(file', typed)
    BY <2>1, ScreenParts, GoodNewLink DEF FileOk
  <2>2. ASSUME NEW l, file' = WithoutLink(file, l) PROVE Good(file', typed)
    BY <2>2, ScreenParts, GoodWithoutLink
  <2>3. ASSUME NEW a, file' = RemoveApp(file, file, a) PROVE Good(file', typed)
    BY <2>3, ScreenParts, GoodRemoveApp DEF FileOk
  <2>4. ASSUME NEW section, file' = [file EXCEPT !.mcp = section] PROVE Good(file', typed)
    BY <2>4, ScreenParts, GoodServers
  <2>5. ASSUME World, NEW a \in Names \cup DOMAIN file.commands, NEW run,
               file' = EditTool(file, a, Draft(run)), typed' = typed \cup {run}
        PROVE  ScreenInv'
    <3> DEFINE now == typed \cup {run}
    <3>1. Entry(Draft(run)) /\ Safe(Draft(run), now)
      BY SafeDraft
    <3>2. Good(file, now) /\ a # "*"
      BY ScreenParts, GoodMore, NamesAssumption DEF FileOk
    <3> HIDE DEF now
    <3>3. Good(file', typed')
      BY <2>5, <3>1, <3>2, GoodEditTool DEF now
    <3>4. QED BY <2>5, <3>3, WorldStep
  <2>6. QED BY <1>1, <1>3, <2>1, <2>2, <2>3, <2>4, <2>5 DEF OtherEdits
<1>4. QED BY <1>2, <1>3

-----------------------------------------------------------------------------
LEMMA ScreenInitInv == ScreenInit => ScreenInv
<1> SUFFICES ASSUME ScreenInit PROVE ScreenInv
  OBVIOUS
<1>1. /\ file = Initially /\ snap.file = Initially /\ mode = Normal /\ ticked = NotTicked
      /\ typed = {Initially.commands[a].run : a \in DOMAIN Initially.commands}
  BY DEF ScreenInit, Taken
<1>2. FileOk(Initially)
  BY InitiallyAssumption DEF FileOk, Entry, Command
<1>3. \A a \in DOMAIN Initially.commands : Safe(Initially.commands[a], typed)
  BY <1>1, InitiallyAssumption DEF Safe, Truthful, Claims, Compiles
<1>4. Good(file, typed) /\ Good(snap.file, typed)
  BY <1>1, <1>2, <1>3 DEF Good
<1>5. ModeOk(mode, snap.file, typed) /\ CodeIsOfARequest
  BY <1>1 DEF ModeOk, CodeIsOfARequest, Normal, Dialogs
<1>6. AnswersDoWhatWasTicked
  BY <1>1 DEF AnswersDoWhatWasTicked, NotTicked
<1>7. QED BY <1>4, <1>5, <1>6 DEF ScreenInv

LEMMA ScreenNextInv == ScreenInv /\ [ScreenNext]_screenVars => ScreenInv'
<1> SUFFICES ASSUME ScreenInv, [ScreenNext]_screenVars PROVE ScreenInv'
  OBVIOUS
<1>1. CASE UNCHANGED screenVars
  <2>1. UNCHANGED <<file, snap, mode, typed, ticked>>
    BY <1>1 DEF screenVars
  <2>2. QED BY <2>1 DEF ScreenInv, CodeIsOfARequest, AnswersDoWhatWasTicked
<1>2. CASE ScreenNext
  BY <1>2, PressAppStep, PressLinkStep, PressClientStep, JobStep, DismissStep, ServersStep, DraftStep,
     ReadOnlyStep, CommandLinksStep, NewLinkNameStep, NewLinkAppsStep, AppLinksStep, LinkAppsStep,
     EditStep, RemoveStep, AllowStep, DeleteLinkStep, ClientsStep, ClockStep, OthersStep
  DEF ScreenNext
<1>3. QED BY <1>1, <1>2

\* The inductive invariant of the screen holds in every reachable state.
THEOREM ScreenInvariance == ScreenSpec => []ScreenInv
<1>1. QED BY ScreenInitInv, ScreenNextInv, PTL DEF ScreenSpec

\* A list of boxes does what it shows and nothing else (answer.rs).
THEOREM AnswersAreTicked == ScreenSpec => []AnswersDoWhatWasTicked
<1>1. QED BY ScreenInvariance, PTL DEF ScreenInv

\* A command that runs code or takes free text is written once a person typed a
\* word for it, and one that deletes is told to only read by a resource, which is
\* refused when the file is loaded, and by nothing else (answer.rs, spec.rs).
THEOREM DangerNeedsAPerson == ScreenSpec => []DangerIsConfirmed
<1>1. ScreenInv => DangerIsConfirmed
  BY DEF ScreenInv, Good, Safe, Truthful, DangerIsConfirmed
<1>2. QED BY ScreenInvariance, <1>1, PTL

\* The code on the screen is of a request that waited at the last look (mod.rs).
THEOREM CodesAreOfRequests == ScreenSpec => []CodeIsOfARequest
<1>1. QED BY ScreenInvariance, PTL DEF ScreenInv
=============================================================================
