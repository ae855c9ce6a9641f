----------------------------- MODULE AiAnswers -----------------------------
(***************************************************************************)
(* Asking the AI for help that costs money (ai.ts explain and assess over  *)
(* AiCache and AiRequestGenerationJournal).  A request looks in the        *)
(* window's memory, then in the cache, and only then goes to the provider, *)
(* under an identity that all windows share.  Meanwhile the learner may    *)
(* clear the cache in any window, change the account, the payer or the     *)
(* prompt settings, and buy a replacement for an answer that was lost.     *)
(*                                                                         *)
(* The server is external: it charges an identity once and then only says  *)
(* that it has been answered.                                              *)
(*                                                                         *)
(* One route stands for one question in one exercise, asked with one payer,*)
(* model and settings; the identity in fact leaves out the payer and adds  *)
(* the exercise to what the cache key has.                                 *)
(***************************************************************************)
EXTENDS AiCache

CONSTANTS MaxAsks,   \* bound: requests for help, replacements apart
          MaxClears, \* bound: clears begun
          MaxEvents, \* bound: changes of route or focus, lost replies, storage failures
          MaxActs    \* bound: all of these together

ASSUME BoundsAssumption == MaxClears \in Nat

VARIABLES route,    \* per window, the route its next request would take
          memory,   \* per window, explainCache and assessCache
          ask,      \* per window, the request under way
          offered,  \* per window, the loss shown, for which a replacement is offered
          inbox,    \* per window, metadata changes of other windows not yet seen
          journal   \* per route, generation and identity of the paid request

VARIABLES charged,    \* external: identities the provider was paid for
          confirmed,  \* generations a window was told are answered already
          cleared,    \* per account, the clears that are done
          heard,      \* per window and account, the clears it was notified of
          stored,     \* the answers that were ever stored in the cache
          answers, asks, clears, events

windowVars == <<route, memory, ask, offered>>
ghostVars == <<confirmed, cleared, heard, stored>>
counters == <<answers, asks, clears, events>>
vars == <<cacheVars, windowVars, inbox, journal, charged, ghostVars, counters>>

(* The view keeps the generation of a loss only; its route is a ghost, and  *)
(* so is after, the loss that was shown where an identity was drawn.        *)
Loss == [route : Route, gen : Nat]
Identity == [route : Route, gen : Nat, by : Window, after : Loss \cup {None}]
NoAsk == [pc |-> "idle", route |-> None, id |-> None, found |-> None,
          fenced |-> FALSE, token |-> None, asked |-> 0, answer |-> None]

TypeOK ==
    /\ CacheTypeOK
    /\ route \in [Window -> Route]
    /\ \A w \in Window :
          /\ ask[w].pc \in {"idle", "look", "got", "wait", "served", "storing"}
          /\ ask[w].route \in Route \cup {None}
          /\ ask[w].id # None => ask[w].id \in Identity /\ ask[w].id.route = ask[w].route
          /\ offered[w] # None => offered[w] \in Loss
          /\ \A r \in Route : memory[w][r] # None => memory[w][r] \in Answer
    /\ inbox \in [Window -> SUBSET [account : Account, clears : 0..MaxClears]]
    /\ \A r \in Route : journal[r] # None => journal[r] \in Identity /\ journal[r].route = r
    /\ charged \subseteq Identity

Init ==
    /\ CacheInit
    /\ \E r \in Route : route = [w \in Window |-> r]
    /\ memory = [w \in Window |-> [r \in Route |-> None]]
    /\ ask = [w \in Window |-> NoAsk]
    /\ offered = [w \in Window |-> None]
    /\ inbox = [w \in Window |-> {}]
    /\ journal = [r \in Route |-> None]
    /\ charged = {} /\ confirmed = {}
    /\ cleared = [a \in Account |-> 0]
    /\ heard = [w \in Window |-> [a \in Account |-> 0]]
    /\ stored = {}
    /\ answers = 0 /\ asks = 0 /\ clears = 0 /\ events = 0

-----------------------------------------------------------------------------
(* The identity of a paid request.                                          *)

Candidate(w, r, gen) ==
    [route |-> r, gen |-> gen, by |-> w, after |-> IF gen = 0 THEN None ELSE offered[w]]

(* Faulty variant: a replacement is one more than whatever is current.      *)
AdvanceAnyway(w, r, expected) ==
    Candidate(w, r, IF journal[r] = None THEN 1 ELSE journal[r].gen + 1)

(* advance: from the generation the window has seen lost to the next one,   *)
(* or to what another window made of it.                                    *)
Advance(w, r, expected) ==
    LET seen == IF journal[r] = None THEN 0 ELSE journal[r].gen
    IN CASE seen = expected -> Candidate(w, r, expected + 1)
         [] seen = expected + 1 -> journal[r]
         [] OTHER -> None

(* Faulty variant: the identity is not shared.                              *)
CurrentAlways(w, r) == Candidate(w, r, 0)

(* current: the identity all windows use until the answer is known lost.    *)
Current(w, r) == IF journal[r] = None THEN Candidate(w, r, 0) ELSE journal[r]

-----------------------------------------------------------------------------
(* One request, await by await.                                             *)

More == asks + clears + events < MaxActs
Bounded == More /\ events < MaxEvents /\ events' = events + 1

Continue(w, a) == ask' = [ask EXCEPT ![w] = a]
End(w) == Continue(w, NoAsk)

(* paidOperationIsCurrent: account, payer, model and settings.              *)
IsCurrent(w) == route[w] = ask[w].route

(* paidCacheRouteUnchanged: what another account has paid for may still be  *)
(* stored for it.                                                           *)
RouteUnchanged(w) == Owner[route[w]] = Owner[ask[w].route] => IsCurrent(w)

Remember(w, answer) == memory' = [memory EXCEPT ![w][answer.route] = answer]

(* The request is given its identity (withStableRequestId).                 *)
AskFor(w, id) ==
    /\ ask[w].pc = "idle"
    /\ IF id = None THEN UNCHANGED <<ask, journal>>
       ELSE /\ Continue(w, [NoAsk EXCEPT !.pc = "look", !.route = route[w], !.id = id])
            /\ journal' = [journal EXCEPT ![route[w]] = id]
    /\ offered' = [offered EXCEPT ![w] = None]
    /\ UNCHANGED <<cacheVars, route, memory, inbox, charged, ghostVars, answers, clears, events>>

AskForHelp(w) ==
    /\ More /\ asks < MaxAsks /\ asks' = asks + 1
    /\ AskFor(w, Current(w, route[w]))

(* A replacement is bought where a loss was shown, of the request that the  *)
(* window would send now: the offer is a bare generation.                   *)
Replace(w) ==
    /\ offered[w] # None
    /\ AskFor(w, Advance(w, route[w], offered[w].gen))
    /\ UNCHANGED asks

(* First the window's memory, then the cache.                               *)
Look(w) ==
    LET a == ask[w]
    IN /\ a.pc = "look"
       /\ IF ~IsCurrent(w) \/ memory[w][a.route] # None THEN End(w)
          ELSE Continue(w, [a EXCEPT !.pc = "got", !.found = CacheGet(a.route), !.fenced = FALSE])
       /\ UNCHANGED <<cacheVars, route, memory, offered, inbox, journal, charged, ghostVars,
                      counters>>

(* A clear noticed since the read began makes the answer found unusable.    *)
Usable(w) == ask[w].found # None /\ ~ask[w].fenced

UseFound(w) ==
    /\ ask[w].pc = "got" /\ (Usable(w) \/ ~IsCurrent(w))
    /\ IF IsCurrent(w) THEN Remember(w, ask[w].found) ELSE UNCHANGED memory
    /\ End(w)
    /\ UNCHANGED <<cacheVars, route, offered, inbox, journal, charged, ghostVars, counters>>

(* captureWriteToken, before the request goes out.                          *)
SendWith(w, token) ==
    /\ ask[w].pc = "got" /\ ~Usable(w) /\ IsCurrent(w)
    /\ Continue(w, [ask[w] EXCEPT !.pc = "wait", !.found = None, !.fenced = FALSE,
                                  !.token = token, !.asked = cleared[Owner[route[w]]]])
    /\ UNCHANGED <<cacheVars, route, memory, offered, inbox, journal, charged, ghostVars,
                   answers, asks, clears>>

Send(w) == SendWith(w, epoch[Owner[route[w]]]) /\ UNCHANGED events
SendWithoutToken(w) == SendWith(w, None) /\ Bounded

(* The answer is stored unless a clear was noticed, the route was changed   *)
(* or there is no token.                                                    *)
Receive(w) ==
    LET a == ask[w]
        answer == [route |-> a.route, stamp |-> answers + 1, asked |-> a.asked]
    IN /\ a.pc = "served"
       /\ IF ~a.fenced /\ RouteUnchanged(w) /\ a.token # None
          THEN /\ task' = [task EXCEPT ![<<w, "ask">>] = SetTask(answer, a.token)]
               /\ Continue(w, [NoAsk EXCEPT !.pc = "storing", !.route = a.route, !.answer = answer])
               /\ answers' = answers + 1
          ELSE End(w) /\ UNCHANGED <<task, answers>>
       /\ UNCHANGED <<epoch, row, route, memory, offered, inbox, journal, charged, ghostVars,
                      asks, clears, events>>

(* Faulty variant: the answer is kept in memory whatever happened.          *)
KeepAnyway(w) ==
    LET a == ask[w]
    IN /\ a.pc = "storing" /\ task[<<w, "ask">>].pc \in {"stored", "failed", "invalid"}
       /\ Remember(w, a.answer)
       /\ task' = [task EXCEPT ![<<w, "ask">>] = Idle]
       /\ End(w)
       /\ UNCHANGED <<epoch, row, route, offered, inbox, journal, charged, ghostVars, counters>>

(* An answer that could not be stored is still kept, a cleared one is not.  *)
KeepAnswer(w) ==
    LET a == ask[w]
    IN /\ a.pc = "storing" /\ task[<<w, "ask">>].pc \in {"stored", "failed", "invalid"}
       /\ IF task[<<w, "ask">>].pc # "invalid" /\ ~a.fenced /\ RouteUnchanged(w)
          THEN Remember(w, a.answer) ELSE UNCHANGED memory
       /\ task' = [task EXCEPT ![<<w, "ask">>] = Idle]
       /\ End(w)
       /\ UNCHANGED <<epoch, row, route, offered, inbox, journal, charged, ghostVars, counters>>

-----------------------------------------------------------------------------
(* The server (external).                                                   *)

(* A new identity is charged; its answer is on its way.                     *)
Charge(w) ==
    LET a == ask[w]
    IN /\ a.pc = "wait" /\ a.id \notin charged
       /\ charged' = charged \cup {a.id}
       /\ Continue(w, [a EXCEPT !.pc = "served"])
       /\ UNCHANGED <<cacheVars, route, memory, offered, inbox, journal, ghostVars, counters>>

(* A known one is in progress or, once its answer was sent, completed: the  *)
(* learner may then buy a replacement, unless the account has changed.  An  *)
(* account that left and came back counts as one that stayed.               *)
AlreadyCharged(w) ==
    LET a == ask[w]
        lost == [route |-> a.route, gen |-> a.id.gen]
    IN /\ a.pc = "wait" /\ a.id \in charged
       /\ End(w)
       /\ \/ UNCHANGED <<offered, confirmed>>
          \/ /\ confirmed' = confirmed \cup {lost}
             /\ offered' = IF Owner[route[w]] = Owner[a.route]
                           THEN [offered EXCEPT ![w] = lost] ELSE offered
       /\ UNCHANGED <<cacheVars, route, memory, inbox, journal, charged, cleared, heard, stored,
                      counters>>

(* The request or its reply is lost, or the server refuses it.              *)
Lose(w) ==
    /\ ask[w].pc \in {"wait", "served"}
    /\ Bounded
    /\ End(w)
    /\ UNCHANGED <<cacheVars, route, memory, offered, inbox, journal, charged, ghostVars,
                   answers, asks, clears>>

-----------------------------------------------------------------------------
(* The cache's tasks and the windows that hear of them.                     *)

Step(x) ==
    /\ Quiet(x)
    /\ UNCHANGED <<windowVars, inbox, journal, charged, ghostVars, counters>>

(* The other windows are told of every change of the metadata.              *)
Notify(w, account, count) ==
    inbox' = [v \in Window |-> IF v = w THEN inbox[v]
                               ELSE inbox[v] \cup {[account |-> account, clears |-> count]}]

Store(x) ==
    /\ CommitSet(x)
    /\ Notify(x[1], task[x].account, cleared[task[x].account])
    /\ stored' = stored \cup {task[x].answer}
    /\ UNCHANGED <<windowVars, journal, charged, confirmed, cleared, heard, counters>>

Clear(x) ==
    LET a == task[x].account
    IN /\ CommitClear(x)
       /\ cleared' = [cleared EXCEPT ![a] = @ + 1]
       /\ Notify(x[1], a, cleared'[a])
       /\ UNCHANGED <<windowVars, journal, charged, confirmed, heard, stored, counters>>

StorageFailure(x) ==
    /\ Bounded
    /\ CacheFailure(x)
    /\ UNCHANGED <<windowVars, inbox, journal, charged, ghostVars, answers, asks, clears>>

(* A clear that failed is reported.                                         *)
EndTask(x) ==
    /\ x[2] = "clear" /\ task[x].pc = "failed"
    /\ task' = [task EXCEPT ![x] = Idle]
    /\ UNCHANGED <<epoch, row, windowVars, inbox, journal, charged, ghostVars, counters>>

Forget(w) == memory' = [memory EXCEPT ![w] = [r \in Route |-> None]]
Fence(w) == ask' = [ask EXCEPT ![w].fenced = TRUE]

(* clearCache: the window's own memory first.                               *)
BeginClear(w) ==
    /\ task[<<w, "clear">>].pc = "idle"
    /\ More /\ clears < MaxClears /\ clears' = clears + 1
    /\ Forget(w) /\ Fence(w)
    /\ task' = [task EXCEPT ![<<w, "clear">>] = ClearTask(Owner[route[w]])]
    /\ UNCHANGED <<epoch, row, route, offered, inbox, journal, charged, ghostVars,
                   answers, asks, events>>

(* Faulty variant: only the memory is emptied.                              *)
HearWithoutFence(w) ==
    \E m \in inbox[w] :
        /\ Forget(w) /\ UNCHANGED ask
        /\ inbox' = [inbox EXCEPT ![w] = @ \ {m}]
        /\ heard' = [heard EXCEPT ![w][m.account] = IF m.clears > @ THEN m.clears ELSE @]
        /\ UNCHANGED <<cacheVars, route, offered, journal, charged, confirmed, cleared, stored,
                       counters>>

(* onChange: every change of the metadata is taken for a clear.             *)
Hear(w) ==
    \E m \in inbox[w] :
        /\ Forget(w) /\ Fence(w)
        /\ inbox' = [inbox EXCEPT ![w] = @ \ {m}]
        /\ heard' = [heard EXCEPT ![w][m.account] = IF m.clears > @ THEN m.clears ELSE @]
        /\ UNCHANGED <<cacheVars, route, offered, journal, charged, confirmed, cleared, stored,
                       counters>>

(* Another payer, model or setting, also one saved by another window; or    *)
(* another account, whose login empties the memory and takes back an offer. *)
ChangeRoute(w, r) ==
    /\ r # route[w]
    /\ Bounded
    /\ route' = [route EXCEPT ![w] = r]
    /\ IF Owner[r] = Owner[route[w]] THEN UNCHANGED <<memory, offered>>
       ELSE Forget(w) /\ offered' = [offered EXCEPT ![w] = None]
    /\ UNCHANGED <<cacheVars, ask, inbox, journal, charged, ghostVars, answers, asks, clears>>

Focus(w) ==
    /\ Bounded
    /\ Forget(w)
    /\ UNCHANGED <<cacheVars, route, ask, offered, inbox, journal, charged, ghostVars,
                   answers, asks, clears>>

-----------------------------------------------------------------------------
Next ==
    \/ \E w \in Window :
          \/ AskForHelp(w) \/ Replace(w) \/ Look(w) \/ UseFound(w)
          \/ Send(w) \/ SendWithoutToken(w) \/ Charge(w) \/ AlreadyCharged(w) \/ Lose(w)
          \/ Receive(w) \/ KeepAnswer(w)
          \/ BeginClear(w) \/ Hear(w) \/ Focus(w)
          \/ \E r \in Route : ChangeRoute(w, r)
    \/ \E x \in Activity :
          Step(x) \/ Store(x) \/ Clear(x) \/ StorageFailure(x) \/ EndTask(x)

Spec == Init /\ [][Next]_vars

-----------------------------------------------------------------------------
(* No answer outlives a clear: no set takes the epoch back, what the cache  *)
(* returns was asked for after the last clear of its account (ai-cache.ts:  *)
(* the token "prevents a response that predates clear() from being admitted *)
(* into the new cache epoch"), and a window that has heard of a clear has   *)
(* nothing older in memory (ai.ts: "an older read/write cannot repopulate   *)
(* memory after the event was seen").                                       *)
ClearedStaysCleared ==
    /\ epoch = cleared
    /\ \A r \in Route : Readable(r) => row[r].answer.asked = cleared[Owner[r]]
    /\ \A w \in Window, r \in Route :
          memory[w][r] # None => memory[w][r].asked >= heard[w][Owner[r]]

(* A loss is replaced once: each generation of a request has one identity   *)
(* in all windows, so that those which were shown the same loss "converge on *)
(* N+1 instead of buying N+1 and N+2" (advance), and every generation after *)
(* the first that is paid for was drawn by a window that had been told that *)
(* an answer of the generation before it is gone, in the same account.  It  *)
(* is the answer of the same request unless payer, model or settings were   *)
(* changed meanwhile: the code does not tell this.                          *)
PaidOnce ==
    \A i \in charged :
        /\ \A j \in charged : j.route = i.route /\ j.gen = i.gen => j = i
        /\ i.gen > 0 => /\ i.after \in confirmed /\ i.after.gen = i.gen - 1
                        /\ Owner[i.after.route] = Owner[i.route]

(* A paid answer leaves the cache only with a clear, for another answer to  *)
(* the same request, or when answers to as many other requests of the       *)
(* account as the cache may hold, all of them newer, were stored since the  *)
(* last clear: no prune that was delayed deletes what was stored after its  *)
(* reads (deleteExact; test: "never lets an old prune delete the same key   *)
(* written after clear").                                                   *)
NewerSince(e, a) ==
    {r \in Route \ {a.route} :
        /\ Owner[r] = Owner[a.route]
        /\ \E s \in stored : s.route = r /\ s.asked = e /\ s.stamp > a.stamp}

PaidIsKept ==
    [][\A r \in Route : Readable(r) /\ row'[r] = None =>
          Cardinality(NewerSince(epoch[Owner[r]], row[r].answer)) >= MaxCached]_vars

(* A prune leaves the cache as full as it may be.  The code does not keep   *)
(* this: two prunes that read the same key at different times delete both   *)
(* the answers that each of them wanted to keep.                            *)
CacheStaysFull ==
    [][\A r \in Route : Readable(r) /\ row'[r] = None =>
          Cardinality({s \in Route \ {r} : Readable(s) /\ Owner[s] = Owner[r]})
              >= MaxCached]_vars
=============================================================================
