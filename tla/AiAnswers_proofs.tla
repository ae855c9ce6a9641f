------------------------- MODULE AiAnswers_proofs -------------------------
(***************************************************************************)
(* Proofs about AiAnswers, for any number of windows, routes and requests: *)
(* what is paid for, that no answer outlives a clear of its account, and   *)
(* what a prune may delete.                                                *)
(***************************************************************************)
EXTENDS AiAnswers, FiniteSetTheorems, TLAPS

USE DEF cacheVars, windowVars, ghostVars, counters

-----------------------------------------------------------------------------
(* What is paid for: the inductive invariant.                               *)

(* Identities that are in use anywhere.                                     *)
Issued == (charged \cup {ask[w].id : w \in Window} \cup {journal[r] : r \in Route}) \ {None}

Busy == {"look", "got", "wait", "served"}

AskFields == {"pc", "route", "id", "found", "fenced", "token", "asked", "answer"}

AskShape ==
    /\ ask = [w \in Window |-> ask[w]]
    /\ \A w \in Window : AskFields \subseteq DOMAIN ask[w]

OfferedOK ==
    /\ offered \in [Window -> Loss \cup {None}]
    /\ \A w \in Window : offered[w] # None =>
          offered[w] \in confirmed /\ Owner[offered[w].route] = Owner[route[w]]

AskOK ==
    \A w \in Window :
        /\ ask[w].pc \in Busy => ask[w].id # None
        /\ ask[w].id # None => ask[w].id.route = ask[w].route

(* A replacement was drawn from a loss of the generation before.            *)
Bought(i) ==
    i.gen > 0 => /\ i.after \in confirmed /\ i.after.gen = i.gen - 1
                 /\ Owner[i.after.route] = Owner[i.route]

(* The journal has the latest identity of a route, and no two identities of *)
(* a route have the same generation.                                        *)
IssuedOK ==
    /\ Issued \subseteq Identity
    /\ \A r \in Route : journal[r] # None => journal[r].route = r
    /\ \A i \in Issued : journal[i.route] # None /\ i.gen <= journal[i.route].gen
    /\ \A i, j \in Issued : i.route = j.route /\ i.gen = j.gen => i = j
    /\ \A i \in Issued : Bought(i)

IInv ==
    /\ AskShape
    /\ route \in [Window -> Route]
    /\ journal \in [Route -> Identity \cup {None}]
    /\ None \notin charged
    /\ OfferedOK /\ AskOK /\ IssuedOK

USE DEF AskFields

-----------------------------------------------------------------------------
(* Steps that issue no identity.                                            *)

(* What such a step may do to a request: end it, or keep what it is for.    *)
Keeps(w) ==
    \/ ask'[w].id = None /\ ask'[w].pc \notin Busy
    \/ /\ ask'[w].id = ask[w].id /\ ask'[w].route = ask[w].route
       /\ ask'[w].pc \in Busy => ask[w].pc \in Busy

LEMMA NothingIssued ==
  ASSUME IInv, AskShape', route' \in [Window -> Route], UNCHANGED journal,
         charged' \subseteq Issued, None \notin charged', confirmed \subseteq confirmed',
         OfferedOK', \A w \in Window : Keeps(w)
  PROVE  IInv'
  <1>1. Issued' \subseteq Issued
    BY DEF Issued, Keeps
  <1>2. AskOK'
    BY DEF IInv, AskOK, Keeps
  <1>3. IssuedOK'
    <2>1. Issued' \subseteq Identity
      BY <1>1 DEF IInv, IssuedOK
    <2>2. \A r \in Route : journal'[r] # None => journal'[r].route = r
      BY DEF IInv, IssuedOK
    <2>3. \A i \in Issued' : journal'[i.route] # None /\ i.gen <= journal'[i.route].gen
      BY <1>1 DEF IInv, IssuedOK
    <2>4. \A i, j \in Issued' : i.route = j.route /\ i.gen = j.gen => i = j
      BY <1>1 DEF IInv, IssuedOK
    <2>5. (\A i \in Issued : Bought(i))'
      BY <1>1 DEF IInv, IssuedOK, Bought
    <2> QED BY <2>1, <2>2, <2>3, <2>4, <2>5 DEF IssuedOK
  <1> QED BY <1>2, <1>3 DEF IInv

(* Most steps pay for nothing, confirm nothing and offer nothing either.    *)
LEMMA Local ==
  ASSUME IInv, AskShape', UNCHANGED <<route, journal, charged, confirmed, offered>>,
         \A w \in Window : Keeps(w)
  PROVE  IInv'
  <1>1. charged' \subseteq Issued /\ None \notin charged'
    BY DEF IInv, Issued
  <1>2. OfferedOK'
    BY DEF IInv, OfferedOK
  <1>3. route' \in [Window -> Route]
    BY DEF IInv
  <1> QED BY <1>1, <1>2, <1>3, NothingIssued

(* A request that goes on for the same route under the same identity.       *)
LEMMA Continues ==
  ASSUME IInv, NEW w \in Window, NEW a, Continue(w, a), AskFields \subseteq DOMAIN a,
         \/ a.id = None /\ a.pc \notin Busy
         \/ /\ a.id = ask[w].id /\ a.route = ask[w].route
            /\ a.pc \in Busy => ask[w].pc \in Busy
  PROVE  AskShape' /\ \A v \in Window : Keeps(v)
  <1>1. ask' = [v \in Window |-> IF v = w THEN a ELSE ask[v]]
    BY DEF IInv, AskShape, Continue
  <1>2. ask'[w] = a /\ \A v \in Window \ {w} : ask'[v] = ask[v]
    BY <1>1
  <1>3. AskShape'
    BY <1>1, <1>2 DEF IInv, AskShape
  <1> QED BY <1>2, <1>3 DEF Keeps

LEMMA Ends ==
  ASSUME IInv, NEW w \in Window, End(w)
  PROVE  AskShape' /\ \A v \in Window : Keeps(v)
  <1>1. NoAsk.id = None /\ NoAsk.pc \notin Busy /\ AskFields \subseteq DOMAIN NoAsk
    BY DEF NoAsk, Busy
  <1> QED BY <1>1, Continues DEF End

LEMMA Fences ==
  ASSUME IInv, NEW w \in Window, Fence(w) \/ UNCHANGED ask
  PROVE  AskShape' /\ \A v \in Window : Keeps(v)
  BY DEF IInv, AskShape, Fence, Keeps

-----------------------------------------------------------------------------
(* Steps that give a request its identity.                                  *)

LEMMA Issues ==
  ASSUME IInv, NEW w \in Window, NEW id \in Identity, id # None, AskFor(w, id),
         id.route = route[w],
         \/ id \in Issued
         \/ Bought(id) /\ \A i \in Issued : i.route = id.route => i.gen < id.gen,
         \A i \in Issued : i.route = id.route => i.gen <= id.gen
  PROVE  IInv'
  <1> DEFINE a == [NoAsk EXCEPT !.pc = "look", !.route = route[w], !.id = id]
  <1>1. /\ ask' = [ask EXCEPT ![w] = a]
        /\ journal' = [journal EXCEPT ![route[w]] = id]
        /\ offered' = [offered EXCEPT ![w] = None]
        /\ UNCHANGED <<route, charged, confirmed>>
    BY DEF AskFor, Continue
  <1>2. a.pc = "look" /\ a.route = route[w] /\ a.id = id /\ AskFields \subseteq DOMAIN a
    BY DEF NoAsk
  <1> HIDE DEF a
  <1>3. /\ ask'[w].id = id /\ ask'[w].route = route[w]
        /\ \A v \in Window \ {w} : ask'[v] = ask[v]
        /\ AskShape'
    <2>1. ask' = [v \in Window |-> IF v = w THEN a ELSE ask[v]]
      BY <1>1 DEF IInv, AskShape
    <2>2. ask'[w] = a /\ \A v \in Window \ {w} : ask'[v] = ask[v]
      BY <2>1
    <2> QED BY <1>2, <2>1, <2>2 DEF IInv, AskShape
  <1>4. AskOK'
    BY <1>3 DEF IInv, AskOK
  <1>5. OfferedOK'
    BY <1>1 DEF IInv, OfferedOK
  <1>6. /\ route[w] \in Route /\ journal'[route[w]] = id
        /\ \A r \in Route \ {route[w]} : journal'[r] = journal[r]
        /\ journal' \in [Route -> Identity \cup {None}]
    BY <1>1 DEF IInv
  <1>7. Issued' \subseteq Issued \cup {id}
    BY <1>1, <1>3, <1>6 DEF Issued
  <1>8. IssuedOK'
    <2>1. Issued' \subseteq Identity
      BY <1>7 DEF IInv, IssuedOK
    <2>2. \A r \in Route : journal'[r] # None => journal'[r].route = r
      BY <1>6 DEF IInv, IssuedOK
    <2>3. \A i \in Issued' : journal'[i.route] # None /\ i.gen <= journal'[i.route].gen
      BY <1>6, <1>7, <2>1 DEF IInv, IssuedOK, Identity
    <2>4. \A i, j \in Issued' : i.route = j.route /\ i.gen = j.gen => i = j
      BY <1>7, <2>1 DEF IInv, IssuedOK, Identity
    <2>5. (\A i \in Issued : Bought(i))'
      BY <1>1, <1>7 DEF IInv, IssuedOK, Bought
    <2> QED BY <2>1, <2>2, <2>3, <2>4, <2>5 DEF IssuedOK
  <1> QED BY <1>1, <1>3, <1>4, <1>5, <1>6, <1>8 DEF IInv

(* What the journal has for a route is issued, and the latest of the route; *)
(* a route without an entry has none.                                       *)
LEMMA JournalIsLatest ==
  ASSUME IInv, NEW r \in Route
  PROVE  /\ journal[r] = None => \A i \in Issued : i.route # r
         /\ journal[r] # None => /\ journal[r] \in Issued /\ journal[r] \in Identity
                                /\ journal[r].route = r
                                /\ \A i \in Issued : i.route = r => i.gen <= journal[r].gen
  BY DEF IInv, IssuedOK, Issued

LEMMA NoIdentity ==
  ASSUME IInv, NEW w \in Window, AskFor(w, None)
  PROVE  IInv'
  <1>1. UNCHANGED <<ask, journal, route, charged, confirmed>> /\ offered' = [offered EXCEPT ![w] = None]
    BY DEF AskFor
  <1>2. OfferedOK'
    BY <1>1 DEF IInv, OfferedOK
  <1>3. AskShape' /\ \A v \in Window : Keeps(v)
    BY <1>1 DEF IInv, AskShape, Keeps
  <1>4. charged' \subseteq Issued /\ None \notin charged'
    BY <1>1 DEF IInv, Issued
  <1> QED BY <1>1, <1>2, <1>3, <1>4, NothingIssued DEF IInv

LEMMA AskForHelpStep ==
  ASSUME IInv, NEW w \in Window, AskForHelp(w)
  PROVE  IInv'
  <1> DEFINE r == route[w]
             id == Current(w, r)
  <1>1. r \in Route /\ AskFor(w, id)
    BY DEF IInv, AskForHelp
  <1>2. CASE id = None
    BY <1>1, <1>2, NoIdentity
  <1>3. CASE id # None /\ journal[r] = None
    <2>1. id = Candidate(w, r, 0) /\ \A i \in Issued : i.route # r
      BY <1>1, <1>3, JournalIsLatest DEF Current
    <2>2. id \in Identity /\ id.route = r /\ id.gen = 0
      BY <1>1, <2>1 DEF Candidate, Identity
    <2>3. /\ \A i \in Issued : i.route = id.route => i.gen < id.gen
          /\ Bought(id)
          /\ \A i \in Issued : i.route = id.route => i.gen <= id.gen
      BY <2>1, <2>2 DEF Bought
    <2> HIDE DEF id
    <2> QED BY <1>1, <1>3, <2>2, <2>3, Issues
  <1>4. CASE journal[r] # None
    <2>1. id = journal[r]
      BY <1>4 DEF Current
    <2> QED BY <1>1, <1>4, <2>1, JournalIsLatest, Issues
  <1> QED BY <1>2, <1>3, <1>4

LEMMA ReplaceStep ==
  ASSUME IInv, NEW w \in Window, Replace(w)
  PROVE  IInv'
  <1> DEFINE r == route[w]
             expected == offered[w].gen
             seen == IF journal[r] = None THEN 0 ELSE journal[r].gen
             id == Advance(w, r, expected)
  <1>1. r \in Route /\ AskFor(w, id)
    BY DEF IInv, Replace
  <1>2. /\ expected \in Nat /\ offered[w] \in Loss /\ offered[w] \in confirmed
        /\ Owner[offered[w].route] = Owner[r]
    BY DEF IInv, OfferedOK, Replace, Loss
  <1>3. seen \in Nat /\ \A i \in Issued : i.route = r => i.gen <= seen
    BY <1>1, JournalIsLatest DEF Identity
  <1>4. CASE id = None
    BY <1>1, <1>4, NoIdentity
  <1>5. CASE id # None /\ seen = expected
    <2>1. id = Candidate(w, r, expected + 1)
      BY <1>2, <1>5 DEF Advance
    <2>2. id \in Identity /\ id.route = r /\ id.gen = expected + 1 /\ id.after = offered[w]
      BY <1>1, <1>2, <2>1 DEF Candidate, Identity
    <2>3. \A i \in Issued : i.route = r => i.gen < id.gen
      <3>1. Issued \subseteq Identity
        BY DEF IInv, IssuedOK
      <3> QED BY <1>2, <1>3, <1>5, <2>2, <3>1 DEF Identity
    <2>4. Bought(id)
      BY <1>2, <2>2 DEF Bought
    <2>5. \A i \in Issued : i.route = id.route => i.gen <= id.gen
      <3>1. Issued \subseteq Identity
        BY DEF IInv, IssuedOK
      <3> QED BY <1>2, <2>2, <2>3, <3>1 DEF Identity
    <2> QED BY <1>1, <1>2, <1>5, <2>2, <2>3, <2>4, <2>5, Issues
  <1>6. CASE id # None /\ seen # expected
    <2>1. id = journal[r] /\ seen = expected + 1
      BY <1>2, <1>6 DEF Advance
    <2>2. journal[r] # None
      BY <1>2, <1>6, <2>1
    <2>3. /\ id \in Issued /\ id \in Identity /\ id.route = r
          /\ \A i \in Issued : i.route = id.route => i.gen <= id.gen
      BY <1>1, <2>1, <2>2, JournalIsLatest
    <2> HIDE DEF id
    <2> QED BY <1>1, <1>6, <2>3, Issues
  <1> QED BY <1>4, <1>5, <1>6

-----------------------------------------------------------------------------
(* The other steps of a request.                                            *)

LEMMA RequestFields ==
  ASSUME IInv, NEW w \in Window
  PROVE  AskFields \subseteq DOMAIN ask[w]
  BY DEF IInv, AskShape

LEMMA LookStep ==
  ASSUME IInv, NEW w \in Window, Look(w)
  PROVE  IInv'
  <1> DEFINE a == [ask[w] EXCEPT !.pc = "got", !.found = CacheGet(ask[w].route), !.fenced = FALSE]
  <1>1. End(w) \/ Continue(w, a)
    BY DEF Look
  <1>2. /\ a.id = ask[w].id /\ a.route = ask[w].route /\ a.pc = "got"
        /\ AskFields \subseteq DOMAIN a
    BY RequestFields
  <1>3. ask[w].pc \in Busy /\ UNCHANGED <<route, journal, charged, confirmed, offered>>
    BY DEF Look, Busy
  <1> HIDE DEF a
  <1>4. AskShape' /\ \A v \in Window : Keeps(v)
    BY <1>1, <1>2, <1>3, Ends, Continues
  <1> QED BY <1>3, <1>4, Local DEF IInv

LEMMA SendStep ==
  ASSUME IInv, NEW w \in Window, NEW token, SendWith(w, token)
  PROVE  IInv'
  <1> DEFINE a == [ask[w] EXCEPT !.pc = "wait", !.found = None, !.fenced = FALSE,
                                 !.token = token, !.asked = cleared[Owner[route[w]]]]
  <1>1. Continue(w, a)
    BY DEF SendWith
  <1>2. /\ a.id = ask[w].id /\ a.route = ask[w].route /\ a.pc = "wait"
        /\ AskFields \subseteq DOMAIN a
    BY RequestFields
  <1>3. ask[w].pc \in Busy /\ UNCHANGED <<route, journal, charged, confirmed, offered>>
    BY DEF SendWith, Busy
  <1> HIDE DEF a
  <1>4. AskShape' /\ \A v \in Window : Keeps(v)
    BY <1>1, <1>2, <1>3, Continues
  <1> QED BY <1>3, <1>4, Local DEF IInv

LEMMA ReceiveStep ==
  ASSUME IInv, NEW w \in Window, Receive(w)
  PROVE  IInv'
  <1> DEFINE answer == [route |-> ask[w].route, stamp |-> answers + 1, asked |-> ask[w].asked]
             a == [NoAsk EXCEPT !.pc = "storing", !.route = ask[w].route, !.answer = answer]
  <1>1. End(w) \/ Continue(w, a)
    BY DEF Receive
  <1>2. a.id = None /\ a.pc \notin Busy /\ AskFields \subseteq DOMAIN a
    BY DEF NoAsk, Busy
  <1>3. UNCHANGED <<route, journal, charged, confirmed, offered>>
    BY DEF Receive
  <1> HIDE DEF a
  <1>4. AskShape' /\ \A v \in Window : Keeps(v)
    BY <1>1, <1>2, Ends, Continues
  <1> QED BY <1>3, <1>4, Local DEF IInv

LEMMA EndingSteps ==
  ASSUME IInv, NEW w \in Window, UseFound(w) \/ KeepAnswer(w) \/ Lose(w)
  PROVE  IInv'
  <1>1. End(w) /\ UNCHANGED <<route, journal, charged, confirmed, offered>>
    BY DEF UseFound, KeepAnswer, Lose
  <1> QED BY <1>1, Ends, Local DEF IInv

(* Only what was issued is paid for.                                        *)
LEMMA ChargeStep ==
  ASSUME IInv, NEW w \in Window, Charge(w)
  PROVE  IInv'
  <1> DEFINE a == [ask[w] EXCEPT !.pc = "served"]
  <1>1. Continue(w, a) /\ charged' = charged \cup {ask[w].id}
    BY DEF Charge
  <1>2. /\ a.id = ask[w].id /\ a.route = ask[w].route /\ a.pc = "served"
        /\ AskFields \subseteq DOMAIN a
    BY RequestFields
  <1>3. ask[w].pc \in Busy /\ UNCHANGED <<route, journal, confirmed, offered>>
    BY DEF Charge, Busy
  <1> HIDE DEF a
  <1>4. AskShape' /\ \A v \in Window : Keeps(v)
    BY <1>1, <1>2, <1>3, Continues
  <1>5. charged' \subseteq Issued /\ None \notin charged'
    BY <1>1, <1>3 DEF IInv, AskOK, Issued
  <1>6. OfferedOK'
    BY <1>3 DEF IInv, OfferedOK
  <1> QED BY <1>3, <1>4, <1>5, <1>6, NothingIssued DEF IInv

(* What is offered for replacement has been confirmed to be lost.           *)
LEMMA AlreadyChargedStep ==
  ASSUME IInv, NEW w \in Window, AlreadyCharged(w)
  PROVE  IInv'
  <1> DEFINE lost == [route |-> ask[w].route, gen |-> ask[w].id.gen]
  <1>1. /\ End(w) /\ UNCHANGED <<route, journal, charged>>
        /\ \/ UNCHANGED <<offered, confirmed>>
           \/ /\ confirmed' = confirmed \cup {lost}
              /\ \/ /\ offered' = [offered EXCEPT ![w] = lost]
                    /\ Owner[lost.route] = Owner[route[w]]
                 \/ offered' = offered
    BY DEF AlreadyCharged
  <1>2. lost \in Loss
    <2>1. ask[w].id # None /\ ask[w].id.route = ask[w].route
      BY DEF IInv, AskOK, AlreadyCharged, Busy
    <2>2. ask[w].id \in Identity
      BY <2>1 DEF IInv, IssuedOK, Issued
    <2> QED BY <2>1, <2>2 DEF Identity, Loss
  <1> HIDE DEF lost
  <1>3. OfferedOK' /\ confirmed \subseteq confirmed'
    BY <1>1, <1>2 DEF IInv, OfferedOK
  <1>4. charged' \subseteq Issued /\ None \notin charged'
    BY <1>1 DEF IInv, Issued
  <1>5. AskShape' /\ \A v \in Window : Keeps(v)
    BY <1>1, Ends
  <1> QED BY <1>1, <1>3, <1>4, <1>5, NothingIssued DEF IInv

(* Clears, notices, the cache's own steps and what the learner changes.     *)
LEMMA OtherSteps ==
  ASSUME IInv, UNCHANGED <<route, journal, charged, confirmed, offered>>,
         UNCHANGED ask \/ \E w \in Window : Fence(w)
  PROVE  IInv'
  <1>1. AskShape' /\ \A v \in Window : Keeps(v)
    <2>1. CASE UNCHANGED ask
      BY <2>1 DEF IInv, AskShape, Keeps
    <2>2. CASE \E w \in Window : Fence(w)
      BY <2>2, Fences
    <2> QED BY <2>1, <2>2
  <1> QED BY <1>1, Local

(* An offer stays for another route of its account, and only for such.      *)
LEMMA ChangeRouteStep ==
  ASSUME IInv, NEW w \in Window, NEW r \in Route, ChangeRoute(w, r)
  PROVE  IInv'
  <1>1. /\ route' = [route EXCEPT ![w] = r] /\ UNCHANGED <<journal, charged, confirmed, ask>>
        /\ \/ Owner[r] = Owner[route[w]] /\ UNCHANGED offered
           \/ offered' = [offered EXCEPT ![w] = None]
    BY DEF ChangeRoute
  <1>2. route' \in [Window -> Route]
    BY <1>1 DEF IInv
  <1>3. \A v \in Window : IF v = w THEN route'[v] = r ELSE route'[v] = route[v]
    BY <1>1 DEF IInv
  <1>4. OfferedOK'
    BY <1>1, <1>3 DEF IInv, OfferedOK
  <1>5. AskShape' /\ \A v \in Window : Keeps(v)
    BY <1>1 DEF IInv, AskShape, Keeps
  <1>6. charged' \subseteq Issued /\ None \notin charged'
    BY <1>1 DEF IInv, Issued
  <1> QED BY <1>1, <1>2, <1>4, <1>5, <1>6, NothingIssued

-----------------------------------------------------------------------------
(* Theorems.                                                                *)

LEMMA InitInv == Init => IInv
  <1> SUFFICES ASSUME Init
               PROVE  IInv
    OBVIOUS
  <1>1. AskShape /\ AskOK
    BY DEF Init, NoAsk, AskShape, AskOK, Busy
  <1>2. Issued = {}
    BY DEF Init, NoAsk, Issued
  <1>3. IssuedOK
    BY <1>2 DEF Init, IssuedOK
  <1>4. OfferedOK
    BY DEF Init, OfferedOK
  <1> QED BY <1>1, <1>3, <1>4 DEF Init, IInv

LEMMA NextInv == IInv /\ [Next]_vars => IInv'
  <1> SUFFICES ASSUME IInv, [Next]_vars
               PROVE  IInv'
    OBVIOUS
  <1>1. CASE UNCHANGED vars
    BY <1>1, OtherSteps DEF vars, IInv
  <1>2. ASSUME NEW w \in Window,
               \/ AskForHelp(w) \/ Replace(w) \/ Look(w) \/ UseFound(w)
               \/ Send(w) \/ SendWithoutToken(w) \/ Charge(w) \/ AlreadyCharged(w) \/ Lose(w)
               \/ Receive(w) \/ KeepAnswer(w)
        PROVE  IInv'
    <2>1. CASE AskForHelp(w)
      BY <2>1, AskForHelpStep
    <2>2. CASE Replace(w)
      BY <2>2, ReplaceStep
    <2>3. CASE Look(w)
      BY <2>3, LookStep
    <2>4. CASE UseFound(w) \/ KeepAnswer(w) \/ Lose(w)
      BY <2>4, EndingSteps
    <2>5. CASE Send(w) \/ SendWithoutToken(w)
      BY <2>5, SendStep DEF Send, SendWithoutToken
    <2>6. CASE Charge(w)
      BY <2>6, ChargeStep
    <2>7. CASE AlreadyCharged(w)
      BY <2>7, AlreadyChargedStep
    <2>8. CASE Receive(w)
      BY <2>8, ReceiveStep
    <2> QED BY <1>2, <2>1, <2>2, <2>3, <2>4, <2>5, <2>6, <2>7, <2>8
  <1>3. ASSUME NEW w \in Window, BeginClear(w) \/ Hear(w) \/ Focus(w)
        PROVE  IInv'
    <2>1. UNCHANGED <<route, journal, charged, confirmed, offered>> /\ (UNCHANGED ask \/ Fence(w))
      BY <1>3 DEF BeginClear, Hear, Focus
    <2> QED BY <2>1, OtherSteps DEF IInv
  <1>4. ASSUME NEW w \in Window, NEW r \in Route, ChangeRoute(w, r)
        PROVE  IInv'
    BY <1>4, ChangeRouteStep
  <1>5. ASSUME NEW x \in Activity,
               Step(x) \/ Store(x) \/ Clear(x) \/ StorageFailure(x) \/ EndTask(x)
        PROVE  IInv'
    <2>1. UNCHANGED <<route, journal, charged, confirmed, offered, ask>>
      BY <1>5 DEF Step, Store, Clear, StorageFailure, EndTask
    <2> QED BY <2>1, OtherSteps DEF IInv
  <1> QED BY <1>1, <1>2, <1>3, <1>4, <1>5 DEF Next

(* IInv holds in every reachable state.                                     *)
THEOREM Inductive == Spec => []IInv
  BY InitInv, NextInv, PTL DEF Spec

(* For any number of windows, routes, requests and changes of payer, model, *)
(* settings and account, every generation of a request has one identity in  *)
(* all windows, and a next generation is paid for only by a window that was *)
(* told, in that account, that an answer of the generation before is gone   *)
(* (ai.ts withStableRequestId over the generation journal).                 *)
THEOREM LossesReplacedOnce == Spec => []PaidOnce
  <1>1. IInv => PaidOnce
    <2> SUFFICES ASSUME IInv, NEW i \in charged
                 PROVE  /\ \A j \in charged : j.route = i.route /\ j.gen = i.gen => j = i
                        /\ Bought(i)
      BY DEF PaidOnce, Bought
    <2>1. charged \subseteq Issued
      BY DEF IInv, Issued
    <2> QED BY <2>1 DEF IInv, IssuedOK
  <1> QED BY <1>1, Inductive, PTL

-----------------------------------------------------------------------------
(* No answer outlives a clear: the inductive invariant.                     *)

TaskFields == {"pc", "account", "answer", "token", "stale"}

TaskShape ==
    /\ task = [x \in Activity |-> task[x]]
    /\ \A x \in Activity : TaskFields \subseteq DOMAIN task[x]

(* The token of a set is the epoch of its request; a commit that nobody has *)
(* disturbed was read in the current epoch.                                 *)
TaskOK(t) ==
    t.pc \in {"read", "commit"} =>
        /\ t.account \in Account
        /\ t.answer # None => /\ t.answer \in Answer /\ t.account = Owner[t.answer.route]
                              /\ t.token = t.answer.asked
        /\ t.pc = "commit" /\ ~t.stale => t.token = epoch[t.account]

RowOK(r) ==
    row[r] # None => /\ row[r].answer \in Answer /\ row[r].answer.route = r
                     /\ row[r].epoch = row[r].answer.asked

CacheInv ==
    /\ TaskShape
    /\ epoch \in [Account -> Nat] /\ epoch = cleared
    /\ row = [r \in Route |-> row[r]]
    /\ \A r \in Route : RowOK(r)
    /\ \A x \in Activity : TaskOK(task[x])

(* Nobody has heard of a clear that is not done.                            *)
HeardInv ==
    /\ heard \in [Window -> [Account -> Nat]]
    /\ \A w \in Window, a \in Account : heard[w][a] <= epoch[a]
    /\ inbox = [w \in Window |-> inbox[w]]
    /\ \A w \in Window : \A m \in inbox[w] :
          m.account \in Account /\ m.clears \in Nat /\ m.clears <= epoch[m.account]

MemoryInv ==
    /\ memory \in [Window -> [Route -> Answer \cup {None}]]
    /\ \A w \in Window, r \in Route :
          memory[w][r] # None => memory[w][r].asked >= heard[w][Owner[r]]

(* What a request has found or will be told was asked for after the clears  *)
(* its window has heard of, unless it was fenced.                           *)
Recent(w, r, n) == n \in Nat /\ (~ask[w].fenced => n >= heard[w][Owner[r]])

RequestOK(w) ==
    /\ ask[w].pc \in Busy => ask[w].route \in Route
    /\ ask[w].pc = "got" /\ ask[w].found # None =>
          /\ ask[w].found \in Answer /\ ask[w].found.route = ask[w].route
          /\ Recent(w, ask[w].route, ask[w].found.asked)
    /\ ask[w].pc \in {"wait", "served"} =>
          /\ Recent(w, ask[w].route, ask[w].asked)
          /\ ask[w].token # None => ask[w].token = ask[w].asked
    /\ ask[w].pc = "storing" =>
          /\ ask[w].answer \in Answer
          /\ Recent(w, ask[w].answer.route, ask[w].answer.asked)

RequestInv == \A w \in Window : RequestOK(w)

CInv == IInv /\ CacheInv /\ HeardInv /\ MemoryInv /\ RequestInv

-----------------------------------------------------------------------------
(* The cache.                                                               *)

LEMMA CacheSame ==
  ASSUME CacheInv, UNCHANGED <<epoch, row, task, cleared>>
  PROVE  CacheInv'
  BY DEF CacheInv, TaskShape, TaskOK, RowOK

(* One task goes on, nothing is stored.                                     *)
LEMMA TaskGoesOn ==
  ASSUME CacheInv, NEW x \in Activity, NEW t, task' = [task EXCEPT ![x] = t],
         TaskFields \subseteq DOMAIN t, TaskOK(t),
         epoch' = epoch, cleared' = cleared,
         row' = row \/ \E r \in Route : row' = [row EXCEPT ![r] = None]
  PROVE  CacheInv'
  <1>1. task' = [y \in Activity |-> IF y = x THEN t ELSE task[y]]
    BY DEF CacheInv, TaskShape
  <1>2. task'[x] = t /\ \A y \in Activity \ {x} : task'[y] = task[y]
    BY <1>1
  <1>3. TaskShape'
    BY <1>1, <1>2 DEF CacheInv, TaskShape
  <1>4. \A y \in Activity : TaskOK(task[y])'
    BY <1>2 DEF CacheInv, TaskOK
  <1>5. row' = [r \in Route |-> row'[r]] /\ \A r \in Route : row'[r] = row[r] \/ row'[r] = None
    BY DEF CacheInv
  <1>6. \A r \in Route : RowOK(r)'
    BY <1>5 DEF CacheInv, RowOK
  <1> QED BY <1>3, <1>4, <1>5, <1>6 DEF CacheInv

LEMMA IdleTask ==
  ASSUME NEW label, label \notin {"read", "commit"}
  PROVE  /\ TaskOK([Idle EXCEPT !.pc = label]) /\ TaskOK(Idle)
         /\ TaskFields \subseteq DOMAIN [Idle EXCEPT !.pc = label]
         /\ TaskFields \subseteq DOMAIN Idle
  BY DEF TaskOK, Idle, TaskFields

LEMMA ReadRowsKeeps ==
  ASSUME CacheInv, NEW x \in Activity, ReadRows(x), cleared' = cleared
  PROVE  CacheInv'
  <1> DEFINE t == task[x]
             u == [t EXCEPT !.pc = "commit", !.stale = FALSE, !.token = epoch[t.account],
                            !.tries = @ + 1]
  <1>1. UNCHANGED <<epoch, row>>
    BY DEF ReadRows
  <1>2. TaskOK(t) /\ t.pc \in {"read", "commit"} /\ TaskFields \subseteq DOMAIN t
    BY DEF CacheInv, TaskShape, ReadRows
  <1>3. \/ \E label \in {"invalid", "failed"} : task' = [task EXCEPT ![x] = [Idle EXCEPT !.pc = label]]
        \/ task' = [task EXCEPT ![x] = u] /\ (t.answer # None => t.token = epoch[t.account])
    BY DEF ReadRows, Outcome
  <1>4. CASE \E label \in {"invalid", "failed"} : task' = [task EXCEPT ![x] = [Idle EXCEPT !.pc = label]]
    BY <1>1, <1>4, IdleTask, TaskGoesOn
  <1>5. CASE task' = [task EXCEPT ![x] = u] /\ (t.answer # None => t.token = epoch[t.account])
    <2>1. /\ u.pc = "commit" /\ u.account = t.account /\ u.answer = t.answer
          /\ u.token = epoch[t.account] /\ TaskFields \subseteq DOMAIN u
      BY <1>2 DEF TaskFields
    <2> HIDE DEF u
    <2>2. TaskOK(u)
      BY <1>2, <1>5, <2>1 DEF TaskOK
    <2> QED BY <1>1, <1>5, <2>1, <2>2, TaskGoesOn
  <1> QED BY <1>3, <1>4, <1>5

LEMMA ScanKeeps ==
  ASSUME CacheInv, NEW x \in Activity, Scan(x), cleared' = cleared
  PROVE  CacheInv'
  <1> DEFINE t == task[x]
  <1>1. UNCHANGED <<epoch, row>> /\ TaskFields \subseteq DOMAIN t
    BY DEF Scan, CacheInv, TaskShape
  <1>2. PICK doomed :
           task' = [task EXCEPT ![x] = IF doomed = {} THEN Ended(t)
                                       ELSE [t EXCEPT !.pc = "drop", !.doomed = doomed,
                                                      !.token = epoch[t.account]]]
    BY DEF Scan
  <1> DEFINE u == [t EXCEPT !.pc = "drop", !.doomed = doomed, !.token = epoch[t.account]]
  <1>3. TaskOK(u) /\ TaskFields \subseteq DOMAIN u
    BY <1>1 DEF TaskOK, TaskFields
  <1>4. TaskOK(Ended(t)) /\ TaskFields \subseteq DOMAIN Ended(t)
    BY IdleTask DEF Ended
  <1>5. CASE task' = [task EXCEPT ![x] = Ended(t)]
    BY <1>1, <1>4, <1>5, TaskGoesOn
  <1>6. CASE task' = [task EXCEPT ![x] = u]
    <2> HIDE DEF u
    <2> QED BY <1>1, <1>3, <1>6, TaskGoesOn
  <1> QED BY <1>2, <1>5, <1>6

(* A commit disturbs the tasks that read what it writes.                    *)
LEMMA DisturbedTasks ==
  ASSUME CacheInv, NEW accounts, NEW routes, NEW x \in Activity, NEW t,
         TaskFields \subseteq DOMAIN t, t.pc \notin {"read", "commit"},
         task' = [Disturbed(accounts, routes) EXCEPT ![x] = t],
         \A a \in Account \ accounts : epoch'[a] = epoch[a]
  PROVE  TaskShape' /\ \A y \in Activity : TaskOK(task[y])'
  <1> DEFINE d == Disturbed(accounts, routes)
  <1>1. task' = [y \in Activity |-> IF y = x THEN t ELSE d[y]]
    BY DEF Disturbed
  <1>2. \A y \in Activity :
           /\ d[y].pc = task[y].pc /\ d[y].account = task[y].account
           /\ d[y].answer = task[y].answer /\ d[y].token = task[y].token
           /\ TaskFields \subseteq DOMAIN d[y]
           /\ ~d[y].stale => /\ ~task[y].stale
                             /\ task[y].pc = "commit" => task[y].account \notin accounts
    BY DEF CacheInv, TaskShape, Disturbed, TaskFields
  <1> HIDE DEF d
  <1>3. task'[x] = t /\ \A y \in Activity \ {x} : task'[y] = d[y]
    BY <1>1
  <1>4. TaskShape'
    BY <1>1, <1>2, <1>3 DEF TaskShape
  <1>5. ASSUME NEW y \in Activity
        PROVE  TaskOK(task[y])'
    <2>1. CASE y = x
      BY <1>3, <2>1 DEF TaskOK
    <2>2. CASE y # x
      <3>1. TaskOK(task[y])
        BY DEF CacheInv
      <3> QED BY <1>2, <1>3, <2>2, <3>1 DEF TaskOK
    <2> QED BY <2>1, <2>2
  <1> QED BY <1>4, <1>5

LEMMA DropKeeps ==
  ASSUME CacheInv, NEW x \in Activity, Drop(x), cleared' = cleared
  PROVE  CacheInv'
  <1> DEFINE t == task[x]
  <1>1. epoch' = epoch /\ TaskFields \subseteq DOMAIN t /\ t.pc = "drop"
    BY DEF Drop, CacheInv, TaskShape
  <1>2. /\ TaskOK(Ended(t)) /\ TaskFields \subseteq DOMAIN Ended(t)
        /\ Ended(t).pc \notin {"read", "commit"}
    <2>1. Ended(t).pc \in {"idle", "stored"}
      BY DEF Ended, Idle
    <2> QED BY <2>1, IdleTask DEF Ended
  <1>3. CASE task' = [task EXCEPT ![x] = Ended(t)] /\ UNCHANGED row
    BY <1>1, <1>2, <1>3, TaskGoesOn
  <1>4. ASSUME NEW a \in t.doomed, DeleteExact(a),
               task' = [Disturbed({}, IF row' = row THEN {} ELSE {a.route}) EXCEPT ![x] =
                          IF t.doomed = {a} THEN Ended(t) ELSE [t EXCEPT !.doomed = @ \ {a}]]
        PROVE  CacheInv'
    <2> DEFINE u == IF t.doomed = {a} THEN Ended(t) ELSE [t EXCEPT !.doomed = @ \ {a}]
    <2>1. TaskFields \subseteq DOMAIN u /\ u.pc \notin {"read", "commit"}
      <3> DEFINE v == [t EXCEPT !.doomed = @ \ {a}]
      <3>1. TaskFields \subseteq DOMAIN v /\ v.pc = "drop"
        BY <1>1 DEF TaskFields
      <3> HIDE DEF v
      <3>2. u = Ended(t) \/ u = v
        BY DEF v
      <3> QED BY <1>2, <3>1, <3>2
    <2> HIDE DEF u
    <2>2. TaskShape' /\ \A y \in Activity : TaskOK(task[y])'
      BY <1>1, <1>4, <2>1, DisturbedTasks DEF u
    <2>3. row' = row \/ row' = [row EXCEPT ![a.route] = None]
      BY <1>4 DEF DeleteExact
    <2>4. row' = [r \in Route |-> row'[r]] /\ \A r \in Route : row'[r] = row[r] \/ row'[r] = None
      BY <2>3 DEF CacheInv
    <2>5. \A r \in Route : RowOK(r)'
      BY <2>4 DEF CacheInv, RowOK
    <2> QED BY <1>1, <2>2, <2>4, <2>5 DEF CacheInv
  <1> QED BY <1>3, <1>4 DEF Drop

LEMMA PruningTask ==
  ASSUME NEW t
  PROVE  Pruning(t).pc = "scan" /\ TaskFields \subseteq DOMAIN Pruning(t)
  BY DEF Pruning, Idle, TaskFields

(* A set writes the epoch of its request, which still is the current one.   *)
LEMMA CommitSetKeeps ==
  ASSUME CacheInv, NEW x \in Activity, CommitSet(x), cleared' = cleared
  PROVE  CacheInv' /\ epoch' = epoch
  <1> DEFINE t == task[x]
             r == t.answer.route
  <1>1. /\ t.account \in Account /\ t.answer \in Answer /\ t.account = Owner[r]
        /\ t.token = t.answer.asked /\ t.token = epoch[t.account]
    BY DEF CacheInv, CommitSet, TaskOK
  <1>2. /\ epoch' = [epoch EXCEPT ![t.account] = t.token]
        /\ row' = [row EXCEPT ![r] = [epoch |-> t.token, answer |-> t.answer]]
        /\ task' = [Disturbed({t.account}, {r}) EXCEPT ![x] = Pruning(t)]
    BY DEF CommitSet
  <1>3. epoch' = epoch
    BY <1>1, <1>2 DEF CacheInv
  <1>4. TaskShape' /\ \A y \in Activity : TaskOK(task[y])'
    BY <1>2, <1>3, PruningTask, DisturbedTasks
  <1>5. r \in Route
    BY <1>1 DEF Answer
  <1>6. /\ row' = [s \in Route |-> row'[s]]
        /\ row'[r] = [epoch |-> t.token, answer |-> t.answer]
        /\ \A s \in Route \ {r} : row'[s] = row[s]
    BY <1>2, <1>5 DEF CacheInv
  <1>7. ASSUME NEW s \in Route
        PROVE  RowOK(s)'
    <2>1. CASE s = r
      <3>1. row'[s].answer = t.answer /\ row'[s].epoch = t.token
        BY <1>6, <2>1
      <3> QED BY <1>1, <2>1, <3>1 DEF RowOK
    <2>2. CASE s # r
      BY <1>6, <2>2 DEF CacheInv, RowOK
    <2> QED BY <2>1, <2>2
  <1> QED BY <1>3, <1>4, <1>6, <1>7 DEF CacheInv

LEMMA CommitClearKeeps ==
  ASSUME CacheInv, NEW x \in Activity, CommitClear(x),
         cleared' = [cleared EXCEPT ![task[x].account] = @ + 1]
  PROVE  /\ CacheInv' /\ task[x].account \in Account
         /\ \A a \in Account : epoch'[a] >= epoch[a]
  <1> DEFINE t == task[x]
             a == t.account
  <1>1. a \in Account /\ t.token = epoch[a]
    BY DEF CacheInv, CommitClear, TaskOK
  <1>2. /\ epoch' = [epoch EXCEPT ![a] = t.token + 1] /\ row' = row
        /\ task' = [Disturbed({a}, {}) EXCEPT ![x] = Pruning(t)]
    BY DEF CommitClear
  <1>3. TaskShape' /\ \A y \in Activity : TaskOK(task[y])'
    <2>1. \A b \in Account \ {a} : epoch'[b] = epoch[b]
      BY <1>2 DEF CacheInv
    <2> QED BY <1>2, <2>1, PruningTask, DisturbedTasks
  <1>4. epoch' \in [Account -> Nat] /\ epoch' = cleared' /\ \A b \in Account : epoch'[b] >= epoch[b]
    BY <1>1, <1>2 DEF CacheInv
  <1>5. \A r \in Route : RowOK(r)'
    BY <1>2 DEF CacheInv, RowOK
  <1> QED BY <1>1, <1>2, <1>3, <1>4, <1>5 DEF CacheInv

LEMMA QuietKeeps ==
  ASSUME CacheInv, NEW x \in Activity, Quiet(x), cleared' = cleared
  PROVE  CacheInv'
  BY ReadRowsKeeps, ScanKeeps, DropKeeps DEF Quiet

LEMMA FailureKeeps ==
  ASSUME CacheInv, NEW x \in Activity, CacheFailure(x), cleared' = cleared
  PROVE  CacheInv'
  BY IdleTask, TaskGoesOn DEF CacheFailure, Outcome

-----------------------------------------------------------------------------
(* Notices.                                                                 *)

LEMMA HeardSame ==
  ASSUME CacheInv, CacheInv', HeardInv, UNCHANGED heard, \A a \in Account : epoch'[a] >= epoch[a],
         \/ UNCHANGED inbox
         \/ \E w \in Window, a \in Account : Notify(w, a, epoch'[a])
  PROVE  HeardInv'
  <1>1. epoch \in [Account -> Nat] /\ epoch' \in [Account -> Nat]
    BY DEF CacheInv
  <1>2. \A w \in Window, a \in Account : heard'[w][a] <= epoch'[a]
    BY <1>1 DEF HeardInv
  <1>3. CASE UNCHANGED inbox
    BY <1>1, <1>2, <1>3 DEF HeardInv
  <1>4. ASSUME NEW w \in Window, NEW a \in Account, Notify(w, a, epoch'[a])
        PROVE  HeardInv'
    <2>1. inbox' = [v \in Window |-> inbox'[v]]
      BY <1>4 DEF Notify
    <2>2. ASSUME NEW v \in Window, NEW m \in inbox'[v]
          PROVE  m.account \in Account /\ m.clears \in Nat /\ m.clears <= epoch'[m.account]
      <3>1. m \in inbox[v] \/ m = [account |-> a, clears |-> epoch'[a]]
        BY <1>4, <2>2 DEF Notify
      <3>2. CASE m \in inbox[v]
        BY <1>1, <3>2 DEF HeardInv
      <3>3. CASE m = [account |-> a, clears |-> epoch'[a]]
        BY <1>1, <3>3
      <3> QED BY <3>1, <3>2, <3>3
    <2> QED BY <1>2, <2>1, <2>2 DEF HeardInv
  <1> QED BY <1>3, <1>4

LEMMA HearKeeps ==
  ASSUME CacheInv, HeardInv, NEW w \in Window, NEW m \in inbox[w], UNCHANGED epoch,
         inbox' = [inbox EXCEPT ![w] = @ \ {m}],
         heard' = [heard EXCEPT ![w][m.account] = IF m.clears > @ THEN m.clears ELSE @]
  PROVE  HeardInv' /\ \A v \in Window \ {w} : heard'[v] = heard[v]
  <1>1. m.account \in Account /\ m.clears \in Nat /\ m.clears <= epoch[m.account]
    BY DEF HeardInv
  <1>2. heard' \in [Window -> [Account -> Nat]]
    BY <1>1 DEF HeardInv
  <1>3. \A v \in Window, a \in Account : heard'[v][a] <= epoch'[a]
    BY <1>1 DEF HeardInv
  <1>4. inbox' = [v \in Window |-> inbox'[v]] /\ \A v \in Window : inbox'[v] \subseteq inbox[v]
    BY DEF HeardInv
  <1>5. \A v \in Window : \A n \in inbox'[v] :
           n.account \in Account /\ n.clears \in Nat /\ n.clears <= epoch'[n.account]
    BY <1>4 DEF HeardInv
  <1>6. \A v \in Window \ {w} : heard'[v] = heard[v]
    BY DEF HeardInv
  <1> QED BY <1>2, <1>3, <1>4, <1>5, <1>6 DEF HeardInv

-----------------------------------------------------------------------------
(* The memory of a window.                                                  *)

LEMMA MemorySame ==
  ASSUME MemoryInv, UNCHANGED <<memory, heard>>
  PROVE  MemoryInv'
  BY DEF MemoryInv

LEMMA ForgetKeeps ==
  ASSUME MemoryInv, NEW w \in Window, Forget(w), \A v \in Window \ {w} : heard'[v] = heard[v]
  PROVE  MemoryInv'
  <1>1. memory' \in [Window -> [Route -> Answer \cup {None}]]
    BY DEF MemoryInv, Forget
  <1>2. \A r \in Route : memory'[w][r] = None
    BY DEF MemoryInv, Forget
  <1>3. \A v \in Window \ {w} : memory'[v] = memory[v]
    BY DEF MemoryInv, Forget
  <1> QED BY <1>1, <1>2, <1>3 DEF MemoryInv

LEMMA RememberKeeps ==
  ASSUME MemoryInv, NEW w \in Window, NEW answer \in Answer, Remember(w, answer), UNCHANGED heard,
         answer.asked >= heard[w][Owner[answer.route]]
  PROVE  MemoryInv'
  <1>1. answer.route \in Route
    BY DEF Answer
  <1>2. memory' \in [Window -> [Route -> Answer \cup {None}]]
    BY <1>1 DEF MemoryInv, Remember
  <1>3. \A v \in Window, r \in Route :
           memory'[v][r] = IF v = w /\ r = answer.route THEN answer ELSE memory[v][r]
    BY <1>1 DEF MemoryInv, Remember
  <1> QED BY <1>2, <1>3 DEF MemoryInv

-----------------------------------------------------------------------------
(* The requests.                                                            *)

LEMMA RequestsSame ==
  ASSUME RequestInv, UNCHANGED <<ask, heard>>
  PROVE  RequestInv'
  BY DEF RequestInv, RequestOK, Recent

(* One request goes on, and what it has is recent.                          *)
LEMMA RequestGoesOn ==
  ASSUME IInv, RequestInv, UNCHANGED heard, NEW w \in Window, NEW a, Continue(w, a),
         a.pc \in Busy => a.route \in Route,
         a.pc = "got" /\ a.found # None =>
            /\ a.found \in Answer /\ a.found.route = a.route
            /\ a.found.asked \in Nat
            /\ ~a.fenced => a.found.asked >= heard[w][Owner[a.route]],
         a.pc \in {"wait", "served"} =>
            /\ a.asked \in Nat
            /\ ~a.fenced => a.asked >= heard[w][Owner[a.route]]
            /\ a.token # None => a.token = a.asked,
         a.pc = "storing" =>
            /\ a.answer \in Answer
            /\ a.answer.asked \in Nat
            /\ ~a.fenced => a.answer.asked >= heard[w][Owner[a.answer.route]]
  PROVE  RequestInv'
  <1>1. ask' = [v \in Window |-> IF v = w THEN a ELSE ask[v]]
    BY DEF IInv, AskShape, Continue
  <1>2. ask'[w] = a /\ \A v \in Window \ {w} : ask'[v] = ask[v]
    BY <1>1
  <1>3. RequestOK(w)'
    BY <1>2 DEF RequestOK, Recent
  <1>4. \A v \in Window \ {w} : RequestOK(v)'
    BY <1>2 DEF RequestInv, RequestOK, Recent
  <1> QED BY <1>3, <1>4 DEF RequestInv

LEMMA RequestEnds ==
  ASSUME IInv, RequestInv, UNCHANGED heard, NEW w \in Window, End(w)
  PROVE  RequestInv'
  <1>1. NoAsk.pc \notin Busy \cup {"storing"}
    BY DEF NoAsk, Busy
  <1> QED BY <1>1, RequestGoesOn DEF End, Busy

(* A fenced request may have found or be told anything.                     *)
LEMMA FenceKeeps ==
  ASSUME IInv, RequestInv, NEW w \in Window, Fence(w), \A v \in Window \ {w} : heard'[v] = heard[v]
  PROVE  RequestInv'
  <1>1. /\ ask'[w] = [ask[w] EXCEPT !.fenced = TRUE] /\ AskFields \subseteq DOMAIN ask[w]
        /\ \A v \in Window \ {w} : ask'[v] = ask[v]
    BY DEF IInv, AskShape, Fence
  <1>2. /\ ask'[w].fenced = TRUE /\ ask'[w].pc = ask[w].pc /\ ask'[w].route = ask[w].route
        /\ ask'[w].found = ask[w].found /\ ask'[w].asked = ask[w].asked
        /\ ask'[w].token = ask[w].token /\ ask'[w].answer = ask[w].answer
    BY <1>1
  <1>3. RequestOK(w)'
    BY <1>2 DEF RequestInv, RequestOK, Recent
  <1>4. \A v \in Window \ {w} : RequestOK(v)'
    BY <1>1 DEF RequestInv, RequestOK, Recent
  <1> QED BY <1>3, <1>4 DEF RequestInv

LEMMA AskForKeeps ==
  ASSUME CInv, NEW w \in Window, NEW id, AskFor(w, id)
  PROVE  RequestInv'
  <1> DEFINE a == [NoAsk EXCEPT !.pc = "look", !.route = route[w], !.id = id]
  <1>1. UNCHANGED heard /\ (UNCHANGED ask \/ Continue(w, a))
    BY DEF AskFor
  <1>2. a.pc = "look" /\ a.route \in Route
    BY DEF NoAsk, CInv, IInv
  <1> HIDE DEF a
  <1> QED BY <1>1, <1>2, RequestsSame, RequestGoesOn DEF CInv

LEMMA LookKeeps ==
  ASSUME CInv, NEW w \in Window, Look(w)
  PROVE  RequestInv'
  <1> DEFINE found == CacheGet(ask[w].route)
             a == [ask[w] EXCEPT !.pc = "got", !.found = found, !.fenced = FALSE]
  <1>1. UNCHANGED heard /\ (End(w) \/ Continue(w, a))
    BY DEF Look
  <1>2. ask[w].route \in Route
    BY DEF CInv, RequestInv, RequestOK, Look, Busy
  <1>3. a.pc = "got" /\ a.route = ask[w].route /\ a.found = found
    BY RequestFields DEF CInv
  <1>4. found # None => /\ found \in Answer /\ found.route = ask[w].route
                        /\ found.asked = epoch[Owner[ask[w].route]]
    BY <1>2 DEF CacheGet, Readable, CInv, CacheInv, RowOK
  <1>5. found # None => found.asked \in Nat /\ found.asked >= heard[w][Owner[ask[w].route]]
    BY <1>2, <1>4, CacheAssumption DEF CInv, HeardInv, CacheInv, Answer
  <1> HIDE DEF a, found
  <1>6. CASE End(w)
    BY <1>1, <1>6, RequestEnds DEF CInv
  <1>7. CASE Continue(w, a)
    BY <1>1, <1>2, <1>3, <1>4, <1>5, <1>7, RequestGoesOn DEF CInv
  <1> QED BY <1>1, <1>6, <1>7

LEMMA SendKeeps ==
  ASSUME CInv, NEW w \in Window, NEW token, SendWith(w, token),
         token # None => token = epoch[Owner[route[w]]]
  PROVE  RequestInv'
  <1> DEFINE asked == cleared[Owner[route[w]]]
             a == [ask[w] EXCEPT !.pc = "wait", !.found = None, !.fenced = FALSE,
                                 !.token = token, !.asked = asked]
  <1>1. UNCHANGED heard /\ Continue(w, a)
    BY DEF SendWith
  <1>2. ask[w].route = route[w] /\ route[w] \in Route
    BY DEF CInv, IInv, SendWith, IsCurrent
  <1>3. a.pc = "wait" /\ a.route = route[w] /\ a.token = token /\ a.asked = asked
    BY <1>2, RequestFields DEF CInv
  <1>4. asked = epoch[Owner[route[w]]] /\ asked \in Nat /\ asked >= heard[w][Owner[route[w]]]
    BY <1>2, CacheAssumption DEF CInv, HeardInv, CacheInv
  <1> HIDE DEF a, asked
  <1> QED BY <1>1, <1>2, <1>3, <1>4, RequestGoesOn DEF CInv

LEMMA ChargeKeeps ==
  ASSUME CInv, NEW w \in Window, Charge(w)
  PROVE  RequestInv'
  <1> DEFINE a == [ask[w] EXCEPT !.pc = "served"]
  <1>1. UNCHANGED heard /\ Continue(w, a)
    BY DEF Charge
  <1>2. /\ ask[w].route \in Route /\ Recent(w, ask[w].route, ask[w].asked)
        /\ ask[w].token # None => ask[w].token = ask[w].asked
    BY DEF CInv, RequestInv, RequestOK, Charge, Busy
  <1>3. /\ a.pc = "served" /\ a.route = ask[w].route /\ a.token = ask[w].token
        /\ a.asked = ask[w].asked /\ a.fenced = ask[w].fenced
    BY RequestFields DEF CInv
  <1> HIDE DEF a
  <1> QED BY <1>1, <1>2, <1>3, RequestGoesOn DEF CInv, Recent

-----------------------------------------------------------------------------
(* The actions.                                                             *)

LEMMA AskingKeeps ==
  ASSUME CInv, NEW w \in Window, AskForHelp(w) \/ Replace(w)
  PROVE  CInv'
  <1>1. PICK id : AskFor(w, id)
    BY DEF AskForHelp, Replace
  <1>2. IInv'
    BY AskForHelpStep, ReplaceStep DEF CInv
  <1>3. RequestInv'
    BY <1>1, AskForKeeps
  <1>4. UNCHANGED <<epoch, row, task, memory, inbox, cleared, heard>>
    BY <1>1 DEF AskFor
  <1>5. CacheInv' /\ MemoryInv'
    BY <1>4, CacheSame, MemorySame DEF CInv
  <1>6. HeardInv'
    BY <1>4 DEF CInv, HeardInv
  <1> QED BY <1>2, <1>3, <1>5, <1>6 DEF CInv

(* Steps that change nothing but a request.                                 *)
LEMMA RequestOnly ==
  ASSUME CInv, IInv', RequestInv', UNCHANGED <<epoch, row, task, memory, inbox, cleared, heard>>
  PROVE  CInv'
  <1>1. CacheInv' /\ MemoryInv'
    BY CacheSame, MemorySame DEF CInv
  <1>2. HeardInv'
    BY DEF CInv, HeardInv
  <1> QED BY <1>1, <1>2 DEF CInv

LEMMA RequestSteps ==
  ASSUME CInv, NEW w \in Window,
         \/ Look(w) \/ Send(w) \/ SendWithoutToken(w) \/ Charge(w) \/ AlreadyCharged(w) \/ Lose(w)
  PROVE  CInv'
  <1>1. CASE Look(w)
    <2>1. IInv' /\ RequestInv'
      BY <1>1, LookStep, LookKeeps DEF CInv
    <2> QED BY <1>1, <2>1, RequestOnly DEF Look
  <1>2. ASSUME NEW token, SendWith(w, token), token # None => token = epoch[Owner[route[w]]]
        PROVE  CInv'
    <2>1. IInv' /\ RequestInv'
      BY <1>2, SendStep, SendKeeps DEF CInv
    <2> QED BY <1>2, <2>1, RequestOnly DEF SendWith
  <1>3. CASE Send(w) \/ SendWithoutToken(w)
    BY <1>2, <1>3 DEF Send, SendWithoutToken
  <1>4. CASE Charge(w)
    <2>1. IInv' /\ RequestInv'
      BY <1>4, ChargeStep, ChargeKeeps DEF CInv
    <2> QED BY <1>4, <2>1, RequestOnly DEF Charge
  <1>5. CASE AlreadyCharged(w) \/ Lose(w)
    <2>1. IInv'
      BY <1>5, AlreadyChargedStep, EndingSteps DEF CInv
    <2>2. End(w) /\ UNCHANGED <<epoch, row, task, memory, inbox, cleared, heard>>
      BY <1>5 DEF AlreadyCharged, Lose
    <2> QED BY <2>1, <2>2, RequestEnds, RequestOnly DEF CInv
  <1> QED BY <1>1, <1>3, <1>4, <1>5

LEMMA UseFoundKeeps ==
  ASSUME CInv, NEW w \in Window, UseFound(w)
  PROVE  CInv'
  <1>1. IInv'
    BY EndingSteps DEF CInv
  <1>2. End(w) /\ UNCHANGED <<epoch, row, task, inbox, cleared, heard>>
    BY DEF UseFound
  <1>3. RequestInv' /\ CacheInv'
    BY <1>2, RequestEnds, CacheSame DEF CInv
  <1>4. HeardInv'
    BY <1>2 DEF CInv, HeardInv
  <1>5. MemoryInv'
    <2>1. CASE IsCurrent(w)
      <3> DEFINE found == ask[w].found
      <3>1. ask[w].pc = "got" /\ found # None /\ ~ask[w].fenced /\ Remember(w, found)
        BY <2>1 DEF UseFound, Usable
      <3>2. found \in Answer /\ found.asked >= heard[w][Owner[found.route]]
        BY <3>1 DEF CInv, RequestInv, RequestOK, Recent
      <3> QED BY <1>2, <3>1, <3>2, RememberKeeps DEF CInv
    <2>2. CASE ~IsCurrent(w)
      BY <1>2, <2>2, MemorySame DEF CInv, UseFound
    <2> QED BY <2>1, <2>2
  <1> QED BY <1>1, <1>3, <1>4, <1>5 DEF CInv

(* The answer of a request that was not fenced is recent, and is stored     *)
(* with the epoch its request was made in.                                  *)
LEMMA ReceiveKeeps ==
  ASSUME CInv, NEW w \in Window, Receive(w), answers \in Nat
  PROVE  CInv'
  <1> DEFINE x == <<w, "ask">>
             answer == [route |-> ask[w].route, stamp |-> answers + 1, asked |-> ask[w].asked]
             a == [NoAsk EXCEPT !.pc = "storing", !.route = ask[w].route, !.answer = answer]
             t == SetTask(answer, ask[w].token)
  <1>1. IInv'
    BY ReceiveStep DEF CInv
  <1>2. /\ UNCHANGED <<epoch, row, memory, inbox, cleared, heard>>
        /\ \/ End(w) /\ UNCHANGED task
           \/ /\ ~ask[w].fenced /\ ask[w].token # None
              /\ task' = [task EXCEPT ![x] = t] /\ Continue(w, a)
    BY DEF Receive
  <1>3. MemoryInv'
    BY <1>2, MemorySame DEF CInv
  <1>4. HeardInv'
    BY <1>2 DEF CInv, HeardInv
  <1>5. CASE End(w) /\ UNCHANGED task
    BY <1>1, <1>2, <1>3, <1>4, <1>5, RequestEnds, CacheSame DEF CInv
  <1>6. CASE /\ ~ask[w].fenced /\ ask[w].token # None
             /\ task' = [task EXCEPT ![x] = t] /\ Continue(w, a)
    <2>1. /\ ask[w].route \in Route /\ ask[w].asked \in Nat /\ ask[w].token = ask[w].asked
          /\ ask[w].asked >= heard[w][Owner[ask[w].route]]
      BY <1>6 DEF CInv, RequestInv, RequestOK, Recent, Receive, Busy
    <2>2. /\ answer \in Answer /\ answer.route = ask[w].route /\ answer.asked = ask[w].asked
      BY <2>1 DEF Answer
    <2>3. a.pc = "storing" /\ a.answer = answer
      BY DEF NoAsk
    <2>4. /\ t.pc = "read" /\ t.account = Owner[answer.route] /\ t.answer = answer
          /\ t.token = ask[w].token /\ TaskFields \subseteq DOMAIN t
      BY DEF SetTask, Idle, TaskFields
    <2>5. x \in Activity
      BY DEF Activity
    <2> HIDE DEF answer, a, t, x
    <2>6. TaskOK(t)
      BY <2>1, <2>2, <2>4, CacheAssumption DEF TaskOK
    <2>7. CacheInv'
      BY <1>2, <1>6, <2>4, <2>5, <2>6, TaskGoesOn DEF CInv
    <2>8. RequestInv'
      BY <1>2, <1>6, <2>1, <2>2, <2>3, RequestGoesOn DEF CInv, Busy
    <2> QED BY <1>1, <1>3, <1>4, <2>7, <2>8 DEF CInv
  <1> QED BY <1>2, <1>5, <1>6

LEMMA KeepAnswerKeeps ==
  ASSUME CInv, NEW w \in Window, KeepAnswer(w)
  PROVE  CInv'
  <1>1. IInv'
    BY EndingSteps DEF CInv
  <1>2. /\ End(w) /\ UNCHANGED <<epoch, row, inbox, cleared, heard>>
        /\ task' = [task EXCEPT ![<<w, "ask">>] = Idle]
    BY DEF KeepAnswer
  <1>3. RequestInv'
    BY <1>2, RequestEnds DEF CInv
  <1>4. CacheInv'
    <2>1. <<w, "ask">> \in Activity
      BY DEF Activity
    <2>2. TaskOK(Idle) /\ TaskFields \subseteq DOMAIN Idle
      BY DEF TaskOK, Idle, TaskFields
    <2> QED BY <1>2, <2>1, <2>2, TaskGoesOn DEF CInv
  <1>5. HeardInv'
    BY <1>2 DEF CInv, HeardInv
  <1>6. MemoryInv'
    <2>1. CASE UNCHANGED memory
      BY <1>2, <2>1, MemorySame DEF CInv
    <2>2. CASE ~ask[w].fenced /\ Remember(w, ask[w].answer)
      <3> DEFINE answer == ask[w].answer
      <3>1. answer \in Answer /\ answer.asked >= heard[w][Owner[answer.route]]
        BY <2>2 DEF CInv, RequestInv, RequestOK, Recent, KeepAnswer
      <3> QED BY <1>2, <2>2, <3>1, RememberKeeps DEF CInv
    <2> QED BY <2>1, <2>2 DEF KeepAnswer
  <1> QED BY <1>1, <1>3, <1>4, <1>5, <1>6 DEF CInv

(* A window that clears or hears of a clear fences its request and forgets. *)
LEMMA WindowSteps ==
  ASSUME CInv, IInv', NEW w \in Window,
         BeginClear(w) \/ Hear(w) \/ Focus(w) \/ (\E r \in Route : ChangeRoute(w, r))
  PROVE  CInv'
  <1>1. CASE BeginClear(w)
    <2> DEFINE x == <<w, "clear">>
               t == ClearTask(Owner[route[w]])
    <2>1. /\ Forget(w) /\ Fence(w) /\ task' = [task EXCEPT ![x] = t]
          /\ UNCHANGED <<epoch, row, inbox, cleared, heard>>
      BY <1>1 DEF BeginClear
    <2>2. /\ t.pc = "read" /\ t.account = Owner[route[w]] /\ t.answer = None
          /\ TaskFields \subseteq DOMAIN t
      BY DEF ClearTask, Idle, TaskFields
    <2>3. x \in Activity /\ Owner[route[w]] \in Account
      BY CacheAssumption DEF Activity, CInv, IInv
    <2> HIDE DEF x, t
    <2>4. TaskOK(t)
      BY <2>2, <2>3 DEF TaskOK
    <2>5. CacheInv'
      BY <2>1, <2>2, <2>3, <2>4, TaskGoesOn DEF CInv
    <2>6. HeardInv'
      BY <2>1 DEF CInv, HeardInv
    <2>7. MemoryInv' /\ RequestInv'
      BY <2>1, ForgetKeeps, FenceKeeps DEF CInv
    <2> QED BY <2>5, <2>6, <2>7 DEF CInv
  <1>2. CASE Hear(w)
    <2>1. PICK m \in inbox[w] :
             /\ Forget(w) /\ Fence(w) /\ UNCHANGED <<epoch, row, task, cleared>>
             /\ inbox' = [inbox EXCEPT ![w] = @ \ {m}]
             /\ heard' = [heard EXCEPT ![w][m.account] = IF m.clears > @ THEN m.clears ELSE @]
      BY <1>2 DEF Hear
    <2>2. HeardInv' /\ \A v \in Window \ {w} : heard'[v] = heard[v]
      BY <2>1, HearKeeps DEF CInv
    <2>3. CacheInv' /\ MemoryInv' /\ RequestInv'
      BY <2>1, <2>2, CacheSame, ForgetKeeps, FenceKeeps DEF CInv
    <2> QED BY <2>2, <2>3 DEF CInv
  <1>3. CASE Focus(w) \/ (\E r \in Route : ChangeRoute(w, r))
    <2>1. /\ Forget(w) \/ UNCHANGED memory
          /\ UNCHANGED <<epoch, row, task, ask, inbox, cleared, heard>>
      BY <1>3 DEF Focus, ChangeRoute
    <2>2. CacheInv' /\ RequestInv'
      BY <2>1, CacheSame, RequestsSame DEF CInv
    <2>3. HeardInv'
      BY <2>1 DEF CInv, HeardInv
    <2>4. MemoryInv'
      BY <2>1, MemorySame, ForgetKeeps DEF CInv
    <2> QED BY <2>2, <2>3, <2>4 DEF CInv
  <1> QED BY <1>1, <1>2, <1>3

(* The cache's tasks.                                                       *)
LEMMA TaskSteps ==
  ASSUME CInv, IInv', NEW x \in Activity,
         Step(x) \/ Store(x) \/ Clear(x) \/ StorageFailure(x) \/ EndTask(x)
  PROVE  CInv'
  <1>1. UNCHANGED <<ask, memory, heard>>
    BY DEF Step, Store, Clear, StorageFailure, EndTask
  <1>2. MemoryInv' /\ RequestInv'
    BY <1>1, MemorySame, RequestsSame DEF CInv
  <1>3. x[1] \in Window
    BY DEF Activity
  <1>4. CASE Step(x) \/ StorageFailure(x) \/ EndTask(x)
    <2>1. UNCHANGED <<epoch, inbox, cleared>>
      BY <1>4 DEF Step, StorageFailure, EndTask, Quiet, ReadRows, Scan, Drop, CacheFailure
    <2>2. ASSUME Step(x)
          PROVE  CacheInv'
      BY <2>1, <2>2, QuietKeeps DEF CInv, Step
    <2>3. ASSUME StorageFailure(x)
          PROVE  CacheInv'
      BY <2>1, <2>3, FailureKeeps DEF CInv, StorageFailure
    <2>4. ASSUME EndTask(x)
          PROVE  CacheInv'
      <3>1. task' = [task EXCEPT ![x] = Idle] /\ row' = row
        BY <2>4 DEF EndTask
      <3>2. TaskOK(Idle) /\ TaskFields \subseteq DOMAIN Idle
        BY DEF TaskOK, Idle, TaskFields
      <3> QED BY <2>1, <3>1, <3>2, TaskGoesOn DEF CInv
    <2>5. CacheInv'
      BY <1>4, <2>2, <2>3, <2>4
    <2>6. HeardInv'
      BY <1>1, <2>1 DEF CInv, HeardInv
    <2> QED BY <1>2, <2>5, <2>6 DEF CInv
  <1>5. CASE Store(x)
    <2> DEFINE a == task[x].account
    <2>1. CommitSet(x) /\ cleared' = cleared /\ Notify(x[1], a, cleared[a])
      BY <1>5 DEF Store
    <2>2. CacheInv' /\ epoch' = epoch
      BY <2>1, CommitSetKeeps DEF CInv
    <2>3. a \in Account
      BY <2>1 DEF CInv, CacheInv, TaskOK, CommitSet
    <2>4. epoch'[a] = cleared[a] /\ \A b \in Account : epoch'[b] >= epoch[b]
      BY <2>2, <2>3 DEF CInv, CacheInv
    <2>5. HeardInv'
      <3>1. Notify(x[1], a, epoch'[a])
        BY <2>1, <2>4
      <3> HIDE DEF a
      <3> QED BY <1>1, <1>3, <2>2, <2>3, <2>4, <3>1, HeardSame DEF CInv
    <2> QED BY <1>2, <2>2, <2>5 DEF CInv
  <1>6. CASE Clear(x)
    <2> DEFINE a == task[x].account
    <2>1. CommitClear(x) /\ cleared' = [cleared EXCEPT ![a] = @ + 1] /\ Notify(x[1], a, cleared'[a])
      BY <1>6 DEF Clear
    <2>2. CacheInv' /\ a \in Account /\ \A b \in Account : epoch'[b] >= epoch[b]
      BY <2>1, CommitClearKeeps DEF CInv
    <2>3. epoch'[a] = cleared'[a]
      BY <2>2 DEF CacheInv
    <2>4. HeardInv'
      <3>1. Notify(x[1], a, epoch'[a])
        BY <2>1, <2>3
      <3> HIDE DEF a
      <3> QED BY <1>1, <1>3, <2>2, <3>1, HeardSame DEF CInv
    <2> QED BY <1>2, <2>2, <2>4 DEF CInv
  <1> QED BY <1>4, <1>5, <1>6

LEMMA AnswersCounted ==
  ASSUME answers \in Nat, [Next]_vars
  PROVE  answers' \in Nat
  <1>1. answers' = answers \/ answers' = answers + 1
    BY DEF Next, vars, AskForHelp, Replace, AskFor, Look, UseFound, Send, SendWithoutToken, SendWith,
           Bounded, Charge, AlreadyCharged, Lose, Receive, KeepAnswer, BeginClear, Hear, Focus,
           ChangeRoute, Step, Store, Clear, StorageFailure, EndTask
  <1> QED BY <1>1

-----------------------------------------------------------------------------
(* The theorem.                                                             *)

LEMMA ClearInit == Init => CInv
  <1> SUFFICES ASSUME Init
               PROVE  CInv
    OBVIOUS
  <1>1. CacheInv
    <2>1. TaskShape /\ \A x \in Activity : TaskOK(task[x])
      BY DEF Init, CacheInit, TaskShape, TaskOK, Idle, TaskFields
    <2>2. /\ epoch \in [Account -> Nat] /\ epoch = cleared
          /\ row = [r \in Route |-> row[r]] /\ \A r \in Route : RowOK(r)
      BY DEF Init, CacheInit, RowOK
    <2> QED BY <2>1, <2>2 DEF CacheInv
  <1>2. HeardInv
    BY DEF Init, CacheInit, HeardInv
  <1>3. MemoryInv
    BY DEF Init, MemoryInv
  <1>4. RequestInv
    BY DEF Init, NoAsk, RequestInv, RequestOK, Busy
  <1> QED BY <1>1, <1>2, <1>3, <1>4, InitInv DEF CInv

LEMMA ClearNext == CInv /\ answers \in Nat /\ [Next]_vars => CInv'
  <1> SUFFICES ASSUME CInv, answers \in Nat, [Next]_vars
               PROVE  CInv'
    OBVIOUS
  <1>1. IInv'
    BY NextInv DEF CInv
  <1>2. CASE UNCHANGED vars
    <2>1. UNCHANGED <<epoch, row, task, memory, ask, inbox, cleared, heard>>
      BY <1>2 DEF vars
    <2> QED BY <1>1, <2>1, RequestsSame, RequestOnly DEF CInv
  <1>3. ASSUME NEW w \in Window,
               \/ AskForHelp(w) \/ Replace(w) \/ Look(w) \/ UseFound(w)
               \/ Send(w) \/ SendWithoutToken(w) \/ Charge(w) \/ AlreadyCharged(w) \/ Lose(w)
               \/ Receive(w) \/ KeepAnswer(w)
        PROVE  CInv'
    BY <1>3, AskingKeeps, RequestSteps, UseFoundKeeps, ReceiveKeeps, KeepAnswerKeeps
  <1>4. ASSUME NEW w \in Window,
               BeginClear(w) \/ Hear(w) \/ Focus(w) \/ (\E r \in Route : ChangeRoute(w, r))
        PROVE  CInv'
    BY <1>1, <1>4, WindowSteps
  <1>5. ASSUME NEW x \in Activity,
               Step(x) \/ Store(x) \/ Clear(x) \/ StorageFailure(x) \/ EndTask(x)
        PROVE  CInv'
    BY <1>1, <1>5, TaskSteps
  <1> QED BY <1>2, <1>3, <1>4, <1>5 DEF Next

(* For any number of windows, routes, requests and clears, what the cache   *)
(* returns was asked for after the last clear of its account, and a window  *)
(* has nothing in memory that is older than a clear it was told of (the     *)
(* epoch and the write token of ai-cache.ts, the fence of ai.ts).           *)
THEOREM ClearsAreFinal == Spec => []ClearedStaysCleared
  <1> DEFINE Inv == CInv /\ answers \in Nat
  <1>1. Init => Inv
    BY ClearInit DEF Init
  <1>2. Inv /\ [Next]_vars => Inv'
    BY ClearNext, AnswersCounted
  <1>3. Inv => ClearedStaysCleared
    BY DEF CInv, CacheInv, RowOK, MemoryInv, Readable, ClearedStaysCleared
  <1> QED BY <1>1, <1>2, <1>3, PTL DEF Spec

-----------------------------------------------------------------------------
(* What a prune may delete: the inductive invariant.                        *)

TaskStage == {"idle", "read", "commit", "scan", "drop", "stored", "invalid", "failed"}
Tries == 0..MaxAttempts
Task == [pc : TaskStage, account : Account \cup {None}, answer : Answer \cup {None},
         token : Nat \cup {None}, stale : BOOLEAN, tries : Tries, doomed : SUBSET Answer]
AskStage == {"idle", "look", "got", "wait", "served", "storing"}

CacheTyped ==
    /\ row \in [Route -> Row \cup {None}]
    /\ task \in [Activity -> Task]

(* All the cache holds was stored once.                                     *)
StoredOK ==
    /\ stored \subseteq Answer
    /\ IsFiniteSet({r \in Route : \E s \in stored : s.route = r})
    /\ \A r \in Route : row[r] # None => row[r].answer \in stored

(* The routes of the newer answers, among those that were stored.           *)
Newer(answers_stored, e, a) ==
    {r \in Route \ {a.route} :
        /\ Owner[r] = Owner[a.route]
        /\ \E s \in answers_stored : s.route = r /\ s.asked = e /\ s.stamp > a.stamp}

(* A prune deletes answers of the account it read, and of its epoch only    *)
(* those which enough newer ones make superfluous.                          *)
WorkOK(answers_stored, t) ==
    /\ t.pc \in {"read", "commit", "scan", "drop"} => t.account \in Account
    /\ t.pc = "drop" =>
          /\ t.token \in Nat
          /\ \A a \in t.doomed :
                /\ Owner[a.route] = t.account
                /\ a.asked = t.token => Cardinality(Newer(answers_stored, t.token, a)) >= MaxCached

Works == \A x \in Activity : WorkOK(stored, task[x])

(* Every clear that is done or about to be was counted when it began.       *)
Pending(t) == t.pc \in {"read", "commit"} /\ t.answer = None
Clearing == {x \in Activity : Pending(task[x])}

Counted ==
    /\ clears \in 0..MaxClears
    /\ IsFiniteSet(Clearing)
    /\ \A a \in Account : cleared[a] + Cardinality(Clearing) <= clears

Inboxes == inbox \in [Window -> SUBSET [account : Account, clears : 0..MaxClears]]

AskTyped == \A w \in Window : ask[w].pc \in AskStage /\ ask[w].route \in Route \cup {None}

TInv ==
    /\ CInv /\ answers \in Nat
    /\ CacheTyped /\ StoredOK /\ Works
    /\ Counted /\ Inboxes /\ AskTyped

-----------------------------------------------------------------------------
(* The tasks.                                                               *)

(* What a step may do to the tasks it is not about.                         *)
SameTask(t, u) ==
    /\ u.pc = t.pc /\ u.account = t.account /\ u.answer = t.answer
    /\ u.token = t.token /\ u.doomed = t.doomed

(* More answers stored: no fewer newer ones.                                *)
LEMMA NewerGrows ==
  ASSUME NEW s1, NEW s2, s1 \subseteq s2, NEW e, NEW a,
         IsFiniteSet({r \in Route : \E s \in s2 : s.route = r})
  PROVE  /\ Cardinality(Newer(s1, e, a)) \in Nat /\ Cardinality(Newer(s2, e, a)) \in Nat
         /\ Cardinality(Newer(s1, e, a)) <= Cardinality(Newer(s2, e, a))
  <1>1. Newer(s2, e, a) \in SUBSET {r \in Route : \E s \in s2 : s.route = r}
    BY DEF Newer
  <1>2. IsFiniteSet(Newer(s2, e, a))
    BY <1>1, FS_Subset
  <1>3. Newer(s1, e, a) \in SUBSET Newer(s2, e, a)
    BY DEF Newer
  <1>4. IsFiniteSet(Newer(s1, e, a)) /\ Cardinality(Newer(s1, e, a)) <= Cardinality(Newer(s2, e, a))
    BY <1>2, <1>3, FS_Subset
  <1> QED BY <1>2, <1>4, FS_CardinalityType

LEMMA WorkGrows ==
  ASSUME NEW s1, NEW s2, s1 \subseteq s2, NEW t, NEW u, SameTask(t, u), WorkOK(s1, t),
         IsFiniteSet({r \in Route : \E s \in s2 : s.route = r})
  PROVE  WorkOK(s2, u)
  <1>1. ASSUME t.pc = "drop", NEW a \in t.doomed, a.asked = t.token
        PROVE  Cardinality(Newer(s2, t.token, a)) >= MaxCached
    <2>1. Cardinality(Newer(s1, t.token, a)) >= MaxCached
      BY <1>1 DEF WorkOK
    <2> DEFINE n1 == Cardinality(Newer(s1, t.token, a))
               n2 == Cardinality(Newer(s2, t.token, a))
    <2>2. n1 \in Nat /\ n2 \in Nat /\ n1 <= n2
      BY NewerGrows
    <2> HIDE DEF n1, n2
    <2>3. n1 >= MaxCached => n2 >= MaxCached
      BY <2>2, CacheAssumption
    <2> QED BY <2>1, <2>3 DEF n1, n2
  <1> QED BY <1>1 DEF WorkOK, SameTask

(* One task goes on, the others stay or become stale.                       *)
LEMMA TaskMoves ==
  ASSUME CacheTyped, Works, StoredOK', stored \subseteq stored',
         NEW x \in Activity, NEW t \in Task, WorkOK(stored', t),
         row' \in [Route -> Row \cup {None}], task' \in [Activity -> Task], task'[x] = t,
         \A y \in Activity \ {x} : SameTask(task[y], task'[y])
  PROVE  /\ CacheTyped' /\ Works'
         /\ Clearing' = IF Pending(t) THEN Clearing \cup {x} ELSE Clearing \ {x}
  <1>1. CacheTyped'
    BY DEF CacheTyped
  <1>2. ASSUME NEW y \in Activity
        PROVE  WorkOK(stored', task'[y])
    <2>1. CASE y = x
      BY <2>1
    <2>2. CASE y # x
      <3>1. WorkOK(stored, task[y]) /\ SameTask(task[y], task'[y])
        BY <2>2 DEF Works
      <3>2. IsFiniteSet({r \in Route : \E s \in stored' : s.route = r})
        BY DEF StoredOK
      <3> QED BY <3>1, <3>2, WorkGrows
    <2> QED BY <2>1, <2>2
  <1>3. Works'
    BY <1>2 DEF Works
  <1>4. \A y \in Activity \ {x} : Pending(task'[y]) <=> Pending(task[y])
    BY DEF Pending, SameTask
  <1> QED BY <1>1, <1>3, <1>4 DEF Clearing

LEMMA OneTask ==
  ASSUME CacheTyped, NEW x \in Activity, NEW t \in Task, task' = [task EXCEPT ![x] = t]
  PROVE  /\ task' \in [Activity -> Task] /\ task'[x] = t
         /\ \A y \in Activity \ {x} : SameTask(task[y], task'[y])
  BY DEF CacheTyped, SameTask

LEMMA OthersStale ==
  ASSUME CacheTyped, NEW accounts, NEW routes, NEW x \in Activity, NEW t \in Task,
         task' = [Disturbed(accounts, routes) EXCEPT ![x] = t]
  PROVE  /\ task' \in [Activity -> Task] /\ task'[x] = t
         /\ \A y \in Activity \ {x} : SameTask(task[y], task'[y])
  <1> DEFINE d == Disturbed(accounts, routes)
  <1>1. ASSUME NEW y \in Activity
        PROVE  d[y] \in Task /\ SameTask(task[y], d[y])
    <2> DEFINE b == task[y].stale \/ /\ task[y].pc = "commit"
                                     /\ \/ task[y].account \in accounts
                                        \/ task[y].answer # None /\ task[y].answer.route \in routes
    <2>1. task[y] \in Task
      BY DEF CacheTyped
    <2>2. d[y] = [task[y] EXCEPT !.stale = b]
      BY DEF Disturbed
    <2>3. b \in BOOLEAN
      OBVIOUS
    <2> HIDE DEF b, d
    <2> QED BY <2>1, <2>2, <2>3 DEF Task, SameTask
  <1>2. DOMAIN d = Activity /\ task' = [y \in Activity |-> IF y = x THEN t ELSE d[y]]
    BY DEF Disturbed
  <1> HIDE DEF d
  <1> QED BY <1>1, <1>2

LEMMA IdleIsTask ==
  ASSUME NEW label \in TaskStage
  PROVE  /\ [Idle EXCEPT !.pc = label] \in Task /\ Idle \in Task
         /\ label \in {"idle", "stored", "invalid", "failed"} =>
               /\ \A s : WorkOK(s, [Idle EXCEPT !.pc = label])
               /\ ~Pending([Idle EXCEPT !.pc = label])
         /\ \A s : WorkOK(s, Idle)
         /\ ~Pending(Idle)
  <1>1. 0 \in Tries
    BY CacheAssumption DEF Tries
  <1>2. Idle \in Task /\ [Idle EXCEPT !.pc = label] \in Task
    BY <1>1 DEF Idle, Task, TaskStage
  <1> QED BY <1>2 DEF Idle, WorkOK, Pending

(* The routes that are stored stay finitely many.                           *)
LEMMA StoreMore ==
  ASSUME StoredOK, NEW a \in Answer, stored' = stored \cup {a},
         row' \in [Route -> Row \cup {None}],
         \A r \in Route : row'[r] # None => row'[r].answer \in stored'
  PROVE  StoredOK'
  <1> DEFINE before == {r \in Route : \E s \in stored : s.route = r}
             after == {r \in Route : \E s \in stored' : s.route = r}
  <1>1. IsFiniteSet(before)
    BY DEF StoredOK
  <1>2. IsFiniteSet(before \cup {a.route})
    BY <1>1, FS_AddElement
  <1>3. after \in SUBSET (before \cup {a.route})
    OBVIOUS
  <1>4. IsFiniteSet(after)
    <2> HIDE DEF before, after
    <2> QED BY <1>2, <1>3, FS_Subset
  <1> QED BY <1>4 DEF StoredOK

(* Clears are counted, whatever becomes of a task that is not new.          *)
LEMMA FewerClearing ==
  ASSUME Counted, UNCHANGED <<clears, cleared>>, Clearing' \subseteq Clearing,
         cleared \in [Account -> Nat]
  PROVE  Counted'
  <1>1. Clearing' \in SUBSET Clearing /\ IsFiniteSet(Clearing)
    BY DEF Counted
  <1>2. IsFiniteSet(Clearing') /\ Cardinality(Clearing') <= Cardinality(Clearing)
    BY <1>1, FS_Subset
  <1>3. Cardinality(Clearing') \in Nat /\ Cardinality(Clearing) \in Nat
    BY <1>1, <1>2, FS_CardinalityType
  <1>4. clears \in Nat
    BY BoundsAssumption DEF Counted
  <1> QED BY <1>2, <1>3, <1>4 DEF Counted

(* A step of one task that stores nothing and begins no clear.              *)
LEMMA TaskOnly ==
  ASSUME TInv, NEW x \in Activity, NEW t \in Task, WorkOK(stored, t),
         Pending(t) => Pending(task[x]),
         task' \in [Activity -> Task], task'[x] = t,
         \A y \in Activity \ {x} : SameTask(task[y], task'[y]),
         row' = row \/ \E r \in Route : row' = [row EXCEPT ![r] = None],
         stored' = stored, clears' = clears, cleared' = cleared
  PROVE  CacheTyped' /\ StoredOK' /\ Works' /\ Counted'
  <1>1. row' \in [Route -> Row \cup {None}] /\ \A r \in Route : row'[r] = row[r] \/ row'[r] = None
    BY DEF TInv, CacheTyped
  <1>2. StoredOK'
    BY <1>1 DEF TInv, StoredOK
  <1>3. /\ CacheTyped' /\ Works'
        /\ Clearing' = IF Pending(t) THEN Clearing \cup {x} ELSE Clearing \ {x}
    BY <1>1, <1>2, TaskMoves DEF TInv
  <1>4. Clearing' \subseteq Clearing
    BY <1>3 DEF Clearing
  <1>5. Counted'
    BY <1>4, FewerClearing DEF TInv, CInv, CacheInv
  <1> QED BY <1>2, <1>3, <1>5

LEMMA ReadRowsTyped ==
  ASSUME TInv, NEW x \in Activity, ReadRows(x),
         stored' = stored, clears' = clears, cleared' = cleared
  PROVE  CacheTyped' /\ StoredOK' /\ Works' /\ Counted'
  <1> DEFINE t == task[x]
             u == [t EXCEPT !.pc = "commit", !.stale = FALSE, !.token = epoch[t.account],
                            !.tries = @ + 1]
  <1>1. t \in Task /\ WorkOK(stored, t) /\ t.pc \in {"read", "commit"} /\ row' = row
    BY DEF TInv, CacheTyped, Works, ReadRows
  <1>2. \/ \E label \in {"invalid", "failed"} : task' = [task EXCEPT ![x] = [Idle EXCEPT !.pc = label]]
        \/ task' = [task EXCEPT ![x] = u] /\ t.tries # MaxAttempts
    BY DEF ReadRows, Outcome
  <1>3. ASSUME NEW label \in {"invalid", "failed"},
               task' = [task EXCEPT ![x] = [Idle EXCEPT !.pc = label]]
        PROVE  CacheTyped' /\ StoredOK' /\ Works' /\ Counted'
    <2> DEFINE i == [Idle EXCEPT !.pc = label]
    <2>1. i \in Task /\ WorkOK(stored, i) /\ ~Pending(i)
      BY IdleIsTask DEF TaskStage
    <2> HIDE DEF i
    <2>2. /\ task' \in [Activity -> Task] /\ task'[x] = i
          /\ \A y \in Activity \ {x} : SameTask(task[y], task'[y])
      BY <1>3, <2>1, OneTask DEF TInv, i
    <2> QED BY <1>1, <2>1, <2>2, TaskOnly
  <1>4. CASE task' = [task EXCEPT ![x] = u] /\ t.tries # MaxAttempts
    <2>1. t.tries + 1 \in Tries
      BY <1>1, <1>4, CacheAssumption DEF Task, Tries
    <2>2. epoch[t.account] \in Nat
      BY <1>1 DEF WorkOK, TInv, CInv, CacheInv
    <2>3. u \in Task
      BY <1>1, <2>1, <2>2 DEF Task, TaskStage
    <2>4. u.pc = "commit" /\ u.account = t.account /\ u.answer = t.answer
      BY <1>1 DEF Task
    <2> HIDE DEF u
    <2>5. WorkOK(stored, u) /\ (Pending(u) => Pending(t))
      BY <1>1, <2>4 DEF WorkOK, Pending
    <2>6. /\ task' \in [Activity -> Task] /\ task'[x] = u
          /\ \A y \in Activity \ {x} : SameTask(task[y], task'[y])
      BY <1>4, <2>3, OneTask DEF TInv
    <2> QED BY <1>1, <2>3, <2>5, <2>6, TaskOnly
  <1> QED BY <1>2, <1>3, <1>4

LEMMA EndedTask ==
  ASSUME NEW t
  PROVE  Ended(t) \in Task /\ ~Pending(Ended(t)) /\ \A s : WorkOK(s, Ended(t))
  <1>1. Ended(t) = Idle \/ Ended(t) = [Idle EXCEPT !.pc = "stored"]
    BY DEF Ended
  <1>2. "stored" \in TaskStage
    BY DEF TaskStage
  <1> QED BY <1>1, <1>2, IdleIsTask

(* What a prune finds superfluous has enough newer answers beside it.       *)
LEMMA ExcessIsOld ==
  ASSUME TInv, NEW account \in Account, NEW kept,
         \A b \in kept : /\ b.route \in Route /\ row[b.route] # None /\ row[b.route].answer = b
                         /\ Owner[b.route] = account /\ b.asked = epoch[account],
         NEW a \in Excess(kept)
  PROVE  Cardinality(Newer(stored, epoch[account], a)) >= MaxCached
  <1> DEFINE above == {b \in kept : b.stamp > a.stamp}
             newer == Newer(stored, epoch[account], a)
             f == [b \in above |-> b.route]
  <1>1. a \in kept /\ Cardinality(above) >= MaxCached
    BY DEF Excess
  <1>2. a \in stored /\ a \in Answer
    BY <1>1 DEF TInv, StoredOK
  <1>3. ASSUME NEW b \in above
        PROVE  b.route \in newer
    <2>1. b \in kept /\ b \in stored /\ b \in Answer /\ b.stamp > a.stamp
      BY DEF TInv, StoredOK
    <2>2. b.route # a.route
      BY <1>1, <1>2, <2>1 DEF Answer
    <2> QED BY <1>1, <2>1, <2>2 DEF Newer
  <1>4. \A b, c \in above : b.route = c.route => b = c
    OBVIOUS
  <1>5. f \in Injection(above, newer)
    <2> HIDE DEF above, newer
    <2>1. f \in [above -> newer]
      BY <1>3
    <2>2. \A b, c \in above : f[b] = f[c] => b = c
      BY <1>4
    <2> HIDE DEF f
    <2> QED BY <2>1, <2>2 DEF Injection, IsInjective
  <1>6. IsFiniteSet(newer)
    <2>1. newer \in SUBSET {r \in Route : \E s \in stored : s.route = r}
      BY DEF Newer
    <2> QED BY <2>1, FS_Subset DEF TInv, StoredOK
  <1>7. IsFiniteSet(above) /\ Cardinality(above) <= Cardinality(newer)
    <2> HIDE DEF above, newer, f
    <2> QED BY <1>5, <1>6, FS_Injection
  <1>8. Cardinality(above) \in Nat /\ Cardinality(newer) \in Nat
    <2> HIDE DEF above, newer
    <2> QED BY <1>6, <1>7, FS_CardinalityType
  <1> QED BY <1>1, <1>7, <1>8, CacheAssumption

LEMMA ScanTyped ==
  ASSUME TInv, NEW x \in Activity, Scan(x),
         stored' = stored, clears' = clears, cleared' = cleared
  PROVE  CacheTyped' /\ StoredOK' /\ Works' /\ Counted'
  <1> DEFINE t == task[x]
             rows == {s \in Route : Owner[s] = t.account /\ row[s] # None}
             old == {row[r].answer : r \in {s \in rows : ~Readable(s)}}
             kept == {row[r].answer : r \in rows} \ old
             doomed == old \cup Excess(kept)
             u == [t EXCEPT !.pc = "drop", !.doomed = doomed, !.token = epoch[t.account]]
  <1>1. t \in Task /\ t.pc = "scan" /\ t.account \in Account /\ row' = row
    BY DEF TInv, CacheTyped, Works, WorkOK, Scan
  <1>2. epoch[t.account] \in Nat
    BY <1>1 DEF TInv, CInv, CacheInv
  <1>3. \A r \in rows : /\ row[r].answer \in Answer /\ row[r].answer.route = r
                        /\ row[r].epoch = row[r].answer.asked
    BY DEF TInv, CInv, CacheInv, RowOK
  <1>4. \A b \in kept : /\ b.route \in Route /\ row[b.route] # None /\ row[b.route].answer = b
                        /\ Owner[b.route] = t.account /\ b.asked = epoch[t.account]
                        /\ b \in Answer
    BY <1>3 DEF Readable
  <1>5. \A a \in old : a \in Answer /\ a.asked # epoch[t.account] /\ Owner[a.route] = t.account
    BY <1>3 DEF Readable
  <1>6. doomed \subseteq Answer
    BY <1>4, <1>5 DEF Excess
  <1>7. task' = [task EXCEPT ![x] = IF doomed = {} THEN Ended(t) ELSE u]
    BY DEF Scan
  <1>8. \A a \in Excess(kept) : Cardinality(Newer(stored, epoch[t.account], a)) >= MaxCached
    <2> HIDE DEF kept
    <2> QED BY <1>1, <1>4, ExcessIsOld
  <1>9. \A a \in doomed :
           /\ Owner[a.route] = t.account
           /\ a.asked = epoch[t.account] =>
                 Cardinality(Newer(stored, epoch[t.account], a)) >= MaxCached
    <2>1. \A a \in Excess(kept) : Owner[a.route] = t.account
      BY <1>4 DEF Excess
    <2> HIDE DEF old, kept
    <2> QED BY <1>5, <1>8, <2>1
  <1> HIDE DEF doomed
  <1>10. u \in Task /\ u.pc = "drop" /\ u.token = epoch[t.account] /\ u.doomed = doomed
         /\ u.account = t.account
    BY <1>1, <1>2, <1>6 DEF Task, TaskStage
  <1> HIDE DEF u
  <1>11. WorkOK(stored, u) /\ ~Pending(u)
    BY <1>1, <1>2, <1>9, <1>10 DEF WorkOK, Pending
  <1>12. PICK v \in {u, Ended(t)} : task' = [task EXCEPT ![x] = v]
    BY <1>7
  <1>13. v \in Task /\ WorkOK(stored, v) /\ ~Pending(v)
    BY <1>10, <1>11, EndedTask
  <1>14. /\ task' \in [Activity -> Task] /\ task'[x] = v
         /\ \A y \in Activity \ {x} : SameTask(task[y], task'[y])
    BY <1>12, <1>13, OneTask DEF TInv
  <1> QED BY <1>1, <1>13, <1>14, TaskOnly

LEMMA DropTyped ==
  ASSUME TInv, NEW x \in Activity, Drop(x),
         stored' = stored, clears' = clears, cleared' = cleared
  PROVE  CacheTyped' /\ StoredOK' /\ Works' /\ Counted'
  <1> DEFINE t == task[x]
  <1>1. t \in Task /\ t.pc = "drop" /\ WorkOK(stored, t)
    BY DEF TInv, CacheTyped, Works, Drop
  <1>2. CASE epoch[t.account] # t.token
    <2>1. task' = [task EXCEPT ![x] = Ended(t)] /\ row' = row
      BY <1>2 DEF Drop
    <2>2. /\ task' \in [Activity -> Task] /\ task'[x] = Ended(t)
          /\ \A y \in Activity \ {x} : SameTask(task[y], task'[y])
      BY <2>1, EndedTask, OneTask DEF TInv
    <2> QED BY <2>1, <2>2, EndedTask, TaskOnly
  <1>3. CASE epoch[t.account] = t.token
    <2>1. PICK a \in t.doomed :
             /\ DeleteExact(a)
             /\ task' = [Disturbed({}, IF row' = row THEN {} ELSE {a.route}) EXCEPT ![x] =
                            IF t.doomed = {a} THEN Ended(t) ELSE [t EXCEPT !.doomed = @ \ {a}]]
      BY <1>3 DEF Drop
    <2> DEFINE u == [t EXCEPT !.doomed = @ \ {a}]
    <2>2. a \in Answer
      BY <1>1 DEF Task
    <2>3. row' = row \/ \E r \in Route : row' = [row EXCEPT ![r] = None]
      BY <2>1, <2>2 DEF DeleteExact, Answer
    <2>4. /\ u \in Task /\ u.pc = t.pc /\ u.account = t.account /\ u.token = t.token
          /\ u.doomed \subseteq t.doomed /\ u.answer = t.answer
      BY <1>1 DEF Task
    <2> HIDE DEF u
    <2>5. WorkOK(stored, u) /\ ~Pending(u)
      BY <1>1, <2>4 DEF WorkOK, Pending
    <2> DEFINE v == IF t.doomed = {a} THEN Ended(t) ELSE u
               routes == IF row' = row THEN {} ELSE {a.route}
    <2>6. task' = [Disturbed({}, routes) EXCEPT ![x] = v]
      BY <2>1 DEF u
    <2>7. v \in Task /\ WorkOK(stored, v) /\ ~Pending(v)
      BY <2>4, <2>5, EndedTask
    <2> HIDE DEF v, routes
    <2>8. /\ task' \in [Activity -> Task] /\ task'[x] = v
          /\ \A y \in Activity \ {x} : SameTask(task[y], task'[y])
      BY <2>6, <2>7, OthersStale DEF TInv
    <2> QED BY <2>3, <2>7, <2>8, TaskOnly
  <1> QED BY <1>2, <1>3

LEMMA PruningIsTask ==
  ASSUME NEW t \in Task, t.account \in Account
  PROVE  Pruning(t) \in Task /\ ~Pending(Pruning(t)) /\ \A s : WorkOK(s, Pruning(t))
  <1>1. Idle \in Task /\ "scan" \in TaskStage
    BY IdleIsTask DEF TaskStage
  <1>2. Pruning(t) \in Task
    BY <1>1 DEF Pruning, Task
  <1>3. Pruning(t).pc = "scan" /\ Pruning(t).account = t.account
    BY <1>1 DEF Pruning, Task
  <1> QED BY <1>2, <1>3 DEF WorkOK, Pending

LEMMA StoreTyped ==
  ASSUME TInv, NEW x \in Activity, CommitSet(x), stored' = stored \cup {task[x].answer},
         clears' = clears, cleared' = cleared
  PROVE  CacheTyped' /\ StoredOK' /\ Works' /\ Counted'
  <1> DEFINE t == task[x]
             entry == [epoch |-> t.token, answer |-> t.answer]
  <1>1. t \in Task /\ t.pc = "commit" /\ t.account \in Account /\ t.answer \in Answer
    BY DEF TInv, CacheTyped, Works, WorkOK, CommitSet, Task
  <1>2. t.token \in Nat
    <2>1. t.token = epoch[t.account]
      BY <1>1 DEF TInv, CInv, CacheInv, TaskOK, CommitSet
    <2> QED BY <1>1, <2>1 DEF TInv, CInv, CacheInv
  <1>3. entry \in Row
    BY <1>1, <1>2 DEF Row
  <1>4. row' = [row EXCEPT ![t.answer.route] = entry] /\ t.answer.route \in Route
    BY <1>1 DEF CommitSet, Answer
  <1>5. /\ row' \in [Route -> Row \cup {None}]
        /\ \A r \in Route : row'[r] = row[r] \/ row'[r].answer = t.answer
    BY <1>3, <1>4 DEF TInv, CacheTyped
  <1>6. StoredOK'
    <2>1. \A r \in Route : row'[r] # None => row'[r].answer \in stored'
      BY <1>5 DEF TInv, StoredOK
    <2> QED BY <1>1, <1>5, <2>1, StoreMore DEF TInv
  <1>7. task' = [Disturbed({t.account}, {t.answer.route}) EXCEPT ![x] = Pruning(t)]
    BY DEF CommitSet
  <1>8. Pruning(t) \in Task /\ ~Pending(Pruning(t)) /\ WorkOK(stored', Pruning(t))
    BY <1>1, PruningIsTask
  <1>9. /\ task' \in [Activity -> Task] /\ task'[x] = Pruning(t)
        /\ \A y \in Activity \ {x} : SameTask(task[y], task'[y])
    BY <1>7, <1>8, OthersStale DEF TInv
  <1>10. CacheTyped' /\ Works' /\ Clearing' = Clearing \ {x}
    BY <1>5, <1>6, <1>8, <1>9, TaskMoves DEF TInv
  <1>11. Clearing' \subseteq Clearing
    BY <1>10
  <1>12. Counted'
    BY <1>11, FewerClearing DEF TInv, CInv, CacheInv
  <1> QED BY <1>6, <1>10, <1>12

LEMMA ClearTyped ==
  ASSUME TInv, CacheInv', NEW x \in Activity, CommitClear(x), stored' = stored, clears' = clears,
         cleared' = [cleared EXCEPT ![task[x].account] = @ + 1]
  PROVE  CacheTyped' /\ StoredOK' /\ Works' /\ Counted'
  <1> DEFINE t == task[x]
  <1>1. /\ t \in Task /\ t.pc = "commit" /\ t.account \in Account /\ t.answer = None
        /\ row' = row /\ task' = [Disturbed({t.account}, {}) EXCEPT ![x] = Pruning(t)]
    BY DEF TInv, CacheTyped, Works, WorkOK, CommitClear
  <1>2. row' \in [Route -> Row \cup {None}] /\ StoredOK'
    BY <1>1 DEF TInv, CacheTyped, StoredOK
  <1>3. Pruning(t) \in Task /\ ~Pending(Pruning(t)) /\ WorkOK(stored', Pruning(t))
    BY <1>1, PruningIsTask
  <1>4. /\ task' \in [Activity -> Task] /\ task'[x] = Pruning(t)
        /\ \A y \in Activity \ {x} : SameTask(task[y], task'[y])
    BY <1>1, <1>3, OthersStale DEF TInv
  <1>5. CacheTyped' /\ Works' /\ Clearing' = Clearing \ {x}
    BY <1>2, <1>3, <1>4, TaskMoves DEF TInv
  <1>6. x \in Clearing
    BY <1>1 DEF Clearing, Pending
  <1>7. /\ IsFiniteSet(Clearing') /\ Cardinality(Clearing') = Cardinality(Clearing) - 1
        /\ Cardinality(Clearing') \in Nat /\ Cardinality(Clearing) \in Nat
    BY <1>5, <1>6, FS_RemoveElement, FS_CardinalityType DEF TInv, Counted
  <1>8. cleared \in [Account -> Nat] /\ clears \in Nat
    BY BoundsAssumption DEF TInv, CInv, CacheInv, Counted
  <1>9. \A a \in Account : cleared'[a] <= cleared[a] + 1 /\ cleared'[a] \in Nat
    BY <1>8
  <1>10. Counted'
    BY <1>7, <1>8, <1>9 DEF TInv, Counted
  <1> QED BY <1>2, <1>5, <1>10

(* The clears that windows are told of.                                     *)
LEMMA ClearsBounded ==
  ASSUME Counted, cleared \in [Account -> Nat], NEW a \in Account
  PROVE  cleared[a] \in 0..MaxClears
  <1>1. Cardinality(Clearing) \in Nat
    BY FS_CardinalityType DEF Counted
  <1> QED BY <1>1, BoundsAssumption DEF Counted

LEMMA Notified ==
  ASSUME Inboxes, NEW w, NEW a \in Account, NEW n \in 0..MaxClears, Notify(w, a, n)
  PROVE  Inboxes'
  <1> DEFINE m == [account |-> a, clears |-> n]
  <1>1. m \in [account : Account, clears : 0..MaxClears]
    OBVIOUS
  <1>2. inbox' = [v \in Window |-> IF v = w THEN inbox[v] ELSE inbox[v] \cup {m}]
    BY DEF Notify
  <1> HIDE DEF m
  <1> QED BY <1>1, <1>2 DEF Inboxes

LEMMA TaskStepsTyped ==
  ASSUME TInv, CInv', answers' \in Nat, NEW x \in Activity,
         Step(x) \/ Store(x) \/ Clear(x) \/ StorageFailure(x) \/ EndTask(x)
  PROVE  TInv'
  <1>1. ask' = ask /\ clears' = clears
    BY DEF Step, Store, Clear, StorageFailure, EndTask
  <1>2. AskTyped'
    BY <1>1 DEF TInv, AskTyped
  <1>3. cleared \in [Account -> Nat] /\ cleared' \in [Account -> Nat]
    BY DEF TInv, CInv, CacheInv
  <1>4. CASE Step(x) \/ StorageFailure(x) \/ EndTask(x)
    <2>1. UNCHANGED <<inbox, cleared, stored>>
      BY <1>4 DEF Step, StorageFailure, EndTask
    <2>2. Inboxes'
      BY <2>1 DEF TInv, Inboxes
    <2>3. CASE Step(x)
      BY <1>1, <1>2, <2>1, <2>2, <2>3, ReadRowsTyped, ScanTyped, DropTyped DEF Step, Quiet, TInv
    <2>4. CASE StorageFailure(x) \/ EndTask(x)
      <3>1. PICK i \in {Idle, [Idle EXCEPT !.pc = "failed"]} :
               task' = [task EXCEPT ![x] = i] /\ row' = row
        BY <2>4 DEF StorageFailure, EndTask, CacheFailure, Outcome
      <3>2. i \in Task /\ WorkOK(stored, i) /\ ~Pending(i)
        BY IdleIsTask DEF TaskStage
      <3>3. /\ task' \in [Activity -> Task] /\ task'[x] = i
            /\ \A y \in Activity \ {x} : SameTask(task[y], task'[y])
        BY <3>1, <3>2, OneTask DEF TInv
      <3>4. CacheTyped' /\ StoredOK' /\ Works' /\ Counted'
        BY <1>1, <2>1, <3>1, <3>2, <3>3, TaskOnly
      <3> QED BY <1>2, <2>2, <3>4 DEF TInv
    <2> QED BY <1>4, <2>3, <2>4
  <1>5. CASE Store(x)
    <2>1. /\ CommitSet(x) /\ stored' = stored \cup {task[x].answer} /\ cleared' = cleared
          /\ Notify(x[1], task[x].account, cleared[task[x].account])
      BY <1>5 DEF Store
    <2>2. task[x].account \in Account
      BY <2>1 DEF TInv, Works, WorkOK, CommitSet
    <2>3. Inboxes'
      BY <1>3, <2>1, <2>2, ClearsBounded, Notified DEF TInv
    <2>4. CacheTyped' /\ StoredOK' /\ Works' /\ Counted'
      BY <1>1, <2>1, StoreTyped
    <2> QED BY <1>2, <2>3, <2>4 DEF TInv
  <1>6. CASE Clear(x)
    <2> DEFINE a == task[x].account
    <2>1. /\ CommitClear(x) /\ stored' = stored /\ cleared' = [cleared EXCEPT ![a] = @ + 1]
          /\ Notify(x[1], a, cleared'[a])
      BY <1>6 DEF Clear
    <2>2. a \in Account
      BY <2>1 DEF TInv, Works, WorkOK, CommitClear
    <2>3. CacheTyped' /\ StoredOK' /\ Works' /\ Counted'
      BY <1>1, <2>1, ClearTyped DEF CInv
    <2>4. cleared'[a] \in 0..MaxClears
      <3>1. Cardinality(Clearing') \in Nat
        BY <2>3, FS_CardinalityType DEF Counted
      <3>2. cleared'[a] + Cardinality(Clearing') <= clears' /\ clears' \in 0..MaxClears
        BY <2>2, <2>3 DEF Counted
      <3>3. cleared'[a] \in Nat
        BY <1>3, <2>2
      <3> HIDE DEF a
      <3> QED BY <3>1, <3>2, <3>3, BoundsAssumption
    <2>5. Inboxes'
      BY <2>1, <2>2, <2>4, Notified DEF TInv
    <2> QED BY <1>2, <2>3, <2>5 DEF TInv
  <1> QED BY <1>4, <1>5, <1>6

-----------------------------------------------------------------------------
(* The requests.                                                            *)

LEMMA AskMoves ==
  ASSUME TInv, NEW w \in Window, NEW a, Continue(w, a),
         a.pc \in AskStage, a.route \in Route \cup {None}
  PROVE  AskTyped'
  <1>1. ask' = [v \in Window |-> IF v = w THEN a ELSE ask[v]]
    BY DEF TInv, CInv, IInv, AskShape, Continue
  <1> QED BY <1>1 DEF TInv, AskTyped

LEMMA AskEnds ==
  ASSUME TInv, NEW w \in Window, End(w)
  PROVE  AskTyped'
  <1>1. NoAsk.pc \in AskStage /\ NoAsk.route = None
    BY DEF NoAsk, AskStage
  <1> QED BY <1>1, AskMoves DEF End

LEMMA AskFenced ==
  ASSUME TInv, NEW w \in Window, Fence(w) \/ UNCHANGED ask
  PROVE  AskTyped'
  <1>1. \A v \in Window : ask'[v].pc = ask[v].pc /\ ask'[v].route = ask[v].route
    BY DEF TInv, CInv, IInv, AskShape, Fence
  <1> QED BY <1>1 DEF TInv, AskTyped

(* What a request is made of, for the steps that go on with it.             *)
LEMMA AskGoesOn ==
  ASSUME TInv, NEW w \in Window, NEW pc \in AskStage, NEW a, a.pc = pc, a.route = ask[w].route,
         Continue(w, a)
  PROVE  AskTyped'
  <1>1. ask[w].route \in Route \cup {None}
    BY DEF TInv, AskTyped
  <1> QED BY <1>1, AskMoves

LEMMA FieldsOfAsk ==
  ASSUME TInv, NEW w \in Window
  PROVE  AskFields \subseteq DOMAIN ask[w]
  BY DEF TInv, CInv, IInv, AskShape

LEMMA AskingTyped ==
  ASSUME TInv, NEW w \in Window, NEW id, AskFor(w, id)
  PROVE  AskTyped'
  <1>1. CASE id = None
    <2>1. ask' = ask
      BY <1>1 DEF AskFor
    <2> QED BY <2>1, AskFenced
  <1>2. CASE id # None
    <2> DEFINE a == [NoAsk EXCEPT !.pc = "look", !.route = route[w], !.id = id]
    <2>1. Continue(w, a)
      BY <1>2 DEF AskFor
    <2>2. a.pc = "look" /\ a.route = route[w]
      BY DEF NoAsk
    <2>3. route[w] \in Route
      BY DEF TInv, CInv, IInv
    <2> HIDE DEF a
    <2> QED BY <2>1, <2>2, <2>3, AskMoves DEF AskStage
  <1> QED BY <1>1, <1>2

(* Steps of a window that leave the cache and its tasks alone.              *)
LEMMA WindowOnly ==
  ASSUME TInv, CInv', answers' \in Nat, AskTyped', Inboxes',
         row' = row, task' = task, stored' = stored, clears' = clears, cleared' = cleared
  PROVE  TInv'
  BY DEF TInv, CacheTyped, StoredOK, Works, Counted, Clearing

LEMMA RequestTyped ==
  ASSUME TInv, CInv', answers' \in Nat, NEW w \in Window,
         \/ AskForHelp(w) \/ Replace(w) \/ Look(w) \/ UseFound(w) \/ Send(w)
         \/ SendWithoutToken(w) \/ Charge(w) \/ AlreadyCharged(w) \/ Lose(w)
         \/ Focus(w) \/ \E r \in Route : ChangeRoute(w, r)
  PROVE  TInv'
  <1>1. UNCHANGED <<row, task, stored, clears, cleared, inbox>>
    BY DEF AskForHelp, Replace, AskFor, Look, UseFound, Send, SendWithoutToken, SendWith,
           Charge, AlreadyCharged, Lose, Focus, ChangeRoute, Bounded
  <1>2. Inboxes'
    BY <1>1 DEF TInv, Inboxes
  <1>3. AskFields \subseteq DOMAIN ask[w]
    BY FieldsOfAsk
  <1>4. CASE AskForHelp(w) \/ Replace(w)
    <2>1. PICK id : AskFor(w, id)
      BY <1>4 DEF AskForHelp, Replace
    <2> QED BY <1>1, <1>2, <2>1, AskingTyped, WindowOnly
  <1>5. CASE Look(w)
    <2> DEFINE a == [ask[w] EXCEPT !.pc = "got", !.found = CacheGet(ask[w].route), !.fenced = FALSE]
    <2>1. End(w) \/ Continue(w, a)
      BY <1>5 DEF Look
    <2>2. a.pc = "got" /\ a.route = ask[w].route
      BY <1>3
    <2> HIDE DEF a
    <2>3. AskTyped'
      BY <2>1, <2>2, AskEnds, AskGoesOn DEF AskStage
    <2> QED BY <1>1, <1>2, <2>3, WindowOnly
  <1>6. CASE Send(w) \/ SendWithoutToken(w)
    <2>1. PICK token : Continue(w, [ask[w] EXCEPT !.pc = "wait", !.found = None, !.fenced = FALSE,
                                       !.token = token, !.asked = cleared[Owner[route[w]]]])
      BY <1>6 DEF Send, SendWithoutToken, SendWith
    <2> DEFINE a == [ask[w] EXCEPT !.pc = "wait", !.found = None, !.fenced = FALSE,
                                   !.token = token, !.asked = cleared[Owner[route[w]]]]
    <2>2. a.pc = "wait" /\ a.route = ask[w].route
      BY <1>3
    <2>3. Continue(w, a)
      BY <2>1
    <2> HIDE DEF a
    <2>4. AskTyped'
      BY <2>2, <2>3, AskGoesOn DEF AskStage
    <2> QED BY <1>1, <1>2, <2>4, WindowOnly
  <1>7. CASE Charge(w)
    <2> DEFINE a == [ask[w] EXCEPT !.pc = "served"]
    <2>1. Continue(w, a)
      BY <1>7 DEF Charge
    <2>2. a.pc = "served" /\ a.route = ask[w].route
      BY <1>3
    <2> HIDE DEF a
    <2>3. AskTyped'
      BY <2>1, <2>2, AskGoesOn DEF AskStage
    <2> QED BY <1>1, <1>2, <2>3, WindowOnly
  <1>8. CASE UseFound(w) \/ AlreadyCharged(w) \/ Lose(w)
    <2>1. End(w)
      BY <1>8 DEF UseFound, AlreadyCharged, Lose
    <2> QED BY <1>1, <1>2, <2>1, AskEnds, WindowOnly
  <1>9. CASE Focus(w) \/ \E r \in Route : ChangeRoute(w, r)
    <2>1. ask' = ask
      BY <1>9 DEF Focus, ChangeRoute
    <2> QED BY <1>1, <1>2, <2>1, AskFenced, WindowOnly
  <1> QED BY <1>4, <1>5, <1>6, <1>7, <1>8, <1>9

LEMMA HearTyped ==
  ASSUME TInv, CInv', answers' \in Nat, NEW w \in Window, Hear(w)
  PROVE  TInv'
  <1>1. PICK m \in inbox[w] : /\ Fence(w)
                              /\ inbox' = [inbox EXCEPT ![w] = @ \ {m}]
                              /\ UNCHANGED <<row, task, stored, clears, cleared>>
    BY DEF Hear
  <1>2. Inboxes'
    BY <1>1 DEF TInv, Inboxes
  <1>3. AskTyped'
    BY <1>1, AskFenced
  <1> QED BY <1>1, <1>2, <1>3, WindowOnly

LEMMA BeginClearTyped ==
  ASSUME TInv, CInv', answers' \in Nat, NEW w \in Window, BeginClear(w)
  PROVE  TInv'
  <1> DEFINE x == <<w, "clear">>
             t == ClearTask(Owner[route[w]])
  <1>1. /\ task' = [task EXCEPT ![x] = t] /\ task[x].pc = "idle"
        /\ Fence(w) /\ clears < MaxClears /\ clears' = clears + 1
        /\ UNCHANGED <<row, stored, cleared, inbox>>
    BY DEF BeginClear
  <1>2. x \in Activity
    BY DEF Activity
  <1>3. Owner[route[w]] \in Account
    BY CacheAssumption DEF TInv, CInv, IInv
  <1>4. Idle \in Task /\ "read" \in TaskStage
    BY IdleIsTask DEF TaskStage
  <1>5. t \in Task /\ t.pc = "read" /\ t.account = Owner[route[w]] /\ t.answer = None
    <2>1. Idle.answer = None
      BY DEF Idle
    <2> QED BY <1>3, <1>4, <2>1 DEF ClearTask, Task
  <1> HIDE DEF x, t
  <1>6. WorkOK(stored', t) /\ Pending(t)
    BY <1>3, <1>5 DEF WorkOK, Pending
  <1>7. /\ task' \in [Activity -> Task] /\ task'[x] = t
        /\ \A y \in Activity \ {x} : SameTask(task[y], task'[y])
    BY <1>1, <1>2, <1>5, OneTask DEF TInv
  <1>8. row' \in [Route -> Row \cup {None}] /\ StoredOK'
    BY <1>1 DEF TInv, CacheTyped, StoredOK
  <1>9. CacheTyped' /\ Works' /\ Clearing' = Clearing \cup {x}
    BY <1>1, <1>2, <1>5, <1>6, <1>7, <1>8, TaskMoves DEF TInv
  <1>10. x \notin Clearing
    BY <1>1 DEF Clearing, Pending
  <1>11. /\ IsFiniteSet(Clearing') /\ Cardinality(Clearing') = Cardinality(Clearing) + 1
         /\ Cardinality(Clearing) \in Nat
    BY <1>9, <1>10, FS_AddElement, FS_CardinalityType DEF TInv, Counted
  <1>12. cleared \in [Account -> Nat] /\ clears \in Nat
    BY BoundsAssumption DEF TInv, CInv, CacheInv, Counted
  <1>13. Counted'
    BY <1>1, <1>11, <1>12, BoundsAssumption DEF TInv, Counted
  <1>14. AskTyped' /\ Inboxes'
    BY <1>1, AskFenced DEF TInv, Inboxes
  <1> QED BY <1>8, <1>9, <1>13, <1>14 DEF TInv

LEMMA ReceiveTyped ==
  ASSUME TInv, CInv', answers' \in Nat, NEW w \in Window, Receive(w)
  PROVE  TInv'
  <1> DEFINE a == ask[w]
             x == <<w, "ask">>
             answer == [route |-> a.route, stamp |-> answers + 1, asked |-> a.asked]
             t == SetTask(answer, a.token)
             b == [NoAsk EXCEPT !.pc = "storing", !.route = a.route, !.answer = answer]
  <1>1. UNCHANGED <<row, inbox, stored, clears, cleared>> /\ a.pc = "served"
    BY DEF Receive
  <1>2. Inboxes'
    BY <1>1 DEF TInv, Inboxes
  <1>3. CASE End(w) /\ task' = task
    BY <1>1, <1>2, <1>3, AskEnds, WindowOnly
  <1>4. CASE task' = [task EXCEPT ![x] = t] /\ Continue(w, b) /\ a.token # None
    <2>1. x \in Activity
      BY DEF Activity
    <2>2. a.route \in Route /\ a.asked \in Nat /\ a.token = a.asked
      BY <1>1, <1>4 DEF TInv, CInv, RequestInv, RequestOK, Recent, Busy
    <2>3. answer \in Answer
      BY <2>2 DEF TInv, Answer
    <2>4. Owner[answer.route] \in Account /\ answer.route = a.route
      BY <2>2, CacheAssumption
    <2> HIDE DEF answer
    <2>5. Idle \in Task /\ "read" \in TaskStage
      BY IdleIsTask DEF TaskStage
    <2>6. t \in Task /\ t.pc = "read" /\ t.account = Owner[answer.route] /\ t.answer = answer
      BY <2>2, <2>3, <2>4, <2>5 DEF SetTask, Task
    <2> HIDE DEF t, x
    <2>7. WorkOK(stored, t) /\ ~Pending(t)
      BY <2>3, <2>4, <2>6, NoneAssumption DEF WorkOK, Pending
    <2>8. /\ task' \in [Activity -> Task] /\ task'[x] = t
          /\ \A y \in Activity \ {x} : SameTask(task[y], task'[y])
      BY <1>4, <2>1, <2>6, OneTask DEF TInv
    <2>9. CacheTyped' /\ StoredOK' /\ Works' /\ Counted'
      BY <1>1, <2>1, <2>6, <2>7, <2>8, TaskOnly
    <2>10. b.pc = "storing" /\ b.route = a.route
      BY DEF NoAsk
    <2> HIDE DEF b
    <2>11. AskTyped'
      BY <1>4, <2>10, AskGoesOn DEF AskStage
    <2> QED BY <1>2, <2>9, <2>11 DEF TInv
  <1> QED BY <1>3, <1>4 DEF Receive

LEMMA KeepAnswerTyped ==
  ASSUME TInv, CInv', answers' \in Nat, NEW w \in Window, KeepAnswer(w)
  PROVE  TInv'
  <1> DEFINE x == <<w, "ask">>
  <1>1. /\ UNCHANGED <<row, inbox, stored, clears, cleared>>
        /\ task' = [task EXCEPT ![x] = Idle] /\ End(w)
    BY DEF KeepAnswer
  <1>2. x \in Activity
    BY DEF Activity
  <1>3. Idle \in Task /\ WorkOK(stored, Idle) /\ ~Pending(Idle)
    BY IdleIsTask DEF TaskStage
  <1> HIDE DEF x
  <1>4. /\ task' \in [Activity -> Task] /\ task'[x] = Idle
        /\ \A y \in Activity \ {x} : SameTask(task[y], task'[y])
    BY <1>1, <1>2, <1>3, OneTask DEF TInv
  <1>5. CacheTyped' /\ StoredOK' /\ Works' /\ Counted'
    BY <1>1, <1>2, <1>3, <1>4, TaskOnly
  <1>6. AskTyped' /\ Inboxes'
    BY <1>1, AskEnds DEF TInv, Inboxes
  <1> QED BY <1>5, <1>6 DEF TInv

-----------------------------------------------------------------------------
(* The theorems.                                                            *)

LEMMA TypedInit == Init => TInv
  <1> SUFFICES ASSUME Init
               PROVE  TInv
    OBVIOUS
  <1> USE DEF Init, CacheInit
  <1>1. CInv /\ answers \in Nat
    BY ClearInit
  <1>2. Idle \in Task /\ ~Pending(Idle) /\ \A s : WorkOK(s, Idle)
    BY IdleIsTask DEF TaskStage
  <1>3. CacheTyped /\ Works
    BY <1>2 DEF CacheTyped, Works
  <1>4. {r \in Route : \E s \in stored : s.route = r} = {}
    OBVIOUS
  <1>5. StoredOK
    BY <1>4, FS_EmptySet DEF StoredOK
  <1>6. Clearing = {}
    BY <1>2 DEF Clearing
  <1>7. Counted
    BY <1>6, FS_EmptySet, BoundsAssumption DEF Counted
  <1>8. Inboxes /\ AskTyped
    BY DEF Inboxes, AskTyped, NoAsk, AskStage
  <1> QED BY <1>1, <1>3, <1>5, <1>7, <1>8 DEF TInv

LEMMA TypedNext == TInv /\ [Next]_vars => TInv'
  <1> SUFFICES ASSUME TInv, [Next]_vars
               PROVE  TInv'
    OBVIOUS
  <1>1. CInv' /\ answers' \in Nat
    BY ClearNext, AnswersCounted DEF TInv
  <1>2. CASE UNCHANGED vars
    <2>1. UNCHANGED <<row, task, stored, clears, cleared, inbox, ask>>
      BY <1>2 DEF vars
    <2>2. AskTyped' /\ Inboxes'
      BY <2>1 DEF TInv, AskTyped, Inboxes
    <2> QED BY <1>1, <2>1, <2>2, WindowOnly
  <1>3. ASSUME NEW w \in Window,
               \/ AskForHelp(w) \/ Replace(w) \/ Look(w) \/ UseFound(w) \/ Send(w)
               \/ SendWithoutToken(w) \/ Charge(w) \/ AlreadyCharged(w) \/ Lose(w)
               \/ Focus(w) \/ \E r \in Route : ChangeRoute(w, r)
        PROVE  TInv'
    BY <1>1, <1>3, RequestTyped
  <1>4. ASSUME NEW w \in Window, Receive(w) \/ KeepAnswer(w) \/ BeginClear(w) \/ Hear(w)
        PROVE  TInv'
    BY <1>1, <1>4, ReceiveTyped, KeepAnswerTyped, BeginClearTyped, HearTyped
  <1>5. ASSUME NEW x \in Activity,
               Step(x) \/ Store(x) \/ Clear(x) \/ StorageFailure(x) \/ EndTask(x)
        PROVE  TInv'
    BY <1>1, <1>5, TaskStepsTyped
  <1>6. CASE Next
    BY <1>3, <1>4, <1>5, <1>6 DEF Next
  <1> QED BY <1>2, <1>6

THEOREM Typed == Spec => []TInv
  <1>1. Init => TInv
    BY TypedInit
  <1>2. TInv /\ [Next]_vars => TInv'
    BY TypedNext
  <1> QED BY <1>1, <1>2, PTL DEF Spec

(* The types of all the state, tasks and messages included.                 *)
THEOREM TypeCorrect == Spec => []TypeOK
  <1>1. TInv => TypeOK
    <2> SUFFICES ASSUME TInv
                 PROVE  TypeOK
      OBVIOUS
    <2>1. CacheTypeOK
      <3>1. epoch \in [Account -> Nat]
        BY DEF TInv, CInv, CacheInv
      <3>2. \A r \in Route : row[r] # None => row[r] \in Row /\ row[r].answer.route = r
        BY DEF TInv, CacheTyped, CInv, CacheInv, RowOK
      <3>3. ASSUME NEW x \in Activity
            PROVE  task[x] \in Task
        BY DEF TInv, CacheTyped
      <3> QED BY <3>1, <3>2, <3>3 DEF CacheTypeOK, Task, TaskStage, Tries
    <2>2. ASSUME NEW w \in Window
          PROVE  /\ ask[w].pc \in {"idle", "look", "got", "wait", "served", "storing"}
                 /\ ask[w].route \in Route \cup {None}
                 /\ ask[w].id # None => ask[w].id \in Identity /\ ask[w].id.route = ask[w].route
                 /\ offered[w] # None => offered[w] \in Loss
                 /\ \A r \in Route : memory[w][r] # None => memory[w][r] \in Answer
      <3>1. ask[w].pc \in AskStage /\ ask[w].route \in Route \cup {None}
        BY DEF TInv, AskTyped
      <3>2. ask[w].id # None => ask[w].id \in Identity /\ ask[w].id.route = ask[w].route
        BY DEF TInv, CInv, IInv, AskOK, IssuedOK, Issued
      <3>3. offered[w] # None => offered[w] \in Loss
        BY DEF TInv, CInv, IInv, OfferedOK
      <3>4. \A r \in Route : memory[w][r] # None => memory[w][r] \in Answer
        BY DEF TInv, CInv, MemoryInv
      <3> QED BY <3>1, <3>2, <3>3, <3>4 DEF AskStage
    <2>3. route \in [Window -> Route]
      BY DEF TInv, CInv, IInv
    <2>4. inbox \in [Window -> SUBSET [account : Account, clears : 0..MaxClears]]
      BY DEF TInv, Inboxes
    <2>5. \A r \in Route : journal[r] # None => journal[r] \in Identity /\ journal[r].route = r
      BY DEF TInv, CInv, IInv, IssuedOK
    <2>6. charged \subseteq Identity
      BY DEF TInv, CInv, IInv, IssuedOK, Issued
    <2> QED BY <2>1, <2>2, <2>3, <2>4, <2>5, <2>6 DEF TypeOK
  <1> QED BY <1>1, Typed, PTL

(* No prune, however late, deletes an answer of the current epoch unless    *)
(* enough newer ones were stored.                                           *)
LEMMA DropKeepsPaid ==
  ASSUME TInv, NEW x \in Activity, Drop(x), NEW r \in Route, Readable(r), row'[r] = None
  PROVE  Cardinality(NewerSince(epoch[Owner[r]], row[r].answer)) >= MaxCached
  <1> DEFINE t == task[x]
             old == row[r].answer
  <1>1. row[r] # None /\ row' # row
    BY DEF Readable
  <1>2. epoch[t.account] = t.token
    BY <1>1 DEF Drop
  <1>3. PICK a \in t.doomed : DeleteExact(a)
    BY <1>1, <1>2 DEF Drop
  <1>4. old = a
    <2>1. row' = [row EXCEPT ![a.route] = None] /\ row[a.route].answer = a
      BY <1>1, <1>3 DEF DeleteExact
    <2>2. r = a.route
      BY <1>1, <2>1 DEF TInv, CacheTyped
    <2> QED BY <2>1, <2>2
  <1>5. t.pc = "drop" /\ WorkOK(stored, t)
    BY DEF TInv, Works, Drop
  <1>6. Owner[old.route] = t.account /\ old.route = r /\ old.asked = row[r].epoch
    <2>1. Owner[a.route] = t.account
      BY <1>3, <1>5 DEF WorkOK
    <2>2. RowOK(r)
      BY DEF TInv, CInv, CacheInv
    <2> QED BY <1>1, <1>4, <2>1, <2>2 DEF RowOK
  <1>7. old.asked = t.token /\ epoch[Owner[r]] = t.token
    BY <1>2, <1>6 DEF Readable
  <1>8. Cardinality(Newer(stored, t.token, a)) >= MaxCached
    BY <1>3, <1>4, <1>5, <1>7 DEF WorkOK
  <1>9. NewerSince(epoch[Owner[r]], old) = Newer(stored, t.token, a)
    BY <1>4, <1>7 DEF NewerSince, Newer
  <1> QED BY <1>8, <1>9

LEMMA OthersKeepPaid ==
  ASSUME TInv, [Next]_vars, \A x \in Activity : ~Drop(x), NEW r \in Route, row[r] # None
  PROVE  row'[r] # None
  <1>1. CASE UNCHANGED vars
    BY <1>1 DEF vars
  <1>2. ASSUME NEW w \in Window,
               \/ AskForHelp(w) \/ Replace(w) \/ Look(w) \/ UseFound(w) \/ Send(w)
               \/ SendWithoutToken(w) \/ Charge(w) \/ AlreadyCharged(w) \/ Lose(w)
               \/ Focus(w) \/ (\E s \in Route : ChangeRoute(w, s))
               \/ Receive(w) \/ KeepAnswer(w) \/ BeginClear(w) \/ Hear(w)
        PROVE  row' = row
    BY <1>2 DEF AskForHelp, Replace, AskFor, Look, UseFound, Send, SendWithoutToken, SendWith,
                Charge, AlreadyCharged, Lose, Focus, ChangeRoute, Receive, KeepAnswer,
                BeginClear, Hear
  <1>3. ASSUME NEW x \in Activity, Step(x) \/ Clear(x) \/ StorageFailure(x) \/ EndTask(x)
        PROVE  row' = row
    BY <1>3 DEF Step, Quiet, ReadRows, Scan, Clear, CommitClear, StorageFailure, CacheFailure,
                EndTask
  <1>4. ASSUME NEW x \in Activity, Store(x)
        PROVE  row'[r] # None
    <2> DEFINE t == task[x]
               entry == [epoch |-> t.token, answer |-> t.answer]
    <2>1. CommitSet(x)
      BY <1>4 DEF Store
    <2>2. t.answer \in Answer /\ t.token \in Nat
      <3>1. t \in Task /\ t.pc = "commit" /\ t.answer # None /\ t.account \in Account
        BY <2>1 DEF TInv, CacheTyped, Works, WorkOK, CommitSet
      <3>2. t.token = epoch[t.account]
        BY <2>1, <3>1 DEF TInv, CInv, CacheInv, TaskOK, CommitSet
      <3> QED BY <3>1, <3>2 DEF Task, TInv, CInv, CacheInv
    <2>3. entry \in Row
      BY <2>2 DEF Row
    <2>4. row' = [row EXCEPT ![t.answer.route] = entry] /\ entry # None
      BY <2>1, <2>3, NoneAssumption DEF CommitSet
    <2> QED BY <2>4 DEF TInv, CacheTyped
  <1>5. CASE Next
    BY <1>2, <1>3, <1>4, <1>5 DEF Next
  <1> QED BY <1>1, <1>5

(* What is paid for stays, whatever clears, sets and prunes overlap.        *)
THEOREM PrunesOnlyExcess == Spec => PaidIsKept
  <1>1. TInv /\ [Next]_vars =>
           [\A r \in Route : Readable(r) /\ row'[r] = None =>
               Cardinality(NewerSince(epoch[Owner[r]], row[r].answer)) >= MaxCached]_vars
    <2> SUFFICES ASSUME TInv, [Next]_vars, NEW r \in Route, Readable(r), row'[r] = None
                 PROVE  Cardinality(NewerSince(epoch[Owner[r]], row[r].answer)) >= MaxCached
      OBVIOUS
    <2>1. PICK x \in Activity : Drop(x)
      BY OthersKeepPaid DEF Readable
    <2> QED BY <2>1, DropKeepsPaid
  <1> QED BY <1>1, Typed, PTL DEF Spec, PaidIsKept
=============================================================================
