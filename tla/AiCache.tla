------------------------------ MODULE AiCache ------------------------------
(***************************************************************************)
(* The durable cache of AI answers already paid for (ai-cache.ts).  Every  *)
(* answer has a row of its own; a clear only counts up the epoch of its    *)
(* account and leaves the rows to a prune.  Sets, clears and prunes of     *)
(* several windows overlap at every storage call.                          *)
(*                                                                         *)
(* A commit names the revisions its task has read: here a task is marked   *)
(* stale when another commit writes one of its rows (AtomicStorage shows   *)
(* that revisions tell this).  Answers of the unscoped cache of old        *)
(* versions are left out.  Rows of answers are named by the route that *)
(* asked for them, which stands for the whole digest of the request.       *)
(***************************************************************************)
EXTENDS Naturals, FiniteSets

CONSTANTS Window,
          Route,        \* cache keys: account, payer, model, settings and question
          Account,      \* cache scopes
          Owner,        \* the account of a route
          MaxCached,    \* MAX_CACHED_ANSWERS
          MaxAttempts,  \* MAX_CAS_ATTEMPTS
          None

ASSUME CacheAssumption ==
    /\ Owner \in [Route -> Account]
    /\ MaxCached \in Nat \ {0} /\ MaxAttempts \in Nat \ {0}
    /\ None \notin Route \cup Account

VARIABLES epoch,  \* per account, the metadata row
          row,    \* per route, the row of its answer
          task    \* what each window is doing with the cache

cacheVars == <<epoch, row, task>>

(* A window stores an answer it asked for, or clears.                       *)
Activity == Window \X {"ask", "clear"}

(* Answers are told apart by the order of their storedAt.  asked is the     *)
(* number of clears of the account that came before the request.            *)
Answer == [route : Route, stamp : Nat, asked : Nat]
Row == [epoch : Nat, answer : Answer]
ASSUME NoneAssumption == None \notin Answer \cup Row

Idle == [pc |-> "idle", account |-> None, answer |-> None, token |-> None, stale |-> FALSE,
         tries |-> 0, doomed |-> {}]

CacheTypeOK ==
    /\ epoch \in [Account -> Nat]
    /\ \A r \in Route : row[r] # None => row[r] \in Row /\ row[r].answer.route = r
    /\ \A x \in Activity :
          /\ task[x].pc \in {"idle", "read", "commit", "scan", "drop", "stored", "invalid", "failed"}
          /\ task[x].account \in Account \cup {None}
          /\ task[x].answer # None => task[x].answer \in Answer
          /\ task[x].tries \in 0..MaxAttempts
          /\ task[x].doomed \subseteq Answer

CacheInit ==
    /\ epoch = [a \in Account |-> 0]
    /\ row = [r \in Route |-> None]
    /\ task = [x \in Activity |-> Idle]

Outcome(x, label) == task' = [task EXCEPT ![x] = [Idle EXCEPT !.pc = label]]

(* fresh: a row is readable only in the epoch it was written in.            *)
Readable(r) == row[r] # None /\ row[r].epoch = epoch[Owner[r]]

(* get.                                                                     *)
CacheGet(r) == IF Readable(r) THEN row[r].answer ELSE None

(* Another commit has written one of the rows a task is about to replace.   *)
Disturbed(accounts, routes) ==
    [y \in Activity |->
        [task[y] EXCEPT !.stale =
            @ \/ /\ task[y].pc = "commit"
                 /\ \/ task[y].account \in accounts
                    \/ task[y].answer # None /\ task[y].answer.route \in routes]]

-----------------------------------------------------------------------------
(* set and clear.                                                           *)

SetTask(answer, token) ==
    [Idle EXCEPT !.pc = "read", !.account = Owner[answer.route], !.answer = answer,
                 !.token = token]
ClearTask(a) == [Idle EXCEPT !.pc = "read", !.account = a]

(* Faulty variant: a refused commit is tried again for ever.                *)
ReadRowsForever(x) ==
    LET t == task[x]
        current == epoch[t.account]
    IN /\ t.pc = "read" \/ (t.pc = "commit" /\ t.stale)
       /\ IF t.answer # None /\ current # t.token THEN Outcome(x, "invalid")
          ELSE task' = [task EXCEPT ![x] = [t EXCEPT !.pc = "commit", !.stale = FALSE,
                                                     !.token = current, !.tries = @ + 1]]
       /\ UNCHANGED <<epoch, row>>

(* readBatch.  A set takes no other epoch than the one its request was made *)
(* in, a clear takes the current one.  A commit that was refused starts      *)
(* over here.                                                               *)
ReadRows(x) ==
    LET t == task[x]
        current == epoch[t.account]
    IN /\ t.pc = "read" \/ (t.pc = "commit" /\ t.stale)
       /\ CASE t.answer # None /\ current # t.token -> Outcome(x, "invalid")
            [] t.tries = MaxAttempts -> Outcome(x, "failed")
            [] OTHER -> task' = [task EXCEPT ![x] = [t EXCEPT !.pc = "commit", !.stale = FALSE,
                                                              !.token = current, !.tries = @ + 1]]
       /\ UNCHANGED <<epoch, row>>

Pruning(t) == [Idle EXCEPT !.pc = "scan", !.account = t.account, !.answer = t.answer]

(* Faulty variant: what was committed since the read is not noticed.        *)
CommitBlindly(x) ==
    LET t == task[x]
    IN /\ t.pc = "commit" /\ t.answer # None
       /\ epoch' = [epoch EXCEPT ![t.account] = t.token]
       /\ row' = [row EXCEPT ![t.answer.route] = [epoch |-> t.token, answer |-> t.answer]]
       /\ task' = [Disturbed({t.account}, {t.answer.route}) EXCEPT ![x] = Pruning(t)]

(* commitBatch over the revisions read.  A set rewrites the metadata with   *)
(* the epoch it read, so that no clear can come between.                    *)
CommitSet(x) ==
    LET t == task[x]
    IN /\ t.pc = "commit" /\ t.answer # None /\ ~t.stale
       /\ epoch' = [epoch EXCEPT ![t.account] = t.token]
       /\ row' = [row EXCEPT ![t.answer.route] = [epoch |-> t.token, answer |-> t.answer]]
       /\ task' = [Disturbed({t.account}, {t.answer.route}) EXCEPT ![x] = Pruning(t)]

CommitClear(x) ==
    LET t == task[x]
    IN /\ t.pc = "commit" /\ t.answer = None /\ ~t.stale
       /\ epoch' = [epoch EXCEPT ![t.account] = t.token + 1]
       /\ task' = [Disturbed({t.account}, {}) EXCEPT ![x] = Pruning(t)]
       /\ UNCHANGED row

(* A storage call of the task fails without effect.                         *)
CacheFailure(x) ==
    /\ task[x].pc \in {"read", "commit", "scan", "drop"}
    /\ Outcome(x, "failed")
    /\ UNCHANGED <<epoch, row>>

-----------------------------------------------------------------------------
(* prune.                                                                   *)

Excess(kept) == {a \in kept : Cardinality({b \in kept : b.stamp > a.stamp}) >= MaxCached}

Ended(t) == IF t.answer = None THEN Idle ELSE [Idle EXCEPT !.pc = "stored"]

(* The rows of other epochs have to go, and of the current ones all but the *)
(* newest.  The code reads row by row; a row that changes meanwhile is not  *)
(* the one that deleteExact looks for.                                      *)
Scan(x) ==
    LET t == task[x]
        rows == {s \in Route : Owner[s] = t.account /\ row[s] # None}
        old == {row[r].answer : r \in {s \in rows : ~Readable(s)}}
        doomed == old \cup Excess({row[r].answer : r \in rows} \ old)
    IN /\ t.pc = "scan"
       /\ task' = [task EXCEPT ![x] = IF doomed = {} THEN Ended(t)
                                      ELSE [t EXCEPT !.pc = "drop", !.doomed = doomed,
                                                     !.token = epoch[t.account]]]
       /\ UNCHANGED <<epoch, row>>

(* Faulty variant: whatever the key holds now goes.                         *)
DeleteKey(a) == row' = [row EXCEPT ![a.route] = None]

(* deleteExact: only the very row that was read.                            *)
DeleteExact(a) ==
    row' = IF row[a.route] # None /\ row[a.route].answer = a THEN [row EXCEPT ![a.route] = None]
           ELSE row

(* One deletion, unless a clear has ended the prune.                        *)
Drop(x) ==
    LET t == task[x]
    IN /\ t.pc = "drop"
       /\ IF epoch[t.account] # t.token
          THEN task' = [task EXCEPT ![x] = Ended(t)] /\ UNCHANGED row
          ELSE \E a \in t.doomed :
                  /\ DeleteExact(a)
                  /\ task' = [Disturbed({}, IF row' = row THEN {} ELSE {a.route}) EXCEPT ![x] =
                         IF t.doomed = {a} THEN Ended(t) ELSE [t EXCEPT !.doomed = @ \ {a}]]
       /\ UNCHANGED epoch

Quiet(x) == ReadRows(x) \/ Scan(x) \/ Drop(x)
=============================================================================
