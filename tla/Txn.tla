--------------------------------- MODULE Txn ---------------------------------
(***************************************************************************)
(* Package txn: runners flush transactions over several documents of a     *)
(* database that knows atomic changes of one document only.  Each step is  *)
(* one request to the database with what the runner computes from the      *)
(* reply; a runner may be interrupted between any two (chaos), and its     *)
(* transactions be resumed by any other.                                   *)
(*                                                                         *)
(* A transaction puts a token <<id, nonce>> onto the queue of each of its  *)
(* documents, in the stash for those that do not exist; whoever finds a    *)
(* token before its own applies that transaction first, with the revisions *)
(* of the documents as the guard that nothing is done twice.               *)
(***************************************************************************)
EXTENDS Integers, Sequences, FiniteSets, SequencesExt, Components

CONSTANTS
    Runners,
    TxnIds,     \* the ids of transactions in their order, a sequence
    DocKeys,    \* the keys of documents in their order, a sequence
    Ops,        \* for each transaction the sequence of its operations:
                \* [doc, kind : insert, update, remove or assert, assert]
    Existing,   \* the documents that exist at first
    MaxFlushes, \* bound on the flushes begun
    MaxKills,   \* bound on the runners interrupted
    None

Txns == ToSet(TxnIds)
Docs == ToSet(DocKeys)
Kinds == {"insert", "update", "remove", "assert"}

ASSUME OpsAssumption ==
    /\ None \notin Txns \cup Docs /\ Existing \subseteq Docs
    /\ \A t \in Txns : Ops[t] \in Seq([doc : Docs, kind : Kinds,
                                       assert : {"none", "exists", "missing", "fresh"}])
    \* An insert that asserts more is refused: every flush that meets it returns an error.
    /\ \A t \in Txns : \A i \in DOMAIN Ops[t] : Ops[t][i].kind = "insert" => Ops[t][i].assert \in {"none", "missing"}
ASSUME BoundsAssumption == MaxFlushes \in Nat /\ MaxKills \in Nat

VARIABLES
    doc,        \* documents: None or [revno, queue, remove, val]
    stash,      \* the stash: None or [revno, queue, insert, n]
    txn,        \* the transactions' documents: [s, n, r]
    nonces,     \* how many nonces were made for each transaction
    f,          \* the runners: None or the flusher
    outcome,    \* what the last flush of each transaction returned
    hist,       \* for each document, the changes made: <<t, i, assert held>>
    resumed,    \* ResumeAll has just found nothing to do
    flushes, kills

db == <<doc, stash, txn>>
vars == <<db, nonces, f, outcome, hist, resumed, flushes, kills>>

Token(t, n) == [id |-> t, n |-> n]
Keys(t)     == SelectSeq(DocKeys, LAMBDA k : \E i \in DOMAIN Ops[t] : Ops[t][i].doc = k)
Done(s)     == s \in {"applied", "aborted"}

Init ==
    /\ doc = [k \in Docs |-> IF k \in Existing
                             THEN [revno |-> 0, queue |-> <<>>, remove |-> None, val |-> 0] ELSE None]
    /\ stash = [k \in Docs |-> None]
    /\ txn = [t \in Txns |-> [s |-> "none", n |-> 0, r |-> <<>>]]
    /\ nonces = [t \in Txns |-> 0]
    /\ f = [r \in Runners |-> None]
    /\ outcome = [t \in Txns |-> "none"]
    /\ hist = [k \in Docs |-> <<>>]
    /\ resumed = FALSE /\ flushes = 0 /\ kills = 0

(***************************************************************************)
(* The flusher: what it is at is "at"; "cur" is the advance it is in, "rec"*)
(* the recursion, "plan" the sorted transactions, "app" the apply.         *)
(***************************************************************************)

Set(r, g) == f' = [f EXCEPT ![r] = g]

\* advance(t, pull, force)
Advance(g, t, pull, force) ==
    [g EXCEPT !.at = "advance",
              !.cur = [t |-> t, pull |-> pull, force |-> force, tt |-> None, todo |-> <<>>,
                       revno |-> [k \in Docs |-> 0], revnos |-> <<>>, i |-> 1, retry |-> 0]]

\* recurse(t, seen), with t loaded in state s
Recurse(g, t, s) ==
    Advance([g EXCEPT !.seen[t] = s, !.rec = Append(@, [t |-> t, keys |-> <<>>, ids |-> <<>>])],
            t, {t}, FALSE)

Flush(r, t, s) ==
    Set(r, Recurse([at |-> "", goal |-> t, queue |-> [k \in Docs |-> <<>>],
                    seen |-> [u \in Txns |-> "unseen"], rec |-> <<>>, plan |-> <<>>,
                    back |-> "", help |-> None, app |-> None, cur |-> None], t, s))

\* Run inserts the transaction; Resume and ResumeAll load one.
Run(r) ==
    /\ f[r] = None /\ flushes < MaxFlushes
    /\ \E t \in Txns :
          /\ txn[t].s = "none"
          /\ txn' = [txn EXCEPT ![t].s = "preparing"]
          /\ Flush(r, t, "preparing")
    /\ flushes' = flushes + 1 /\ resumed' = FALSE
    /\ UNCHANGED <<doc, stash, nonces, outcome, hist, kills>>

Resume(r) ==
    /\ f[r] = None /\ flushes < MaxFlushes
    /\ \E t \in Txns :
          /\ txn[t].s # "none" /\ ~Done(txn[t].s)
          /\ Flush(r, t, txn[t].s)
    /\ flushes' = flushes + 1 /\ resumed' = FALSE
    /\ UNCHANGED <<db, nonces, outcome, hist, kills>>

\* The states ResumeAll asks for.
Resumable == {"preparing", "prepared", "applying"}

\* ResumeAll flushes them one by one (as Resume) and returns when none is left.
ResumeAll ==
    /\ \A r \in Runners : f[r] = None
    /\ \A t \in Txns : txn[t].s \notin Resumable
    /\ resumed' = TRUE
    /\ UNCHANGED <<db, nonces, f, outcome, hist, flushes, kills>>

Kill(r) ==
    /\ f[r] # None /\ kills < MaxKills
    /\ kills' = kills + 1
    /\ outcome' = [outcome EXCEPT ![f[r].goal] = "interrupted"]
    /\ Set(r, None)
    /\ UNCHANGED <<db, nonces, hist, resumed, flushes>>

\* A panic of the code, or an error no fault explains
Bug(r) == Set(r, [f[r] EXCEPT !.at = "bug"])

(***************************************************************************)
(* hasPreReqs, and the states of advance                                   *)
(***************************************************************************)

Before(q, tt) == IF tt \in ToSet(q) THEN SubSeq(q, 1, CHOOSE i \in DOMAIN q : q[i] = tt) ELSE q
Found(g, t, tt) == \A k \in ToSet(Keys(t)) : tt \in ToSet(g.queue[k])
\* (_Blind: none are seen)
PreReqs_Blind(g, t, tt) == FALSE
PreReqs(g, t, tt) == \E k \in ToSet(Keys(t)) : \E x \in ToSet(Before(g.queue[k], tt)) : x.id # t

Saved(t) == Token(t, txn[t].n)
Begin(g, at) == [g EXCEPT !.at = at, !.cur.todo = Keys(g.cur.t)]
Rescan(g) ==
    IF ~g.cur.force /\ Found(g, g.cur.t, Saved(g.cur.t)) /\ PreReqs(g, g.cur.t, Saved(g.cur.t))
    THEN [g EXCEPT !.at = "prereqs"]
    ELSE Begin([g EXCEPT !.cur.tt = Saved(g.cur.t)], "rescan")

\* apply(t, pull), within advance or within loadAndApply
Apply(g, t, pull, nested) ==
    [g EXCEPT !.at = "apply",
              !.app = [t |-> t, pull |-> pull, i |-> 1, nested |-> nested, stashed |-> FALSE, info |-> <<>>]]

Dispatch(r) ==
    LET g == f[r]  t == g.cur.t  s == g.seen[t] IN
    /\ f[r] # None /\ f[r].at = "advance"
    /\ \/ /\ s = "preparing"
          /\ nonces' = [nonces EXCEPT ![t] = @ + 1]
          /\ Set(r, Begin([g EXCEPT !.cur.tt = Token(t, nonces[t] + 1)], "prepare"))
       \/ /\ s = "prepared"
          /\ Set(r, Rescan(g))
          /\ UNCHANGED nonces
       \/ /\ s = "applying"
          /\ Set(r, Apply(g, t, g.cur.pull, FALSE))
          /\ UNCHANGED nonces
       \/ /\ s = "aborting" \/ Done(s)
          /\ Set(r, [g EXCEPT !.at = IF s = "aborting" THEN "aborted" ELSE "ok"])
          /\ UNCHANGED nonces
    /\ UNCHANGED <<db, outcome, hist, resumed, flushes, kills>>

(***************************************************************************)
(* prepare                                                                 *)
(***************************************************************************)

AddToSet(q, tt) == IF tt \in ToSet(q) THEN q ELSE Append(q, tt)

\* The document is prepared: its revision and its queue are known.
Prepared(g, k, revno, queue) ==
    [g EXCEPT !.cur.todo = Tail(@), !.cur.revno[k] = revno, !.queue[k] = queue, !.cur.retry = 0]
Help(g, id, back) == [g EXCEPT !.at = "help", !.help = id, !.back = back]

\* The token goes to the document, unless it is being removed ...
PrepareDoc(r) ==
    LET g == f[r]  k == Head(g.cur.todo)  d == doc[k]  q == AddToSet(d.queue, g.cur.tt) IN
    /\ g # None /\ g.at = "prepare" /\ g.cur.todo # <<>>
    /\ \/ /\ d = None
          /\ Set(r, [g EXCEPT !.at = "prepare stash"])
          /\ UNCHANGED doc
       \/ /\ d # None
          /\ doc' = [doc EXCEPT ![k].queue = q]
          /\ Set(r, IF d.remove # None THEN Help(g, d.remove, "prepare")
                    ELSE Prepared(g, k, d.revno, q))
    /\ UNCHANGED <<stash, txn, nonces, outcome, hist, resumed, flushes, kills>>

\* ... or to the stash, which is made when it is missing, unless an insert is
\* under way.
PrepareStash(r) ==
    LET g == f[r]  k == Head(g.cur.todo)  s == stash[k] IN
    /\ g # None /\ g.at = "prepare stash"
    /\ stash' = [stash EXCEPT ![k] =
                    IF s = None THEN [revno |-> 0, queue |-> <<g.cur.tt>>, insert |-> None, n |-> {}]
                    ELSE [s EXCEPT !.queue = AddToSet(@, g.cur.tt)]]
    /\ Set(r, IF s # None /\ s.insert # None THEN Help(g, s.insert, "prepare")
              ELSE [g EXCEPT !.at = "confirm doc"])
    /\ UNCHANGED <<doc, txn, nonces, outcome, hist, resumed, flushes, kills>>

\* The stash may have gone, or been overwritten by a remove: look again.
InQueue(g, q) == g.cur.tt \in ToSet(q)

ConfirmDoc(r) ==
    LET g == f[r]  k == Head(g.cur.todo)  d == doc[k] IN
    /\ g # None /\ g.at = "confirm doc"
    /\ Set(r, IF d = None THEN [g EXCEPT !.at = "confirm stash"]
              ELSE IF d.remove = None /\ InQueue(g, d.queue)
              THEN Prepared([g EXCEPT !.at = "prepare"], k, d.revno, d.queue)
              ELSE [g EXCEPT !.at = "unstash"])
    /\ UNCHANGED <<db, nonces, outcome, hist, resumed, flushes, kills>>

StashRevno(s) == IF s.revno = 0 THEN -1 ELSE s.revno

ConfirmStash(r) ==
    LET g == f[r]  k == Head(g.cur.todo)  s == stash[k] IN
    /\ g # None /\ g.at = "confirm stash"
    /\ Set(r, IF s # None /\ s.insert = None /\ InQueue(g, s.queue)
              THEN Prepared([g EXCEPT !.at = "prepare"], k, StashRevno(s), s.queue)
              ELSE [g EXCEPT !.at = "unstash"])
    /\ UNCHANGED <<db, nonces, outcome, hist, resumed, flushes, kills>>

\* unstashToken (what it removes afterwards, a stash whose queue is an empty
\* document, never exists).
Unstash(r) ==
    LET g == f[r]  k == Head(g.cur.todo) IN
    /\ g # None /\ g.at = "unstash"
    /\ stash' = IF stash[k] = None THEN stash
                ELSE [stash EXCEPT ![k].queue = SelectSeq(@, LAMBDA x : x # g.cur.tt)]
    /\ Set(r, [g EXCEPT !.at = "prepare"])
    /\ UNCHANGED <<doc, txn, nonces, outcome, hist, resumed, flushes, kills>>

\* assembledRevnos: the revisions each operation finds, as those before change them.
revnoAfter(op, n) ==
    CASE op.kind = "insert" /\ n < 0  -> -n + 1
      [] op.kind = "update" /\ n >= 0 -> n + 1
      [] op.kind = "remove" /\ n >= 0 -> -n - 1
      [] OTHER -> n

assembledRevnos(t, revno) ==
    LET At[i \in 1..Len(Ops[t]) + 1] ==
            IF i = 1 THEN revno
            ELSE [At[i - 1] EXCEPT ![Ops[t][i - 1].doc] = revnoAfter(Ops[t][i - 1], @)]
    IN  [i \in DOMAIN Ops[t] |-> At[i][Ops[t][i].doc]]

\* The end of prepare and rescan: prerequisites, or on to the assertions.
Ready(g) ==
    IF PreReqs(g, g.cur.t, g.cur.tt) /\ ~g.cur.force THEN [g EXCEPT !.at = "prereqs"]
    ELSE [g EXCEPT !.at = "assert", !.cur.i = 1,
                   !.cur.revnos = assembledRevnos(g.cur.t, g.cur.revno)]

\* The nonce is saved by the first that has prepared all documents.
SavePrepared(r) ==
    LET g == f[r]  t == g.cur.t IN
    /\ g # None /\ g.at = "prepare" /\ g.cur.todo = <<>>
    /\ \/ /\ txn[t].s = "preparing"
          /\ txn' = [txn EXCEPT ![t].s = "prepared", ![t].n = g.cur.tt.n]
          /\ Set(r, IF Found(g, t, g.cur.tt) THEN Ready([g EXCEPT !.seen[t] = "prepared"])
                    ELSE Begin([g EXCEPT !.seen[t] = "prepared"], "rescan"))
       \/ /\ txn[t].s # "preparing"
          /\ Set(r, [g EXCEPT !.at = "reload"])
          /\ UNCHANGED txn
    /\ UNCHANGED <<doc, stash, nonces, outcome, hist, resumed, flushes, kills>>

\* Somebody else was faster.
ReloadPrepared(r) ==
    LET g == [f[r] EXCEPT !.seen[f[r].cur.t] = txn[f[r].cur.t].s, !.cur.tt = Saved(f[r].cur.t)]
        t == g.cur.t
    IN  /\ f[r] # None /\ f[r].at = "reload"
        /\ Set(r, IF txn[t].s # "prepared" THEN [g EXCEPT !.at = "advance"]
                  ELSE IF Found(g, t, g.cur.tt) THEN Ready(g) ELSE Rescan(g))
        /\ UNCHANGED <<db, nonces, outcome, hist, resumed, flushes, kills>>

(***************************************************************************)
(* rescan                                                                  *)
(***************************************************************************)

Scanned(g, k, revno, queue) ==
    LET h == Prepared(g, k, revno, queue) IN
    IF g.cur.tt \in ToSet(queue) THEN [h EXCEPT !.at = "rescan"] ELSE [h EXCEPT !.at = "popped"]

RescanDoc(r) ==
    LET g == f[r]  k == Head(g.cur.todo)  d == doc[k] IN
    /\ g # None /\ g.at = "rescan" /\ g.cur.todo # <<>>
    /\ Set(r, IF d = None THEN [g EXCEPT !.at = "rescan stash"]
              ELSE IF d.remove # None THEN Help(g, d.remove, "rescan")
              ELSE Scanned(g, k, d.revno, d.queue))
    /\ UNCHANGED <<db, nonces, outcome, hist, resumed, flushes, kills>>

RescanStash(r) ==
    LET g == f[r]  k == Head(g.cur.todo)  s == stash[k] IN
    /\ g # None /\ g.at = "rescan stash"
    /\ Set(r, IF s = None THEN [g EXCEPT !.at = "vanished"]
              ELSE IF s.insert # None THEN Help(g, s.insert, "rescan")
              ELSE Scanned(g, k, StashRevno(s), s.queue))
    /\ UNCHANGED <<db, nonces, outcome, hist, resumed, flushes, kills>>

\* Neither a document nor a stash: somebody may have applied t, or an insert or
\* remove been in between, three times at most.
Vanished(r) ==
    LET g == f[r]  t == g.cur.t IN
    /\ g # None /\ g.at = "vanished"
    /\ CASE txn[t].s # "prepared" -> Set(r, [g EXCEPT !.at = "advance", !.seen[t] = txn[t].s])
         [] txn[t].s = "prepared" /\ g.cur.retry < 2 ->
              Set(r, [g EXCEPT !.at = "rescan", !.cur.retry = @ + 1])
         [] OTHER -> Bug(r)
    /\ UNCHANGED <<db, nonces, outcome, hist, resumed, flushes, kills>>

\* The token has left a queue: t is applied or aborted elsewhere.
Popped(r) ==
    LET g == f[r]  t == g.cur.t IN
    /\ g # None /\ g.at = "popped"
    /\ IF txn[t].s \in {"preparing", "prepared"} THEN Bug(r)
       ELSE Set(r, [g EXCEPT !.at = "advance", !.seen[t] = txn[t].s])
    /\ UNCHANGED <<db, nonces, outcome, hist, resumed, flushes, kills>>

Rescanned(r) ==
    /\ f[r] # None /\ f[r].at = "rescan" /\ f[r].cur.todo = <<>>
    /\ Set(r, Ready(f[r]))
    /\ UNCHANGED <<db, nonces, outcome, hist, resumed, flushes, kills>>

\* loadAndApply of who is inserting or removing the document
LoadAndApply(r) ==
    LET g == f[r]  t == g.help IN
    /\ g # None /\ g.at = "help"
    /\ CASE txn[t].s = "applying" -> Set(r, Apply(g, t, {t}, TRUE))
         [] txn[t].s = "applied"  -> Set(r, [g EXCEPT !.at = g.back])
         [] OTHER -> Bug(r)
    /\ UNCHANGED <<db, nonces, outcome, hist, resumed, flushes, kills>>

(***************************************************************************)
(* assert, abortOrReload, checkpoint                                       *)
(***************************************************************************)

Holds(assert, d) ==
    CASE assert \in {"none", "exists"} -> TRUE
      [] assert = "fresh"   -> d.val = 0
      [] assert = "missing" -> FALSE

\* The assertion on operation i, at the revision its document had at first.
FirstRevno(t, i, revnos) ==
    revnos[CHOOSE j \in DOMAIN revnos : /\ Ops[t][j].doc = Ops[t][i].doc
                                        /\ \A m \in 1..j - 1 : Ops[t][m].doc # Ops[t][i].doc]
Matching(assert, d) == Holds(assert, d)

Asserted(t, i, revnos) ==
    LET op == Ops[t][i]  d == doc[op.doc] IN
    CASE op.assert = "none"    -> TRUE
      [] op.assert = "missing" -> revnos[i] < 0
      [] OTHER -> d # None /\ d.revno = FirstRevno(t, i, revnos) /\ Matching(op.assert, d)

AssertOp(r) ==
    LET g == f[r]  c == g.cur IN
    /\ g # None /\ g.at = "assert"
    /\ Set(r, IF c.i > Len(Ops[c.t]) THEN [g EXCEPT !.at = "checkpoint"]
              ELSE IF Asserted(c.t, c.i, c.revnos) THEN [g EXCEPT !.cur.i = @ + 1]
              ELSE [g EXCEPT !.at = "abort", !.cur.i = 1])
    /\ UNCHANGED <<db, nonces, outcome, hist, resumed, flushes, kills>>

IfPrepared(t) == txn[t].s = "prepared"

SetAborting(r) ==
    LET g == f[r]  t == g.cur.t IN
    /\ g # None /\ g.at = "abort"
    /\ \/ /\ IfPrepared(t)
          /\ txn' = [txn EXCEPT ![t].s = "aborting"]
          /\ Set(r, [g EXCEPT !.at = "pull", !.seen[t] = "aborting"])
       \/ /\ ~IfPrepared(t)
          /\ Set(r, [g EXCEPT !.at = "abort or not"])
          /\ UNCHANGED txn
    /\ UNCHANGED <<doc, stash, nonces, outcome, hist, resumed, flushes, kills>>

ReloadAborting(r) ==
    LET g == f[r]  t == g.cur.t IN
    /\ g # None /\ g.at = "abort or not"
    /\ Set(r, [g EXCEPT !.seen[t] = txn[t].s,
                        !.at = IF txn[t].s = "aborting" THEN "pull" ELSE "advance"])
    /\ UNCHANGED <<db, nonces, outcome, hist, resumed, flushes, kills>>

\* Tokens of handled transactions are picked out of a queue, all but one.
tokensToPull(q, pull, but) == {x \in ToSet(q) : x # but /\ x.id \in pull}
Without(q, S) == SelectSeq(q, LAMBDA x : x \notin S)

PullTokens(r) ==
    LET g == f[r]  c == g.cur  k == Ops[c.t][c.i].doc
        S == tokensToPull(g.queue[k], c.pull, None)
    IN  /\ g # None /\ g.at = "pull"
        /\ \/ /\ c.i > Len(Ops[c.t])
              /\ Set(r, [g EXCEPT !.at = "aborted"])
              /\ UNCHANGED <<doc, stash>>
           \/ /\ c.i <= Len(Ops[c.t])
              /\ Set(r, [g EXCEPT !.cur.i = @ + 1])
              /\ IF \E j \in 1..c.i - 1 : Ops[c.t][j].doc = k THEN UNCHANGED <<doc, stash>>
                 ELSE IF c.revnos[c.i] < 0
                 THEN /\ stash' = IF stash[k] = None THEN stash
                                  ELSE [stash EXCEPT ![k].queue = Without(@, S)]
                      /\ UNCHANGED doc
                 ELSE /\ doc' = IF doc[k] = None THEN doc
                                ELSE [doc EXCEPT ![k].queue = Without(@, S)]
                      /\ UNCHANGED stash
        /\ UNCHANGED <<txn, nonces, outcome, hist, resumed, flushes, kills>>

SetAborted(r) ==
    LET g == f[r]  t == g.cur.t IN
    /\ g # None /\ g.at = "aborted"
    /\ txn' = [txn EXCEPT ![t].s = "aborted"]
    /\ Set(r, [g EXCEPT !.at = "ok", !.seen[t] = "aborted"])
    /\ UNCHANGED <<doc, stash, nonces, outcome, hist, resumed, flushes, kills>>

\* The revisions t must run on are agreed on, once and for all.
Checkpoint(r) ==
    LET g == f[r]  t == g.cur.t IN
    /\ g # None /\ g.at = "checkpoint"
    /\ \/ /\ IfPrepared(t)
          /\ txn' = [txn EXCEPT ![t].s = "applying", ![t].r = g.cur.revnos]
          /\ Set(r, [g EXCEPT !.at = "advance", !.seen[t] = "applying"])
       \/ /\ ~IfPrepared(t)
          /\ Set(r, [g EXCEPT !.at = "lost race"])
          /\ UNCHANGED txn
    /\ UNCHANGED <<doc, stash, nonces, outcome, hist, resumed, flushes, kills>>

ReloadApplying(r) ==
    LET g == f[r]  t == g.cur.t IN
    /\ g # None /\ g.at = "lost race"
    /\ Set(r, [g EXCEPT !.at = "advance", !.seen[t] = txn[t].s])
    /\ UNCHANGED <<db, nonces, outcome, hist, resumed, flushes, kills>>

(***************************************************************************)
(* apply                                                                   *)
(***************************************************************************)

\* What the update of a document asks for: the revision and the token.
\* (_Any: any revision)
HasRevno_Any(d, n) == TRUE
HasRevno(d, n) == d.revno = n
DocMatches(k, n, tt) == doc[k] # None /\ HasRevno(doc[k], n) /\ tt \in ToSet(doc[k].queue)
StashMatches(k, n, tt) ==
    stash[k] # None /\ StashRevno(stash[k]) = n /\ tt \in ToSet(stash[k].queue)

NextOp(g) == [g EXCEPT !.at = "apply", !.app.i = @ + 1]
Record(k, t, i, d) ==
    hist' = [hist EXCEPT ![k] = Append(@, <<t, i, Ops[t][i].assert = "missing" \/ Holds(Ops[t][i].assert, d)>>)]

\* Nothing to do for an assertion, an insert of a document that exists, a
\* change of one that does not, or what somebody has done already.
Misses(op, n, tt) ==
    CASE op.kind = "assert" -> TRUE
      [] op.kind = "update" -> n < 0 \/ ~DocMatches(op.doc, n, tt)
      [] op.kind = "remove" -> n < 0
      [] op.kind = "insert" -> n >= 0 \/ ~StashMatches(op.doc, n, tt)

ApplyOp(r) ==
    LET g == f[r]  a == g.app  op == Ops[a.t][a.i]  k == op.doc  d == doc[k]
        n == txn[a.t].r[a.i]  tt == Saved(a.t)
        pulled == tokensToPull(g.queue[k], a.pull, tt)
    IN  /\ g # None /\ g.at = "apply" /\ a.i <= Len(Ops[a.t])
        /\ \/ /\ Misses(op, n, tt)
              /\ Set(r, NextOp(g))
              /\ UNCHANGED <<doc, stash, hist>>
           \/ /\ op.kind = "update" /\ n >= 0 /\ DocMatches(k, n, tt)
              /\ doc' = [doc EXCEPT ![k] = [@ EXCEPT !.revno = n + 1, !.val = 1,
                                                     !.queue = Without(@, pulled)]]
              /\ Record(k, a.t, a.i, d)
              /\ Set(r, NextOp(g))
              /\ UNCHANGED stash
           \/ /\ op.kind = "remove" /\ n >= 0
              /\ stash' = [stash EXCEPT ![k] =
                              IF @ = None THEN [revno |-> 0, queue |-> <<>>, insert |-> None, n |-> {r}]
                              ELSE [@ EXCEPT !.n = @ \cup {r}]]
              /\ Set(r, [g EXCEPT !.at = "mark",
                           !.app.stashed = stash[k] # None /\ tt \in ToSet(stash[k].queue)])
              /\ UNCHANGED <<doc, hist>>
           \/ /\ op.kind = "insert" /\ n < 0 /\ StashMatches(k, n, tt)
              /\ stash' = [stash EXCEPT ![k].insert = a.t]
              /\ Set(r, [g EXCEPT !.at = "insert", !.app.info = stash[k].queue])
              /\ UNCHANGED <<doc, hist>>
        /\ UNCHANGED <<txn, nonces, outcome, resumed, flushes, kills>>

\* A remove: mark the document, bring the stash up to date with its queue
\* unless that has been done, and remove the document.
Mark(r) ==
    LET g == f[r]  a == g.app  k == Ops[a.t][a.i].doc IN
    /\ g # None /\ g.at = "mark"
    /\ IF DocMatches(k, txn[a.t].r[a.i], Saved(a.t))
       THEN /\ doc' = [doc EXCEPT ![k].remove = a.t]
            /\ Set(r, [g EXCEPT !.at = IF a.stashed THEN "remove" ELSE "restash",
                                !.app.info = doc[k].queue])
       ELSE Set(r, NextOp(g)) /\ UNCHANGED doc
    /\ UNCHANGED <<stash, txn, nonces, outcome, hist, resumed, flushes, kills>>

\* Only the stash this runner has seen: another may have rewritten it.
OwnStash(r, k) == stash[k] # None /\ r \in stash[k].n

Restash(r) ==
    LET g == f[r]  a == g.app  k == Ops[a.t][a.i].doc  n == txn[a.t].r[a.i] IN
    /\ g # None /\ g.at = "restash"
    /\ stash' = IF ~OwnStash(r, k) THEN stash
                ELSE [stash EXCEPT ![k] = [@ EXCEPT !.queue = a.info, !.n = {},
                                                    !.revno = IF n = 0 THEN 0 ELSE -n - 1]]
    /\ Set(r, [g EXCEPT !.at = "remove"])
    /\ UNCHANGED <<doc, txn, nonces, outcome, hist, resumed, flushes, kills>>

RemoveDoc(r) ==
    LET g == f[r]  a == g.app  k == Ops[a.t][a.i].doc IN
    /\ g # None /\ g.at = "remove"
    /\ IF DocMatches(k, txn[a.t].r[a.i], Saved(a.t))
       THEN /\ doc' = [doc EXCEPT ![k] = None]
            /\ Record(k, a.t, a.i, doc[k])
       ELSE UNCHANGED <<doc, hist>>
    /\ Set(r, NextOp(g))
    /\ UNCHANGED <<stash, txn, nonces, outcome, resumed, flushes, kills>>

\* An insert: the document with the queue of the stash, which goes then.
Insert(r) ==
    LET g == f[r]  a == g.app  k == Ops[a.t][a.i].doc  n == txn[a.t].r[a.i] IN
    /\ g # None /\ g.at = "insert"
    /\ IF doc[k] = None
       THEN /\ doc' = [doc EXCEPT ![k] = [revno |-> -n + 1, queue |-> a.info, remove |-> None, val |-> 0]]
            /\ Record(k, a.t, a.i, [val |-> 0])
       ELSE UNCHANGED <<doc, hist>>
    /\ Set(r, [g EXCEPT !.at = "drop stash"])
    /\ UNCHANGED <<stash, txn, nonces, outcome, resumed, flushes, kills>>

DropStash(r) ==
    LET g == f[r]  a == g.app  k == Ops[a.t][a.i].doc IN
    /\ g # None /\ g.at = "drop stash"
    /\ stash' = IF StashMatches(k, txn[a.t].r[a.i], Saved(a.t)) THEN [stash EXCEPT ![k] = None] ELSE stash
    /\ Set(r, NextOp(g))
    /\ UNCHANGED <<doc, txn, nonces, outcome, hist, resumed, flushes, kills>>

AllApplied(a) == a.i > Len(Ops[a.t])

SetApplied(r) ==
    LET g == f[r]  a == g.app IN
    /\ g # None /\ g.at = "apply" /\ AllApplied(a)
    /\ txn' = IF txn[a.t].s = "applying" THEN [txn EXCEPT ![a.t].s = "applied"] ELSE txn
    /\ Set(r, IF a.nested THEN [g EXCEPT !.at = g.back, !.app = None, !.help = None]
              ELSE [g EXCEPT !.at = "ok", !.app = None, !.seen[a.t] = "applied"])
    /\ UNCHANGED <<doc, stash, nonces, outcome, hist, resumed, flushes, kills>>

(***************************************************************************)
(* run and recurse                                                         *)
(***************************************************************************)

Top(g) == Last(g.rec)

\* advance has returned within recurse: done, or with prerequisites to visit.
Returned(r) ==
    LET g == f[r] IN
    /\ g # None /\ g.at \in {"ok", "prereqs"} /\ g.rec # <<>>
    /\ Set(r, [g EXCEPT !.at = "visit", !.cur = None,
                 !.rec = IF g.at = "ok" THEN Front(@)
                         ELSE [@ EXCEPT ![Len(@)].keys = Keys(Top(g).t)]])
    /\ UNCHANGED <<db, nonces, outcome, hist, resumed, flushes, kills>>

\* The transactions found in the queues, depth first.
Visit(r) ==
    LET g == f[r]
        left == SelectSeq(Top(g).ids, LAMBDA u : g.seen[u] = "unseen")
        top  == Len(g.rec)
    IN  /\ g # None /\ g.at = "visit" /\ g.rec # <<>>
        /\ Set(r, IF left # <<>>
                  THEN Recurse([g EXCEPT !.rec[top].ids = Tail(left)], Head(left), txn[Head(left)].s)
                  ELSE IF Top(g).keys # <<>>
                  THEN LET q == g.queue[Head(Top(g).keys)] IN
                       [g EXCEPT !.rec[top].keys = Tail(@),
                                 !.rec[top].ids = [j \in DOMAIN q |-> q[j].id]]
                  ELSE [g EXCEPT !.rec = Front(@)])
        /\ UNCHANGED <<db, nonces, outcome, hist, resumed, flushes, kills>>

\* Which tokens are valid: their transaction is known, under that nonce.
Valid(g, x) == g.seen[x.id] # "unseen" /\ Saved(x.id) = x
ValidIn(g, k) == SelectSeq(g.queue[k], LAMBDA x : Valid(g, x))
Successors(g) ==
    {<<p, s>> \in Txns \X Txns :
        \E k \in Docs : \E i \in 1..Len(ValidIn(g, k)) - 1 :
            p = ValidIn(g, k)[i].id /\ s = ValidIn(g, k)[i + 1].id}
Sorted(g) == {x.id : x \in UNION {ToSet(ValidIn(g, k)) : k \in Docs}}

\* Each transaction with the set pull it is advanced with: those handled before,
\* and itself when it is in no cycle.
PullWith(done, c) == IF Cardinality(c) = 1 THEN done \cup c ELSE done

Plan(o) ==
    LET Part(i) == LET c == SelectSeq(TxnIds, LAMBDA t : t \in o[i]) IN
                   [j \in DOMAIN c |-> <<c[j], PullWith(UNION {o[m] : m \in 1..i - 1}, o[i])>>]
    IN  FlattenSeq([i \in DOMAIN o |-> Part(i)])

\* run, after recurse
Sort(r) ==
    LET g == f[r]  E == Successors(g) IN
    /\ g # None /\ g.at = "visit" /\ g.rec = <<>>
    /\ IF Done(g.seen[g.goal]) THEN Set(r, [g EXCEPT !.at = "return"])
       ELSE IF ~ \E e \in E : e[2] = g.goal
       THEN Set(r, Advance(g, g.goal, {g.goal}, TRUE))
       ELSE \E o \in Orders(E, Sorted(g)) : Set(r, [g EXCEPT !.at = "next", !.plan = Plan(o)])
    /\ UNCHANGED <<db, nonces, outcome, hist, resumed, flushes, kills>>

Sorting(r) ==
    LET g == f[r] IN
    /\ g # None
    /\ \/ g.at = "next" \/ (g.at = "ok" /\ g.rec = <<>>)
    /\ Set(r, IF g.plan = <<>> THEN [g EXCEPT !.at = "return"]
              ELSE Advance([g EXCEPT !.plan = Tail(@)], Head(g.plan)[1], Head(g.plan)[2], TRUE))
    /\ UNCHANGED <<db, nonces, outcome, hist, resumed, flushes, kills>>

Return(r) ==
    LET g == f[r]  s == g.seen[g.goal] IN
    /\ g # None /\ g.at = "return"
    /\ IF Done(s) THEN Set(r, None) /\ outcome' = [outcome EXCEPT ![g.goal] = s]
       ELSE Bug(r) /\ UNCHANGED outcome
    /\ UNCHANGED <<db, nonces, hist, resumed, flushes, kills>>

Step(r) ==
    \/ Dispatch(r) \/ PrepareDoc(r) \/ PrepareStash(r) \/ ConfirmDoc(r) \/ ConfirmStash(r)
    \/ Unstash(r) \/ SavePrepared(r) \/ ReloadPrepared(r)
    \/ RescanDoc(r) \/ RescanStash(r) \/ Vanished(r) \/ Popped(r) \/ Rescanned(r)
    \/ LoadAndApply(r) \/ AssertOp(r) \/ SetAborting(r) \/ ReloadAborting(r) \/ PullTokens(r)
    \/ SetAborted(r) \/ Checkpoint(r) \/ ReloadApplying(r)
    \/ ApplyOp(r) \/ Mark(r) \/ Restash(r) \/ RemoveDoc(r) \/ Insert(r) \/ DropStash(r) \/ SetApplied(r)
    \/ Returned(r) \/ Visit(r) \/ Sort(r) \/ Sorting(r) \/ Return(r)

Next == \/ \E r \in Runners : Run(r) \/ Resume(r) \/ Kill(r) \/ Step(r)
        \/ ResumeAll

Spec == Init /\ [][Next]_vars

\* A runner that is not interrupted goes on.
Fair == \A r \in Runners : WF_vars(Step(r))

(***************************************************************************)
(* Properties                                                              *)
(***************************************************************************)

Position(k, t, i) == {j \in DOMAIN hist[k] : hist[k][j][1] = t /\ hist[k][j][2] = i}
Changes(k, t) == {j \in DOMAIN hist[k] : hist[k][j][1] = t}

\* However many runners apply a transaction, and however often they are
\* interrupted and begin again, no operation of it is performed twice.
AppliedOnce ==
    \A k \in Docs, t \in Txns : \A i \in DOMAIN Ops[t] : Cardinality(Position(k, t, i)) <= 1

\* An aborted transaction has changed nothing; of an applied one every
\* operation has been performed that the agreed revisions allow.
Effective(t, i) ==
    \/ Ops[t][i].kind \in {"update", "remove"} /\ txn[t].r[i] >= 0
    \/ Ops[t][i].kind = "insert" /\ txn[t].r[i] < 0
AllOrNothing ==
    \A t \in Txns :
        /\ txn[t].s \notin {"applying", "applied"} => \A k \in Docs : Changes(k, t) = {}
        /\ txn[t].s = "applied" =>
              \A i \in DOMAIN Ops[t] : Effective(t, i) => Position(Ops[t][i].doc, t, i) # {}

\* Transactions take effect as if one ran after the other: of two that are
\* applied, one comes before the other on every document both change.
ChangesBoth(k, t, u) ==
    \A x \in {t, u} : \E i \in DOMAIN Ops[x] : Ops[x][i].doc = k /\ Effective(x, i)
Precedes(k, t, u) == \A i \in Changes(k, t), j \in Changes(k, u) : i < j
Serializable ==
    \A t, u \in {x \in Txns : txn[x].s = "applied"} :
        LET K == {k \in Docs : ChangesBoth(k, t, u)} IN
        /\ \A k \in K : Changes(k, t) # {}
        /\ t # u => (\A k \in K : Precedes(k, t, u)) \/ (\A k \in K : Precedes(k, u, t))

\* What a transaction asserted of a document still holds when it changes it,
\* unless it has changed it before itself.
AssertionsHeld ==
    \A k \in Docs : \A j \in DOMAIN hist[k] :
        hist[k][j][3] \/ \E m \in 1..j - 1 : hist[k][m][1] = hist[k][j][1]

\* No panic: not while saving a nonce, rescanning, helping, nor after a flush;
\* and no document or transaction is missing.
NoPanic == \A r \in Runners : f[r] # None => f[r].at # "bug"

\* What a caller was told is what happened, and stays so.
TellsTruth == \A t \in Txns : outcome[t] \in {"applied", "aborted"} => txn[t].s = outcome[t]


\* Every flush comes to its end, though transactions wait for each other in
\* cycles and several runners work on the same ones.
FlushEnds == \A r \in Runners : []<>(f[r] = None)

\* After ResumeAll, nothing that was interrupted is left but what is aborting.
ResumedOrAborting == resumed => \A t \in Txns : Done(txn[t].s) \/ txn[t].s \in {"none", "aborting"}

=============================================================================
