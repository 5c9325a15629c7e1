------------------------------- MODULE Quotas -------------------------------
(***************************************************************************)
(* The limits of one API key: how many fragments it may have, and how many *)
(* of them may be anchors.  A remember is checked against the first limit  *)
(* before its insert (lib/memory/QuotaChecker.js), or in the transaction of*)
(* the insert when MEMENTO_REMEMBER_ATOMIC is set; the write gate judges a *)
(* request for an anchor outside any transaction, and marks what it grants *)
(* so that the write counts again, under a lock on the key's row           *)
(* (lib/memory/write/anchorQuota.js).  A fragment under review keeps its   *)
(* request until it is approved (lib/admin/ReviewStore.js).                *)
(*                                                                         *)
(* Statements of one transaction are steps of their own, so those of other *)
(* requests come in between; a fragment's id is never used again.          *)
(***************************************************************************)
EXTENDS Naturals, FiniteSets

CONSTANTS
  Fragments,      \* ids of fragments
  Requests,       \* remember and amend requests under way at a time
  Nobody, Nothing,
  FragmentLimit,  \* fragment_limit of the key
  AnchorLimit,    \* MEMENTO_ANCHOR_LIMIT_PER_KEY
  Margin,         \* QUOTA_NEAR_LIMIT_MARGIN
  AutoPromote     \* MEMENTO_AUTO_PROMOTE_ANCHORS

ASSUME QuotaAssumption  == {FragmentLimit, AnchorLimit, Margin} \subseteq Nat /\ AutoPromote \in BOOLEAN
ASSUME NobodyAssumption == Nobody \notin Requests /\ Nothing \notin Nat \cup Fragments

VARIABLES
  used, live,   \* ids given out; fragments whose valid_to is NULL
  anchors,      \* is_anchor
  held,         \* pending review, with an anchor requested
  keyLock,      \* the transaction that has locked the key's row
  task,         \* what each request is at
  usage,        \* the cached remaining number of getUsage
  unjudged      \* history: anchors that were set without a judgement

quotaVars == <<used, live, anchors, held, keyLock, task, usage, unjudged>>
columns   == <<used, live, anchors, held, unjudged>>

Rest == [at |-> "idle", fragment |-> Nothing, anchor |-> "keep", base |-> FALSE, marked |-> FALSE, atomic |-> FALSE]
In(r, phase)   == task[r].at = phase
Move(r, phase) == task' = [task EXCEPT ![r].at = phase]
Finish(r)      == task' = [task EXCEPT ![r] = Rest]
Free(r)        == keyLock' = IF keyLock = r THEN Nobody ELSE keyLock

LiveAnchors == anchors \cap live
Remaining   == IF Cardinality(live) < FragmentLimit THEN FragmentLimit - Cardinality(live) ELSE 0
\* mutant: the anchors are not counted again under the lock
BugBelowLimit(r) == In(r, "count") \/ Cardinality(LiveAnchors) < AnchorLimit
\* decideAnchor of the gate, and the count of lockAndCountAnchors.
BelowLimit(r) == Cardinality(LiveAnchors) < AnchorLimit

QuotaInit ==
  /\ used = {} /\ live = {} /\ anchors = {} /\ held = {} /\ unjudged = {}
  /\ keyLock = Nobody /\ usage = Nothing
  /\ task = [r \in Requests |-> Rest]

-----------------------------------------------------------------------------
BeginRemember(r) ==
  /\ In(r, "idle")
  /\ \E a \in {"set", "keep"}, atomic \in BOOLEAN :
       task' = [task EXCEPT ![r] = [Rest EXCEPT !.at = IF atomic THEN "gate" ELSE "check",
                                                !.anchor = a, !.atomic = atomic]]
  /\ UNCHANGED <<columns, keyLock, usage>>

\* QuotaChecker.check, first part: far from the limit the cache will do.
Check(r) ==
  /\ In(r, "check")
  /\ usage' = IF usage = Nothing THEN Remaining ELSE usage
  /\ Move(r, IF usage' > Margin THEN "gate" ELSE "recheck")
  /\ UNCHANGED <<columns, keyLock>>

\* QuotaChecker.check, second part: one short transaction under FOR UPDATE.
Recheck(r) ==
  /\ In(r, "recheck") /\ keyLock = Nobody
  /\ IF Remaining = 0 THEN Finish(r) /\ UNCHANGED usage
                      ELSE Move(r, "gate") /\ usage' = Nothing
  /\ UNCHANGED <<columns, keyLock>>

UsageExpires ==
  /\ usage # Nothing
  /\ usage' = Nothing
  /\ UNCHANGED <<columns, keyLock, task>>

\* An amend that sets or clears the anchor; the fragment is read beforehand.
BeginAmend(r) ==
  /\ In(r, "idle")
  /\ \E f \in live, a \in {"set", "clear"} :
       task' = [task EXCEPT ![r] = [Rest EXCEPT !.at = "gate", !.fragment = f, !.anchor = a,
                                                !.base = f \in anchors]]
  /\ UNCHANGED <<columns, keyLock, usage>>

\* WriteGate: what the request asks for is granted and marked, refused (set
\* aside or, with enforce, rejected), or held for review.  An amend of what it
\* saw as an anchor already changes nothing and is not judged (anchorChange).
Gate(r) ==
  LET judged == task[r].anchor = "set" /\ ~task[r].base
      first  == IF task[r].atomic THEN "lock quota" ELSE "write"
      Pass(anchor, marked, next) ==
        task' = [task EXCEPT ![r] = [@ EXCEPT !.at = next, !.anchor = anchor, !.marked = marked,
                                              !.base = FALSE]]
  IN /\ In(r, "gate")
     /\ \/ ~judged /\ Pass(task[r].anchor, FALSE, first)
        \/ /\ judged /\ BelowLimit(r)
           /\ Pass("set", TRUE, IF task[r].atomic THEN "lock quota" ELSE "lock anchors")
        \/ judged /\ ~BelowLimit(r) /\ (Pass("keep", FALSE, first) \/ Finish(r))
        \/ task[r].anchor = "set" /\ Pass("hold", FALSE, first)
     /\ UNCHANGED <<columns, keyLock, usage>>

-----------------------------------------------------------------------------
\* lockQuota of _rememberAtomic: the key's row FOR UPDATE, and the count.
LockQuota(r) ==
  /\ In(r, "lock quota") /\ keyLock = Nobody
  /\ IF Remaining = 0
       THEN Finish(r) /\ UNCHANGED keyLock
       ELSE keyLock' = r /\ Move(r, IF task[r].marked THEN "count" ELSE "write")
  /\ UNCHANGED <<columns, usage>>

\* ANCHOR_QUOTA_LOCK_SQL: the key's row FOR NO KEY UPDATE.
LockAnchors(r) ==
  /\ In(r, "lock anchors") /\ keyLock = Nobody
  /\ keyLock' = r
  /\ Move(r, "count")
  /\ UNCHANGED <<columns, usage>>

\* countLiveAnchors; beyond the limit the anchor is dropped, or the write undone.
CountAnchors(r) ==
  /\ In(r, "count")
  /\ \/ BelowLimit(r) /\ Move(r, "write") /\ UNCHANGED keyLock
     \/ /\ ~BelowLimit(r)
        /\ \/ /\ task' = [task EXCEPT ![r].at = "write", ![r].anchor = "keep", ![r].marked = FALSE]
              /\ UNCHANGED keyLock
           \/ Finish(r) /\ Free(r)
  /\ UNCHANGED <<columns, usage>>

\* mutant: lockQuota locks as the anchors do, which lets inserts pass
BugKeyShared(r) == TRUE
\* The foreign key of an insert waits for FOR UPDATE, not for FOR NO KEY UPDATE.
KeyShared(r) == \A q \in Requests \ {r} : keyLock = q => ~task[q].atomic

Columns(f, r) ==
  /\ anchors'  = CASE task[r].anchor = "set" -> anchors \cup {f}
                   [] task[r].anchor = "clear" -> anchors \ {f}
                   [] OTHER -> anchors
  /\ held'     = IF task[r].anchor = "hold" THEN held \cup {f} ELSE held
  /\ unjudged' = IF task[r].marked \/ f \notin anchors' THEN unjudged \ {f}
                 ELSE IF f \in anchors THEN unjudged ELSE unjudged \cup {f}

\* FragmentWriter.insertDetailed, and the COMMIT.
Insert(r) ==
  /\ In(r, "write") /\ task[r].fragment = Nothing
  /\ KeyShared(r)
  /\ \E f \in Fragments \ used :
       /\ used' = used \cup {f} /\ live' = live \cup {f}
       /\ Columns(f, r)
  /\ Finish(r) /\ Free(r)
  /\ UNCHANGED usage

\* FragmentWriter.update from the row lock to the COMMIT.
Update(r) ==
  /\ In(r, "write") /\ task[r].fragment # Nothing
  /\ IF task[r].fragment \in live THEN Columns(task[r].fragment, r)
                                  ELSE UNCHANGED <<anchors, held, unjudged>>
  /\ Finish(r) /\ Free(r)
  /\ UNCHANGED <<used, live, usage>>

\* The request fails or its process dies; its transaction is rolled back.
Abort(r) ==
  /\ ~In(r, "idle")
  /\ Finish(r) /\ Free(r)
  /\ UNCHANGED <<columns, usage>>

-----------------------------------------------------------------------------
\* FragmentWriter.delete.
Delete(f) ==
  /\ f \in live
  /\ live' = live \ {f}
  /\ anchors' = anchors \ {f} /\ held' = held \ {f} /\ unjudged' = unjudged \ {f}
  /\ UNCHANGED <<used, keyLock, task, usage>>

\* applyDecision: under the key's lock the request that was held is judged.
Approve(f) ==
  /\ f \in held /\ keyLock = Nobody
  /\ held'    = held \ {f}
  /\ \E applied \in {FALSE, Cardinality(LiveAnchors) < AnchorLimit} :
       /\ anchors'  = IF applied THEN anchors \cup {f} ELSE anchors
       /\ unjudged' = IF applied THEN unjudged \ {f} ELSE unjudged
  /\ UNCHANGED <<used, live, keyLock, task, usage>>

\* applyDecision: a rejected fragment is closed.
Reject(f) ==
  /\ f \in held
  /\ held' = held \ {f} /\ live' = live \ {f}
  /\ UNCHANGED <<used, anchors, unjudged, keyLock, task, usage>>

\* _promoteAnchors takes no notice of the limit, nor of what is under review.
PromoteAnchors ==
  /\ AutoPromote
  /\ \E S \in SUBSET (live \ (anchors \cup held)) \ {{}} :
       anchors' = anchors \cup S /\ unjudged' = unjudged \cup S
  /\ UNCHANGED <<used, live, held, keyLock, task, usage>>

QuotaNext ==
  \/ \E r \in Requests :
       \/ BeginRemember(r) \/ Check(r) \/ Recheck(r) \/ BeginAmend(r) \/ Gate(r)
       \/ LockQuota(r) \/ LockAnchors(r) \/ CountAnchors(r)
       \/ Insert(r) \/ Update(r) \/ Abort(r)
  \/ \E f \in Fragments : Delete(f) \/ Approve(f) \/ Reject(f)
  \/ PromoteAnchors \/ UsageExpires

QuotaSpec == QuotaInit /\ [][QuotaNext]_quotaVars
-----------------------------------------------------------------------------
QuotaTypeOK ==
  /\ live \subseteq used /\ used \subseteq Fragments
  /\ anchors \subseteq used /\ held \subseteq live /\ unjudged \subseteq anchors
  /\ keyLock \in Requests \cup {Nobody}
  /\ usage \in 0 .. FragmentLimit \cup {Nothing}
  /\ task \in [Requests ->
       [at : {"idle", "check", "recheck", "gate", "lock quota", "lock anchors", "count", "write"},
        fragment : Fragments \cup {Nothing}, anchor : {"set", "clear", "keep", "hold"},
        base : BOOLEAN, marked : BOOLEAN, atomic : BOOLEAN]]

(* The anchors that were judged keep to the limit, however many requests   *)
(* and reviews the gate lets pass at the same time (lockAndCountAnchors).  *)
JudgedAnchorsKeepTheLimit ==
  Cardinality(LiveAnchors \ unjudged) <= AnchorLimit

(* A remember with MEMENTO_REMEMBER_ATOMIC never brings the key beyond its *)
(* fragment limit, even beside requests that only check in advance         *)
(* (_rememberAtomic, lockQuota).                                           *)
AtomicKeepsTheLimit ==
  [][\A r \in Requests : task[r].atomic /\ In(r, "write") /\ live' \ live # {} /\ task'[r] = Rest =>
       Cardinality(live') <= FragmentLimit]_quotaVars

(* "A key's anchor count does not exceed the limit even under concurrent   *)
(* requests" (docs/configuration.en.md, anchor limit); automatic promotion *)
(* is the exception it names.                                              *)
AnchorsKeepTheLimit == Cardinality(LiveAnchors) <= AnchorLimit
=============================================================================
