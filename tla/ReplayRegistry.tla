--------------------------- MODULE ReplayRegistry ---------------------------
(***************************************************************************)
(* The registry of replay sessions on the public server: creation, reset,  *)
(* adoption of ids the instance has never seen, and the retirement of the  *)
(* oldest session beyond the cap.                                          *)
(*                                                                         *)
(* The store and the list of ids in order of creation have locks of their  *)
(* own, and a session is closed under a third.  No request holds two of    *)
(* them, so that adoption, reset and retirement are several actions and    *)
(* run into each other.  A session object is named for the request that    *)
(* made it; the id a request mints is the request.                         *)
(***************************************************************************)
EXTENDS Naturals, Sequences, FiniteSets

CONSTANTS
    None,
    Requests,
    Strays,         \* well-formed ids from other instances or an earlier process
    MaxSessions

ASSUME RegistryConstants ==
    MaxSessions \in Nat \ {0} /\ None \notin Requests \X {"created", "adopted"}

Ids == Requests \cup Strays
Objects == Requests \X {"created", "adopted"}

VARIABLES
    store,      \* the session object of each known id
    order,      \* ids in order of creation or adoption
    closed,     \* the session objects that have been closed
    req         \* the requests

vars == <<store, order, closed, req>>

\* What a request does next, the id it is about, the session it holds, the ids
\* it has yet to retire, and what follows once it has.
Idle == [step |-> "idle", id |-> None, held |-> None, victims |-> <<>>,
         then |-> "done"]

\* A request that has been answered holds nothing any more.
Goes(h, r) ==
    req' = [req EXCEPT ![h] =
        IF r.step = "done" THEN [Idle EXCEPT !.step = "done", !.id = r.id] ELSE r]
Stores(id, object) == store' = [store EXCEPT ![id] = object]

-----------------------------------------------------------------------------
(* Creation and adoption *)

\* SessionStore.create, then _remember.
Mint(h) ==
    /\ Stores(h, <<h, "created">>)
    /\ Goes(h, [req[h] EXCEPT !.step = "remember", !.id = h, !.then = "done"])
    /\ UNCHANGED <<order, closed>>

Create(h) == req[h] = Idle /\ Mint(h)

\* _session, for a request that uses the session (then = "done") or resets it.
Lookup(h, id, then) ==
    /\ req[h] = Idle
    /\ Goes(h, [Idle EXCEPT
            !.id = id, !.held = store[id], !.then = then,
            !.step = IF store[id] = None THEN "adopt" ELSE then])
    /\ UNCHANGED <<store, order, closed>>

\* Another thread may have adopted the id first: theirs is kept.
MutantAdoptNew(h) ==
    /\ req[h].step = "adopt" /\ store[req[h].id] = None
    /\ Stores(req[h].id, <<h, "adopted">>)
    /\ Goes(h, [req[h] EXCEPT !.step = req[h].then, !.held = <<h, "adopted">>])
    /\ UNCHANGED <<order, closed>>
AdoptNew(h) ==
    /\ req[h].step = "adopt" /\ store[req[h].id] = None
    /\ Stores(req[h].id, <<h, "adopted">>)
    /\ Goes(h, [req[h] EXCEPT !.step = "remember", !.held = <<h, "adopted">>])
    /\ UNCHANGED <<order, closed>>
AdoptTheirs(h) ==
    /\ req[h].step = "adopt" /\ store[req[h].id] # None
    /\ Goes(h, [req[h] EXCEPT !.step = req[h].then, !.held = store[req[h].id]])
    /\ UNCHANGED <<store, order, closed>>

-----------------------------------------------------------------------------
(* _remember: append the id, then retire the oldest ones *)

MutantBeyondCap(ids) == IF Len(ids) > MaxSessions + 1 THEN 1 ELSE 0
BeyondCap(ids) == IF Len(ids) > MaxSessions THEN Len(ids) - MaxSessions ELSE 0

Remember(h) ==
    LET ids == Append(order, req[h].id)
        n == BeyondCap(ids)
    IN  /\ req[h].step = "remember"
        /\ order' = SubSeq(ids, n + 1, Len(ids))
        /\ Goes(h, [req[h] EXCEPT !.step = "retire", !.victims = SubSeq(ids, 1, n)])
        /\ UNCHANGED <<store, closed>>

Victim(h) == Head(req[h].victims)

RetireGet(h) ==
    /\ req[h].step = "retire" /\ req[h].victims # <<>>
    /\ Goes(h, [req[h] EXCEPT !.step = "retire_close", !.held = store[Victim(h)]])
    /\ UNCHANGED <<store, order, closed>>

\* A session that is already gone is not closed, but its id is popped.
MutantRetireClose(h) ==
    /\ req[h].step = "retire_close"
    /\ closed' = closed \cup ({req[h].held} \ {None})
    /\ Goes(h, [req[h] EXCEPT !.step = "retire", !.victims = Tail(@)])
    /\ UNCHANGED <<store, order>>
RetireClose(h) ==
    /\ req[h].step = "retire_close"
    /\ closed' = closed \cup ({req[h].held} \ {None})
    /\ Goes(h, [req[h] EXCEPT !.step = "retire_pop"])
    /\ UNCHANGED <<store, order>>

\* By id, whichever session is registered under it by now.
RetirePop(h) ==
    /\ req[h].step = "retire_pop"
    /\ Stores(Victim(h), None)
    /\ Goes(h, [req[h] EXCEPT !.step = "retire", !.victims = Tail(@)])
    /\ UNCHANGED <<order, closed>>

Retired(h) ==
    /\ req[h].step = "retire" /\ req[h].victims = <<>>
    /\ Goes(h, [req[h] EXCEPT !.step = req[h].then])
    /\ UNCHANGED <<store, order, closed>>

-----------------------------------------------------------------------------
(* SessionStore.reset *)

ResetGet(h) ==
    /\ req[h].step = "reset"
    /\ Goes(h, [req[h] EXCEPT
            !.held = store[req[h].id],
            !.step = IF store[req[h].id] = None THEN "done" ELSE "reset_close"])
    /\ UNCHANGED <<store, order, closed>>

ResetClose(h) ==
    /\ req[h].step = "reset_close"
    /\ closed' = closed \cup {req[h].held}
    /\ Goes(h, [req[h] EXCEPT !.step = "reset_pop"])
    /\ UNCHANGED <<store, order>>

ResetPop(h) ==
    /\ req[h].step = "reset_pop"
    /\ Stores(req[h].id, None)
    /\ Goes(h, [req[h] EXCEPT !.step = "reset_create"])
    /\ UNCHANGED <<order, closed>>

ResetCreate(h) == req[h].step = "reset_create" /\ Mint(h)

-----------------------------------------------------------------------------

Init ==
    /\ store = [id \in Ids |-> None]
    /\ order = <<>>
    /\ closed = {}
    /\ req = [h \in Requests |-> Idle]

\* The ids clients hold: strays, and what finished requests have minted.
Held == Strays \cup {h \in Requests : req[h].step = "done" /\ req[h].id = h}

Arrive(h) ==
    \/ Create(h)
    \/ \E id \in Held, then \in {"done", "reset"} :
          Lookup(h, id, then)
Proceed(h) ==
    \/ AdoptNew(h) \/ AdoptTheirs(h)
    \/ Remember(h) \/ RetireGet(h) \/ RetireClose(h) \/ RetirePop(h) \/ Retired(h)
    \/ ResetGet(h) \/ ResetClose(h) \/ ResetPop(h) \/ ResetCreate(h)

Next == \E h \in Requests : Arrive(h) \/ Proceed(h)

\* A handler that has begun runs to its end.
Spec == Init /\ [][Next]_vars /\ \A h \in Requests : WF_vars(Proceed(h))

-----------------------------------------------------------------------------
(* Properties *)

Steps == {"idle", "adopt", "remember", "retire", "retire_close", "retire_pop",
          "reset", "reset_close", "reset_pop", "reset_create", "done"}

RegistryTypeOK ==
    /\ store \in [Ids -> Objects \cup {None}]
    /\ order \in Seq(Ids) /\ closed \subseteq Objects
    /\ req \in [Requests ->
          [step : Steps, id : Ids \cup {None}, held : Objects \cup {None},
           victims : Seq(Ids), then : {"done", "reset"}]]

\* No session escapes retirement: a stored id is in the order list, or a request
\* is about to put it there, or to retire it.
Remembered(id) ==
    \/ \E i \in DOMAIN order : order[i] = id
    \/ \E h \in Requests :
          \/ req[h].step = "remember" /\ req[h].id = id
          \/ \E i \in DOMAIN req[h].victims : req[h].victims[i] = id
EverySessionIsRemembered == \A id \in Ids : store[id] # None => Remembered(id)

\* A session that a reset or a retirement has closed does not stay registered,
\* where every stream of it would end at once: whoever closed it will pop it.
ClosedSessionsLeave ==
    \A id \in Ids : store[id] \in closed =>
        \E h \in Requests :
            \/ req[h].step = "reset_pop" /\ req[h].id = id
            \/ req[h].step = "retire_pop" /\ Victim(h) = id

\* The cap is exceeded only while requests are on their way.
StoreSettles == <>[](Cardinality({id \in Ids : store[id] # None}) <= MaxSessions)
=============================================================================
