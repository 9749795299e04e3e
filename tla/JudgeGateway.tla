---------------------------- MODULE JudgeGateway ----------------------------
(***************************************************************************)
(* The judge gateway: sessions, one per judge, the lease of the one live   *)
(* run, and the login event that is emitted once per session.  All of it   *)
(* is in the memory of one process, under one lock; a restart loses it.    *)
(***************************************************************************)
EXTENDS Naturals, FiniteSets

CONSTANTS
    None,
    Judges,     \* subjects on the allowlist
    Tabs,       \* browser tabs, each signed in as one judge
    JudgeOf,    \* [Tabs -> Judges]
    Sids,       \* the session ids that may be minted
    Ttl,        \* LEASE_TTL_SECONDS
    MaxNow      \* bound on the clock

ASSUME GatewayConstants ==
    /\ JudgeOf \in [Tabs -> Judges] /\ None \notin Judges \cup Sids
    /\ Ttl \in Nat \ {0} /\ MaxNow \in Nat

VARIABLES
    sessions,   \* the judge of each open session
    lease,      \* the run lease
    tab,        \* the session id each tab holds
    minted,     \* ids used so far, by this process or an earlier one
    logged,     \* how often each session's login has been logged
    pending,    \* sessions whose login event has yet to be emitted
    grants,     \* the leases this process has promised and not taken back
    now

vars == <<sessions, lease, tab, minted, logged, pending, grants, now>>

Lease(s, expires) == [sid |-> s, expires |-> expires]
NoLease == Lease(None, 0)

-----------------------------------------------------------------------------
(* Sessions *)

SessionsOf(j) == {s \in Sids : sessions[s] = j}

\* open: one session per judge, also for a second tab and after a refresh.
Reuse(t, s) ==
    /\ s \in SessionsOf(JudgeOf[t])
    /\ tab' = [tab EXCEPT ![t] = s]
    /\ UNCHANGED <<sessions, lease, minted, logged, pending, grants, now>>

MutantMint(t, s) ==
    /\ s \notin minted
    /\ sessions' = [sessions EXCEPT ![s] = JudgeOf[t]]
    /\ tab' = [tab EXCEPT ![t] = s]
    /\ minted' = minted \cup {s}
    /\ pending' = pending \cup {s}
    /\ UNCHANGED <<lease, logged, grants, now>>
Mint(t, s) ==
    /\ SessionsOf(JudgeOf[t]) = {}
    /\ s \notin minted
    /\ sessions' = [sessions EXCEPT ![s] = JudgeOf[t]]
    /\ tab' = [tab EXCEPT ![t] = s]
    /\ minted' = minted \cup {s}
    /\ pending' = pending \cup {s}
    /\ UNCHANGED <<lease, logged, grants, now>>

\* _open_session emits the event after the lock is released.
LogLogin(s) ==
    /\ s \in pending
    /\ pending' = pending \ {s}
    /\ logged' = [logged EXCEPT ![s] = @ + 1]
    /\ UNCHANGED <<sessions, lease, tab, minted, grants, now>>

\* _session_or_401: the id is one of this process, and of this judge.
Admitted(t) == tab[t] # None /\ sessions[tab[t]] = JudgeOf[t]

-----------------------------------------------------------------------------
(* The lease *)

\* _expire_locked
MutantUnexpired == IF lease.expires <= now + 1 THEN NoLease ELSE lease
Unexpired == IF lease.expires <= now THEN NoLease ELSE lease

Acquire(t) ==
    /\ Admitted(t)
    /\ Unexpired.sid \in {None, tab[t]}
    /\ lease' = Lease(tab[t], now + Ttl)
    /\ grants' = grants \cup {lease'}
    /\ UNCHANGED <<sessions, tab, minted, logged, pending, now>>

\* DEMONSTRATION_IN_PROGRESS, and GET lease: both drop an expired lease.
Ask(t) ==
    /\ Admitted(t)
    /\ lease' = Unexpired
    /\ UNCHANGED <<sessions, tab, minted, logged, pending, grants, now>>

\* Any tab of the judge releases, for all of them; an expired lease as well.
Release(t) ==
    /\ Admitted(t)
    /\ lease.sid = tab[t]
    /\ lease' = NoLease
    /\ grants' = {g \in grants : g.sid # tab[t]}
    /\ UNCHANGED <<sessions, tab, minted, logged, pending, now>>

-----------------------------------------------------------------------------

Tick ==
    /\ now < MaxNow
    /\ now' = now + 1
    /\ UNCHANGED <<sessions, lease, tab, minted, logged, pending, grants>>

Restart ==
    /\ sessions' = [s \in Sids |-> None]
    /\ lease' = NoLease /\ pending' = {} /\ grants' = {}
    /\ UNCHANGED <<tab, minted, logged, now>>

Init ==
    /\ sessions = [s \in Sids |-> None] /\ lease = NoLease
    /\ tab = [t \in Tabs |-> None] /\ minted = {}
    /\ logged = [s \in Sids |-> 0] /\ pending = {} /\ grants = {} /\ now = 0

Next ==
    \/ \E t \in Tabs, s \in Sids : Reuse(t, s) \/ Mint(t, s)
    \/ \E s \in Sids : LogLogin(s)
    \/ \E t \in Tabs : Acquire(t) \/ Ask(t) \/ Release(t)
    \/ Tick \/ Restart

Spec == Init /\ [][Next]_vars

-----------------------------------------------------------------------------
(* Properties *)

LeaseRow == [sid : Sids \cup {None}, expires : Nat]

GatewayTypeOK ==
    /\ sessions \in [Sids -> Judges \cup {None}]
    /\ lease \in LeaseRow /\ tab \in [Tabs -> Sids \cup {None}]
    /\ minted \subseteq Sids /\ logged \in [Sids -> Nat] /\ pending \subseteq Sids
    /\ grants \subseteq LeaseRow /\ now \in 0..MaxNow

\* One live run at a time: until a granted lease has expired or its judge has
\* given it back, no other session is granted one, however acquisitions,
\* releases, expiries and several tabs of one judge interleave.
OneRunAtATime ==
    \A g, h \in grants : now < g.expires /\ now < h.expires => g.sid = h.sid

\* A judge has one session, whatever tabs and refreshes, and its login is logged
\* once: the event is emitted outside the lock, and only a restart may lose it.
OneLoginPerJudge ==
    \A s \in Sids :
        /\ \A u \in Sids : sessions[s] = sessions[u] /\ sessions[s] # None => s = u
        /\ sessions[s] # None =>
              logged[s] + Cardinality(pending \cap {s}) = 1
        /\ logged[s] <= 1
=============================================================================
