------------------------- MODULE JudgeGatewayProofs -------------------------
(***************************************************************************)
(* The judge gateway for any number of judges, tabs and sessions, any      *)
(* lease time and any clock: one live run at a time, and one session and   *)
(* one login event for each judge.                                         *)
(***************************************************************************)
EXTENDS JudgeGateway, FiniteSetTheorems, TLAPS

-----------------------------------------------------------------------------
(* The state of the gateway has its type *)

LEMMA UnexpiredTyped == GatewayTypeOK => Unexpired \in LeaseRow
  BY DEF GatewayTypeOK, Unexpired, NoLease, Lease, LeaseRow

LEMMA TypeStep == GatewayTypeOK /\ [Next]_vars => GatewayTypeOK'
  <1> SUFFICES ASSUME GatewayTypeOK, [Next]_vars PROVE GatewayTypeOK'
    OBVIOUS
  <1> USE GatewayConstants
  <1>0. NoLease \in LeaseRow
    BY DEF NoLease, Lease, LeaseRow
  <1>1. ASSUME NEW t \in Tabs, NEW s \in Sids, Reuse(t, s) \/ Mint(t, s)
        PROVE  GatewayTypeOK'
    BY <1>1 DEF Reuse, Mint, GatewayTypeOK, SessionsOf
  <1>2. ASSUME NEW s \in Sids, LogLogin(s)
        PROVE  GatewayTypeOK'
    BY <1>2 DEF LogLogin, GatewayTypeOK
  <1>3. ASSUME NEW t \in Tabs, Acquire(t)
        PROVE  GatewayTypeOK'
    <2>1. lease' \in LeaseRow
      BY <1>3 DEF Acquire, Admitted, Lease, LeaseRow, GatewayTypeOK
    <2> QED
      BY <1>3, <2>1 DEF Acquire, GatewayTypeOK
  <1>4. ASSUME NEW t \in Tabs, Ask(t) \/ Release(t)
        PROVE  GatewayTypeOK'
    BY <1>0, <1>4, UnexpiredTyped DEF Ask, Release, GatewayTypeOK
  <1>5. CASE Tick
    BY <1>5 DEF Tick, GatewayTypeOK
  <1>6. CASE Restart
    BY <1>0, <1>6 DEF Restart, GatewayTypeOK
  <1>7. CASE UNCHANGED vars
    BY <1>7 DEF vars, GatewayTypeOK
  <1> QED
    BY <1>1, <1>2, <1>3, <1>4, <1>5, <1>6, <1>7 DEF Next

\* Every variable of the gateway has its type, whatever judges and tabs there are.
THEOREM GatewayTyped == Spec => []GatewayTypeOK
  <1>1. Init => GatewayTypeOK
    BY GatewayConstants DEF Init, GatewayTypeOK, NoLease, Lease, LeaseRow
  <1> QED
    BY <1>1, TypeStep, PTL DEF Spec

-----------------------------------------------------------------------------
(* One live run *)

\* A promise that still holds is the one the gateway keeps, at least as long.
Live(g) == now < g.expires
GrantsAreKept ==
    \A g \in grants :
        /\ g.sid \in Sids /\ g.expires <= now + Ttl
        /\ Live(g) => g.sid = lease.sid /\ g.expires <= lease.expires

LEMMA GrantsStep ==
    ASSUME GatewayTypeOK, GrantsAreKept, [Next]_vars
    PROVE  GrantsAreKept'
  <1> USE GatewayConstants
  <1>a. /\ now \in Nat /\ lease.expires \in Nat /\ Ttl \in Nat \ {0}
        /\ \A g \in grants : g.expires \in Nat
    BY DEF GatewayTypeOK, LeaseRow
  <1>b. ASSUME NEW g \in grants, Live(g)
        PROVE  Unexpired = lease /\ lease.sid = g.sid /\ lease.sid # None
    BY <1>a, <1>b DEF GrantsAreKept, Live, Unexpired
  <1>1. ASSUME UNCHANGED <<lease, grants, now>>
        PROVE  GrantsAreKept'
    BY <1>1 DEF GrantsAreKept, Live
  <1>2. ASSUME NEW t \in Tabs, Acquire(t)
        PROVE  GrantsAreKept'
    <2>1. /\ tab[t] \in Sids /\ now' = now
          /\ Unexpired.sid \in {None, tab[t]}
          /\ lease' = [sid |-> tab[t], expires |-> now + Ttl]
          /\ grants' = grants \cup {lease'}
      BY <1>2 DEF Acquire, Admitted, Lease, GatewayTypeOK
    <2>2. ASSUME NEW g \in grants, Live(g)
          PROVE  g.sid = tab[t] /\ g.expires <= now + Ttl
      BY <1>b, <2>1, <2>2 DEF GrantsAreKept
    <2>3. ASSUME NEW g \in grants
          PROVE  /\ g.sid \in Sids /\ g.expires <= now + Ttl
                 /\ now < g.expires => g.sid = lease'.sid /\ g.expires <= lease'.expires
      BY <2>1, <2>2 DEF GrantsAreKept, Live
    <2> QED
      BY <1>a, <2>1, <2>3 DEF GrantsAreKept, Live
  <1>3. ASSUME NEW t \in Tabs, Ask(t)
        PROVE  GrantsAreKept'
    <2>1. lease' = Unexpired /\ grants' = grants /\ now' = now
      BY <1>3 DEF Ask
    <2> QED
      BY <1>b, <2>1 DEF GrantsAreKept, Live
  <1>4. ASSUME NEW t \in Tabs, Release(t)
        PROVE  GrantsAreKept'
    <2>1. /\ lease.sid = tab[t] /\ now' = now
          /\ grants' = {g \in grants : g.sid # tab[t]}
      BY <1>4 DEF Release
    <2>2. \A g \in grants' : g \in grants /\ ~Live(g)
      BY <1>b, <2>1
    <2> QED
      BY <2>1, <2>2 DEF GrantsAreKept, Live
  <1>5. CASE Tick
    <2>1. now' = now + 1 /\ lease' = lease /\ grants' = grants
      BY <1>5 DEF Tick
    <2> QED
      BY <1>a, <2>1 DEF GrantsAreKept, Live
  <1>6. CASE Restart
    BY <1>6 DEF Restart, GrantsAreKept
  <1>7. ASSUME NEW t \in Tabs, NEW s \in Sids, Reuse(t, s) \/ Mint(t, s)
        PROVE  UNCHANGED <<lease, grants, now>>
    BY <1>7 DEF Reuse, Mint
  <1>8. ASSUME NEW s \in Sids, LogLogin(s)
        PROVE  UNCHANGED <<lease, grants, now>>
    BY <1>8 DEF LogLogin
  <1> QED
    BY <1>1, <1>2, <1>3, <1>4, <1>5, <1>6, <1>7, <1>8 DEF Next, vars

\* No two sessions ever hold live promises of the run lease, for any number of
\* judges and tabs (judge main.py acquire, release, _expire_locked).
THEOREM OneRun == Spec => []OneRunAtATime
  <1>1. Init => GrantsAreKept
    BY DEF Init, GrantsAreKept
  <1>2. GrantsAreKept => OneRunAtATime
    BY DEF GrantsAreKept, OneRunAtATime, Live
  <1> QED
    BY <1>1, <1>2, GrantsStep, GatewayTyped, PTL DEF Spec

-----------------------------------------------------------------------------
(* One session and one login event for each judge *)

\* An id is used once; its event is due until it is logged, and then never again.
LoginOnce ==
    \A s \in Sids :
        /\ \A u \in Sids : sessions[s] = sessions[u] /\ sessions[s] # None => s = u
        /\ s \notin minted => sessions[s] = None /\ logged[s] = 0 /\ s \notin pending
        /\ s \in pending => sessions[s] # None /\ logged[s] = 0
        /\ sessions[s] # None /\ s \notin pending => logged[s] = 1
        /\ logged[s] \in {0, 1}

LEMMA LoginStep ==
    ASSUME GatewayTypeOK, LoginOnce, [Next]_vars
    PROVE  LoginOnce'
  <1> USE GatewayConstants
  <1>1. ASSUME UNCHANGED <<sessions, minted, logged, pending>>
        PROVE  LoginOnce'
    BY <1>1 DEF LoginOnce
  <1>2. ASSUME NEW t \in Tabs, NEW s \in Sids, Mint(t, s)
        PROVE  LoginOnce'
    <2>1. /\ sessions' = [sessions EXCEPT ![s] = JudgeOf[t]]
          /\ sessions \in [Sids -> Judges \cup {None}]
          /\ minted' = minted \cup {s} /\ pending' = pending \cup {s}
          /\ logged' = logged /\ s \notin minted
          /\ \A u \in Sids : sessions[u] # JudgeOf[t]
          /\ JudgeOf[t] # None
      BY <1>2 DEF Mint, SessionsOf, GatewayTypeOK
    <2> QED
      BY <2>1 DEF LoginOnce
  <1>3. ASSUME NEW s \in Sids, LogLogin(s)
        PROVE  LoginOnce'
    <2>1. /\ s \in pending /\ pending' = pending \ {s}
          /\ logged' = [logged EXCEPT ![s] = logged[s] + 1]
          /\ UNCHANGED <<sessions, minted>>
          /\ logged \in [Sids -> Nat]
      BY <1>3 DEF LogLogin, GatewayTypeOK
    <2>2. logged[s] = 0
      BY <2>1 DEF LoginOnce
    <2>3. \A u \in Sids : logged'[u] = IF u = s THEN 1 ELSE logged[u]
      BY <2>1, <2>2
    <2> QED
      BY <2>1, <2>3 DEF LoginOnce
  <1>4. CASE Restart
    BY <1>4 DEF Restart, LoginOnce
  <1>5. ASSUME NEW t \in Tabs, NEW s \in Sids, Reuse(t, s)
        PROVE  UNCHANGED <<sessions, minted, logged, pending>>
    BY <1>5 DEF Reuse
  <1>6. ASSUME NEW t \in Tabs, Acquire(t) \/ Ask(t) \/ Release(t)
        PROVE  UNCHANGED <<sessions, minted, logged, pending>>
    BY <1>6 DEF Acquire, Ask, Release
  <1>7. CASE Tick
    BY <1>7, <1>1 DEF Tick
  <1> QED
    BY <1>1, <1>2, <1>3, <1>4, <1>5, <1>6, <1>7 DEF Next, vars

LEMMA LoginCounted == GatewayTypeOK /\ LoginOnce => OneLoginPerJudge
  <1> SUFFICES ASSUME GatewayTypeOK, LoginOnce, NEW s \in Sids
               PROVE  /\ sessions[s] # None =>
                            logged[s] + Cardinality(pending \cap {s}) = 1
                      /\ logged[s] <= 1
    BY DEF LoginOnce, OneLoginPerJudge
  <1>1. CASE s \in pending
    <2>1. pending \cap {s} = {s}
      BY <1>1
    <2>2. Cardinality(pending \cap {s}) = 1
      BY <2>1, FS_Singleton
    <2> QED
      BY <1>1, <2>2 DEF LoginOnce
  <1>2. CASE s \notin pending
    <2>1. pending \cap {s} = {}
      BY <1>2
    <2>2. Cardinality(pending \cap {s}) = 0
      BY <2>1, FS_EmptySet
    <2> QED
      BY <1>2, <2>2 DEF LoginOnce
  <1> QED
    BY <1>1, <1>2

\* A judge has one session and one login event, for any number of tabs, refreshes
\* and restarts (judge main.py open, _open_session).
THEOREM OneLogin == Spec => []OneLoginPerJudge
  <1>1. Init => LoginOnce
    BY DEF Init, LoginOnce
  <1> QED
    BY <1>1, LoginStep, LoginCounted, GatewayTyped, PTL DEF Spec
=============================================================================
