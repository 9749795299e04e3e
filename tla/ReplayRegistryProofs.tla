------------------------ MODULE ReplayRegistryProofs ------------------------
(***************************************************************************)
(* The registry of replay sessions for any number of requests, stray ids   *)
(* and any cap: no session escapes retirement, and none stays registered   *)
(* after it was closed.                                                    *)
(***************************************************************************)
EXTENDS ReplayRegistry, SequenceTheorems, TLAPS

ReqRow == [step : Steps, id : Ids \cup {None}, held : Objects \cup {None},
           victims : Seq(Ids), then : {"done", "reset"}]

-----------------------------------------------------------------------------
(* The inductive invariant *)

Retiring == {"retire", "retire_close", "retire_pop"}
Resetting == {"reset", "reset_close", "reset_pop", "reset_create"}

\* What a request has in hand at each of its steps.
RowOK(r) ==
    /\ r.step # "idle" => r.id \in Ids
    /\ r.step \notin Retiring => r.victims = <<>>
    /\ r.step \in {"retire_close", "retire_pop"} => r.victims # <<>>
    /\ r.step \in Resetting => r.then = "reset"
    /\ r.step = "reset_close" => r.held \in Objects
StepsInv == \A h \in Requests : RowOK(req[h])

Shape == RegistryTypeOK /\ StepsInv

\* A session object that is yet to be made is nowhere.
Unused(o) ==
    /\ o \notin closed
    /\ \A id \in Ids : store[id] # o
    /\ \A g \in Requests : req[g].held # o
MayMint(h) == req[h].step = "idle" \/ req[h].then = "reset"
MayAdopt(h) == req[h].step \in {"idle", "adopt"}
FreshInv ==
    \A h \in Requests :
        /\ MayMint(h) => Unused(<<h, "created">>)
        /\ MayAdopt(h) => Unused(<<h, "adopted">>)

\* A session is stored under one id, the one its closer is about to pop.
HomeInv ==
    /\ \A i, k \in Ids : store[i] = store[k] /\ store[i] # None => i = k
    /\ \A h \in Requests, i \in Ids :
          store[i] # None /\ store[i] = req[h].held =>
              /\ req[h].step = "retire_close" => i = Victim(h)
              /\ req[h].step = "reset_close" => i = req[h].id

Inv == Shape /\ FreshInv /\ HomeInv /\ EverySessionIsRemembered /\ ClosedSessionsLeave

-----------------------------------------------------------------------------
(* One request moves, the others stay *)

LEMMA NoneIsNoObject == None \notin Objects
  BY RegistryConstants DEF Objects

LEMMA RowsMade ==
    /\ Idle \in ReqRow
    /\ \A i \in Ids : [Idle EXCEPT !.step = "done", !.id = i] \in ReqRow
  BY EmptySeq DEF Idle, ReqRow, Steps

LEMMA RowExcept ==
    ASSUME NEW r \in ReqRow, NEW o \in Objects \cup {None}, NEW s \in Steps, r.id \in Ids
    PROVE  /\ [r EXCEPT !.step = s, !.held = o] \in ReqRow
           /\ [r EXCEPT !.step = s, !.held = o].id \in Ids
           /\ [r EXCEPT !.held = o, !.step = s] \in ReqRow
           /\ [r EXCEPT !.held = o, !.step = s].id \in Ids
  <1>1. /\ [r EXCEPT !.step = s, !.held = o] \in ReqRow
        /\ [r EXCEPT !.step = s, !.held = o].id \in Ids
    BY DEF ReqRow
  <1>2. /\ [r EXCEPT !.held = o, !.step = s] \in ReqRow
        /\ [r EXCEPT !.held = o, !.step = s].id \in Ids
    BY DEF ReqRow
  <1> QED
    BY <1>1, <1>2

LEMMA GoesTo ==
    ASSUME RegistryTypeOK, NEW h \in Requests, NEW r \in ReqRow, r.id \in Ids, Goes(h, r)
    PROVE  /\ req' \in [Requests -> ReqRow]
           /\ \A g \in Requests \ {h} : req'[g] = req[g]
           /\ r.step # "done" => req'[h] = r
           /\ r.step = "done" => req'[h] = [Idle EXCEPT !.step = "done", !.id = r.id]
  <1>1. req \in [Requests -> ReqRow]
    BY DEF RegistryTypeOK, ReqRow
  <1> DEFINE s == IF r.step = "done" THEN [Idle EXCEPT !.step = "done", !.id = r.id] ELSE r
  <1>2. s \in ReqRow
    BY RowsMade
  <1>3. req' = [req EXCEPT ![h] = s]
    BY DEF Goes
  <1> QED
    BY <1>1, <1>2, <1>3

\* The row a request has after a step that goes to r.
Landed(h, r) ==
    /\ req' \in [Requests -> ReqRow]
    /\ \A g \in Requests \ {h} : req'[g] = req[g]
    /\ r \in ReqRow /\ r.id \in Ids
    /\ r.step # "done" => req'[h] = r
    /\ r.step = "done" => req'[h] = [Idle EXCEPT !.step = "done", !.id = r.id]

-----------------------------------------------------------------------------
(* Where each step leads *)

LEMMA RowTyped ==
    ASSUME Shape, NEW h \in Requests
    PROVE  /\ req \in [Requests -> ReqRow] /\ req[h] \in ReqRow
           /\ store \in [Ids -> Objects \cup {None}] /\ closed \subseteq Objects
           /\ order \in Seq(Ids)
           /\ req[h].step # "idle" => req[h].id \in Ids
           /\ Requests \subseteq Ids
           /\ <<h, "created">> \in Objects /\ <<h, "adopted">> \in Objects
  BY DEF Shape, RegistryTypeOK, StepsInv, RowOK, ReqRow, Ids, Objects

LEMMA MintLands ==
    ASSUME Shape, NEW h \in Requests, Mint(h)
    PROVE  Landed(h, [req[h] EXCEPT !.step = "remember", !.id = h, !.then = "done"])
  <1>1. [req[h] EXCEPT !.step = "remember", !.id = h, !.then = "done"] \in ReqRow
    BY RowTyped DEF ReqRow, Steps
  <1>2. [req[h] EXCEPT !.step = "remember", !.id = h, !.then = "done"].id \in Ids
    BY RowTyped DEF ReqRow
  <1> QED
    BY <1>1, <1>2, GoesTo DEF Mint, Landed, Shape

LEMMA LookupLands ==
    ASSUME Shape, NEW h \in Requests, NEW id \in Ids, NEW then \in {"done", "reset"},
           Lookup(h, id, then)
    PROVE  Landed(h, [Idle EXCEPT
               !.id = id, !.held = store[id], !.then = then,
               !.step = IF store[id] = None THEN "adopt" ELSE then])
  <1> DEFINE r == [Idle EXCEPT
               !.id = id, !.held = store[id], !.then = then,
               !.step = IF store[id] = None THEN "adopt" ELSE then]
  <1>1. r \in ReqRow /\ r.id \in Ids
    BY RowTyped, RowsMade DEF Idle, ReqRow, Steps
  <1> QED
    BY <1>1, GoesTo DEF Lookup, Landed, Shape

LEMMA AdoptNewLands ==
    ASSUME Shape, NEW h \in Requests, AdoptNew(h)
    PROVE  Landed(h, [req[h] EXCEPT !.step = "remember", !.held = <<h, "adopted">>])
  <1> DEFINE r == [req[h] EXCEPT !.step = "remember", !.held = <<h, "adopted">>]
  <1>0. req[h] \in ReqRow /\ req[h].id \in Ids /\ <<h, "adopted">> \in Objects \cup {None}
        /\ "remember" \in Steps
    BY RowTyped DEF AdoptNew, Steps
  <1>1. r \in ReqRow /\ r.id \in Ids
    BY <1>0, RowExcept
  <1> QED
    BY <1>1, GoesTo DEF AdoptNew, Landed, Shape

LEMMA AdoptTheirsLands ==
    ASSUME Shape, NEW h \in Requests, AdoptTheirs(h)
    PROVE  Landed(h, [req[h] EXCEPT !.step = req[h].then, !.held = store[req[h].id]])
  <1> DEFINE r == [req[h] EXCEPT !.step = req[h].then, !.held = store[req[h].id]]
  <1>0. /\ req[h] \in ReqRow /\ req[h].id \in Ids
        /\ store[req[h].id] \in Objects \cup {None} /\ req[h].then \in Steps
    BY RowTyped DEF AdoptTheirs, ReqRow, Steps
  <1>1. r \in ReqRow /\ r.id \in Ids
    BY <1>0, RowExcept
  <1>2. Goes(h, r) /\ RegistryTypeOK
    BY DEF AdoptTheirs, Shape
  <1> HIDE DEF r
  <1>3. Landed(h, r)
    BY <1>1, <1>2, GoesTo DEF Landed
  <1> QED
    BY <1>3 DEF r

LEMMA RetireGetLands ==
    ASSUME Shape, NEW h \in Requests, RetireGet(h)
    PROVE  /\ Victim(h) \in Ids
           /\ Landed(h, [req[h] EXCEPT !.step = "retire_close", !.held = store[Victim(h)]])
  <1> DEFINE r == [req[h] EXCEPT !.step = "retire_close", !.held = store[Victim(h)]]
  <1>1. Victim(h) \in Ids
    BY RowTyped, HeadTailProperties DEF ReqRow, RetireGet, Victim
  <1>2. r \in ReqRow /\ r.id \in Ids
    BY <1>1, RowTyped DEF ReqRow, Steps, RetireGet
  <1> QED
    BY <1>1, <1>2, GoesTo DEF RetireGet, Landed, Shape

LEMMA RetireCloseLands ==
    ASSUME Shape, NEW h \in Requests, RetireClose(h)
    PROVE  Landed(h, [req[h] EXCEPT !.step = "retire_pop"])
  <1> DEFINE r == [req[h] EXCEPT !.step = "retire_pop"]
  <1>1. r \in ReqRow /\ r.id \in Ids
    BY RowTyped DEF ReqRow, Steps, RetireClose
  <1> QED
    BY <1>1, GoesTo DEF RetireClose, Landed, Shape

LEMMA RetirePopLands ==
    ASSUME Shape, NEW h \in Requests, RetirePop(h)
    PROVE  /\ req[h].victims # <<>> /\ Victim(h) \in Ids
           /\ Landed(h, [req[h] EXCEPT !.step = "retire", !.victims = Tail(@)])
  <1> DEFINE r == [req[h] EXCEPT !.step = "retire", !.victims = Tail(@)]
  <1>1. req[h].victims # <<>> /\ req[h].victims \in Seq(Ids)
    BY RowTyped DEF ReqRow, RetirePop, Shape, StepsInv, RowOK
  <1>2. Victim(h) \in Ids /\ Tail(req[h].victims) \in Seq(Ids)
    BY <1>1, HeadTailProperties DEF Victim
  <1>3. r \in ReqRow /\ r.id \in Ids
    BY <1>2, RowTyped DEF ReqRow, Steps, RetirePop
  <1> QED
    BY <1>1, <1>2, <1>3, GoesTo DEF RetirePop, Landed, Shape

LEMMA RetiredLands ==
    ASSUME Shape, NEW h \in Requests, Retired(h)
    PROVE  Landed(h, [req[h] EXCEPT !.step = req[h].then])
  <1> DEFINE r == [req[h] EXCEPT !.step = req[h].then]
  <1>1. r \in ReqRow /\ r.id \in Ids
    BY RowTyped DEF ReqRow, Steps, Retired
  <1> QED
    BY <1>1, GoesTo DEF Retired, Landed, Shape

LEMMA ResetGetLands ==
    ASSUME Shape, NEW h \in Requests, ResetGet(h)
    PROVE  Landed(h, [req[h] EXCEPT
               !.held = store[req[h].id],
               !.step = IF store[req[h].id] = None THEN "done" ELSE "reset_close"])
  <1> DEFINE r == [req[h] EXCEPT
               !.held = store[req[h].id],
               !.step = IF store[req[h].id] = None THEN "done" ELSE "reset_close"]
  <1>0. /\ req[h] \in ReqRow /\ req[h].id \in Ids
        /\ store[req[h].id] \in Objects \cup {None}
    BY RowTyped DEF ResetGet
  <1> DEFINE s == IF store[req[h].id] = None THEN "done" ELSE "reset_close"
  <1>2. s \in Steps
    BY DEF Steps
  <1>1. r \in ReqRow /\ r.id \in Ids
    BY <1>0, <1>2, RowExcept
  <1>3. Goes(h, r) /\ RegistryTypeOK
    BY DEF ResetGet, Shape
  <1> HIDE DEF r
  <1>4. Landed(h, r)
    BY <1>1, <1>3, GoesTo DEF Landed
  <1> QED
    BY <1>4 DEF r

LEMMA ResetCloseLands ==
    ASSUME Shape, NEW h \in Requests, ResetClose(h)
    PROVE  Landed(h, [req[h] EXCEPT !.step = "reset_pop"])
  <1> DEFINE r == [req[h] EXCEPT !.step = "reset_pop"]
  <1>1. r \in ReqRow /\ r.id \in Ids
    BY RowTyped DEF ReqRow, Steps, ResetClose
  <1> QED
    BY <1>1, GoesTo DEF ResetClose, Landed, Shape

LEMMA ResetPopLands ==
    ASSUME Shape, NEW h \in Requests, ResetPop(h)
    PROVE  Landed(h, [req[h] EXCEPT !.step = "reset_create"])
  <1> DEFINE r == [req[h] EXCEPT !.step = "reset_create"]
  <1>1. r \in ReqRow /\ r.id \in Ids
    BY RowTyped DEF ReqRow, Steps, ResetPop
  <1> QED
    BY <1>1, GoesTo DEF ResetPop, Landed, Shape

LEMMA SplitProperties ==
    ASSUME NEW ids \in Seq(Ids), NEW n \in 0..Len(ids)
    PROVE  /\ SubSeq(ids, 1, n) \in Seq(Ids)
           /\ SubSeq(ids, n + 1, Len(ids)) \in Seq(Ids)
           /\ \A i \in DOMAIN ids :
                 \/ \E k \in DOMAIN SubSeq(ids, 1, n) : SubSeq(ids, 1, n)[k] = ids[i]
                 \/ \E k \in DOMAIN SubSeq(ids, n + 1, Len(ids)) :
                        SubSeq(ids, n + 1, Len(ids))[k] = ids[i]
  <1>1. Len(ids) \in Nat /\ DOMAIN ids = 1..Len(ids) /\ \A i \in 1..Len(ids) : ids[i] \in Ids
    BY LenProperties
  <1> DEFINE old == SubSeq(ids, 1, n)
             new == SubSeq(ids, n + 1, Len(ids))
  <1>2. /\ old \in Seq(Ids) /\ Len(old) = n
        /\ \A i \in 1..n : old[i] = ids[i]
    <2>1. 1 \in Int /\ n \in Int /\ \A i \in 1..n : ids[i] \in Ids
      BY <1>1
    <2>2. /\ old \in Seq(Ids) /\ Len(old) = IF 1 <= n THEN n - 1 + 1 ELSE 0
          /\ \A i \in 1..(n - 1 + 1) : old[i] = ids[1 + i - 1]
      BY <2>1, SubSeqProperties
    <2> HIDE DEF old
    <2>3. n - 1 + 1 = n /\ \A i \in 1..n : 1 + i - 1 = i
      BY <1>1
    <2> QED
      BY <2>2, <2>3, <1>1
  <1>3. /\ new \in Seq(Ids) /\ Len(new) = Len(ids) - n
        /\ \A i \in 1..(Len(ids) - n) : new[i] = ids[n + i]
    <2>1. n + 1 \in Int /\ Len(ids) \in Int /\ \A i \in (n + 1)..Len(ids) : ids[i] \in Ids
      BY <1>1
    <2>2. /\ new \in Seq(Ids)
          /\ Len(new) = IF n + 1 <= Len(ids) THEN Len(ids) - (n + 1) + 1 ELSE 0
          /\ \A i \in 1..(Len(ids) - (n + 1) + 1) : new[i] = ids[(n + 1) + i - 1]
      BY <2>1, SubSeqProperties
    <2> HIDE DEF new
    <2>3. /\ Len(ids) - (n + 1) + 1 = Len(ids) - n
          /\ \A i \in 1..(Len(ids) - n) : (n + 1) + i - 1 = n + i
      BY <1>1
    <2>4. Len(new) = Len(ids) - n
      <3>1. CASE n + 1 <= Len(ids)
        <4>1. Len(new) = Len(ids) - (n + 1) + 1
          BY <2>2, <3>1
        <4> QED
          BY <4>1, <2>3
      <3>2. CASE ~(n + 1 <= Len(ids))
        <4>1. Len(new) = 0
          BY <2>2, <3>2
        <4>2. Len(ids) - n = 0
          <5>1. n \in Nat /\ n <= Len(ids) /\ Len(ids) \in Nat
            BY <1>1
          <5> QED
            BY <5>1, <3>2
        <4> QED
          BY <4>1, <4>2
      <3> QED
        BY <3>1, <3>2
    <2>5. \A i \in 1..(Len(ids) - n) : new[i] = ids[n + i]
      <3>1. \A i \in 1..(Len(ids) - n) : new[i] = ids[(n + 1) + i - 1]
        BY <2>2, <2>3
      <3> QED
        BY <3>1, <2>3
    <2> QED
      BY <2>2, <2>4, <2>5
  <1>4. DOMAIN old = 1..n /\ DOMAIN new = 1..(Len(ids) - n)
    BY <1>2, <1>3, LenProperties
  <1> HIDE DEF old, new
  <1>5. ASSUME NEW i \in DOMAIN ids
        PROVE  (\E k \in DOMAIN old : old[k] = ids[i]) \/ (\E k \in DOMAIN new : new[k] = ids[i])
    <2>1. CASE i <= n
      BY <2>1, <1>1, <1>2, <1>4
    <2>2. CASE i > n
      <3>1. i - n \in 1..(Len(ids) - n) /\ n + (i - n) = i
        BY <2>2, <1>1
      <3> QED
        BY <3>1, <1>3, <1>4
    <2> QED
      BY <2>1, <2>2, <1>1
  <1> QED
    BY <1>2, <1>3, <1>5 DEF old, new

\* Everything that was in the list, and the new id, is in it or to be retired.
LEMMA RememberLands ==
    ASSUME Shape, NEW h \in Requests, Remember(h)
    PROVE  \E victims \in Seq(Ids) :
              /\ Landed(h, [req[h] EXCEPT !.step = "retire", !.victims = victims])
              /\ order' \in Seq(Ids)
              /\ \A x \in Ids :
                    x = req[h].id \/ (\E i \in DOMAIN order : order[i] = x)
                    => \/ \E k \in DOMAIN victims : victims[k] = x
                       \/ \E k \in DOMAIN order' : order'[k] = x
  <1> DEFINE ids == Append(order, req[h].id)
             n == BeyondCap(ids)
             old == SubSeq(ids, 1, n)
  <1>1. req[h] \in ReqRow /\ req[h].id \in Ids /\ order \in Seq(Ids)
    BY RowTyped DEF Remember
  <1>2. /\ ids \in Seq(Ids) /\ Len(ids) = Len(order) + 1 /\ Len(order) \in Nat
        /\ DOMAIN order = 1..Len(order) /\ DOMAIN ids = 1..Len(ids)
        /\ \A i \in 1..Len(order) : ids[i] = order[i]
        /\ ids[Len(order) + 1] = req[h].id
    BY <1>1, AppendProperties, LenProperties
  <1>3. /\ order' = SubSeq(ids, n + 1, Len(ids))
        /\ Goes(h, [req[h] EXCEPT !.step = "retire", !.victims = old])
    BY DEF Remember
  <1> HIDE DEF ids
  <1>4. n \in 0..Len(ids)
    BY <1>2, RegistryConstants DEF BeyondCap
  <1> HIDE DEF n
  <1>5. /\ old \in Seq(Ids) /\ order' \in Seq(Ids)
        /\ \A i \in DOMAIN ids : \/ \E k \in DOMAIN old : old[k] = ids[i]
                                 \/ \E k \in DOMAIN order' : order'[k] = ids[i]
    BY <1>2, <1>3, <1>4, SplitProperties
  <1> HIDE DEF old
  <1> DEFINE r == [req[h] EXCEPT !.step = "retire", !.victims = old]
  <1>6. r \in ReqRow /\ r.id \in Ids
    BY <1>1, <1>5 DEF ReqRow, Steps
  <1>7. Goes(h, r) /\ RegistryTypeOK
    BY <1>3 DEF Shape
  <1>8. Landed(h, r)
    <2> HIDE DEF r
    <2> QED
      BY <1>6, <1>7, GoesTo DEF Landed
  <1>9. ASSUME NEW x \in Ids, x = req[h].id \/ (\E i \in DOMAIN order : order[i] = x)
        PROVE  \/ \E k \in DOMAIN old : old[k] = x
               \/ \E k \in DOMAIN order' : order'[k] = x
    <2>1. \E i \in DOMAIN ids : ids[i] = x
      BY <1>2, <1>9
    <2> QED
      BY <2>1, <1>5
  <1> QED
    BY <1>5, <1>8, <1>9

-----------------------------------------------------------------------------
(* The shape of a state *)

LEMMA ShapeMove ==
    ASSUME Shape, NEW h \in Requests, NEW r, Landed(h, r), RowOK(r),
           store' \in [Ids -> Objects \cup {None}],
           closed' \subseteq Objects, order' \in Seq(Ids)
    PROVE  Shape'
  <1>1. RegistryTypeOK'
    BY DEF Landed, RegistryTypeOK, ReqRow
  <1>2. RowOK([Idle EXCEPT !.step = "done", !.id = r.id])
    BY DEF RowOK, Idle, Landed, Retiring, Resetting
  <1>3. RowOK(req'[h])
    BY <1>2 DEF Landed
  <1>4. \A g \in Requests : RowOK(req'[g])
    BY <1>3 DEF Landed, Shape, StepsInv
  <1> QED
    BY <1>1, <1>4 DEF Shape, StepsInv

LEMMA ShapeStep ==
    ASSUME Shape, NEW h \in Requests, Arrive(h) \/ Proceed(h)
    PROVE  Shape'
  <1>1. /\ req[h] \in ReqRow /\ RowOK(req[h])
        /\ store \in [Ids -> Objects \cup {None}] /\ closed \subseteq Objects
        /\ order \in Seq(Ids) /\ Held \subseteq Ids
    BY RowTyped DEF Shape, StepsInv, Held, Ids
  <1> USE DEF RowOK, ReqRow, Retiring, Resetting
  <1>2. CASE Mint(h) /\ (Create(h) \/ ResetCreate(h))
    <2>1. store' \in [Ids -> Objects \cup {None}]
      BY <1>1, <1>2, RowTyped DEF Mint, Stores
    <2>2. req[h].victims = <<>> /\ h \in Ids
      <3>1. CASE Create(h)
        <4>1. req[h] = Idle /\ Idle.victims = <<>>
          BY <3>1 DEF Create, Idle
        <4> QED
          BY <4>1, RowTyped
      <3>2. CASE ResetCreate(h)
        <4>1. req[h].step = "reset_create"
          BY <3>2 DEF ResetCreate
        <4>2. req[h].victims = <<>>
          BY <4>1, <1>1
        <4> QED
          BY <4>2, RowTyped
      <3> QED
        BY <1>2, <3>1, <3>2
    <2>3. RowOK([req[h] EXCEPT !.step = "remember", !.id = h, !.then = "done"])
      BY <1>1, <2>2
    <2> QED
      BY <1>1, <1>2, <2>1, <2>3, MintLands, ShapeMove DEF Mint
  <1>3. CASE \E id \in Held, then \in {"done", "reset"} : Lookup(h, id, then)
    <2> PICK id \in Held, then \in {"done", "reset"} : Lookup(h, id, then)
      BY <1>3
    <2>1. id \in Ids
      BY <1>1
    <2> DEFINE r == [Idle EXCEPT
               !.id = id, !.held = store[id], !.then = then,
               !.step = IF store[id] = None THEN "adopt" ELSE then]
    <2>2. RowOK(r)
      BY <2>1 DEF Idle
    <2>3. Landed(h, r)
      BY <2>1, LookupLands
    <2> HIDE DEF r
    <2> QED
      BY <1>1, <2>2, <2>3, ShapeMove DEF Lookup
  <1>4. CASE AdoptNew(h)
    <2>1. store' \in [Ids -> Objects \cup {None}]
      BY <1>1, <1>4, RowTyped DEF AdoptNew, Stores
    <2>2. RowOK([req[h] EXCEPT !.step = "remember", !.held = <<h, "adopted">>])
      BY <1>1, <1>4 DEF AdoptNew
    <2> QED
      BY <1>1, <1>4, <2>1, <2>2, AdoptNewLands, ShapeMove DEF AdoptNew
  <1>5. CASE AdoptTheirs(h)
    <2>1. RowOK([req[h] EXCEPT !.step = req[h].then, !.held = store[req[h].id]])
      BY <1>1, <1>5 DEF AdoptTheirs
    <2> QED
      BY <1>1, <1>5, <2>1, AdoptTheirsLands, ShapeMove DEF AdoptTheirs
  <1>6. CASE Remember(h)
    <2> PICK victims \in Seq(Ids) :
               /\ Landed(h, [req[h] EXCEPT !.step = "retire", !.victims = victims])
               /\ order' \in Seq(Ids)
      BY <1>6, RememberLands
    <2>1. RowOK([req[h] EXCEPT !.step = "retire", !.victims = victims])
      BY <1>1, <1>6 DEF Remember
    <2> QED
      BY <1>1, <1>6, <2>1, ShapeMove DEF Remember
  <1>7. CASE RetireGet(h)
    <2>1. RowOK([req[h] EXCEPT !.step = "retire_close", !.held = store[Victim(h)]])
      BY <1>1, <1>7 DEF RetireGet
    <2> QED
      BY <1>1, <1>7, <2>1, RetireGetLands, ShapeMove DEF RetireGet
  <1>8. CASE RetireClose(h)
    <2>1. RowOK([req[h] EXCEPT !.step = "retire_pop"])
      BY <1>1, <1>8 DEF RetireClose
    <2>2. closed' \subseteq Objects
      BY <1>1, <1>8 DEF RetireClose
    <2> QED
      BY <1>1, <1>8, <2>1, <2>2, RetireCloseLands, ShapeMove DEF RetireClose
  <1>9. CASE RetirePop(h)
    <2>1. RowOK([req[h] EXCEPT !.step = "retire", !.victims = Tail(@)])
      BY <1>1, <1>9 DEF RetirePop
    <2>2. store' \in [Ids -> Objects \cup {None}]
      BY <1>1, <1>9 DEF RetirePop, Stores
    <2> QED
      BY <1>1, <1>9, <2>1, <2>2, RetirePopLands, ShapeMove DEF RetirePop
  <1>10. CASE Retired(h)
    <2>1. RowOK([req[h] EXCEPT !.step = req[h].then])
      BY <1>1, <1>10 DEF Retired
    <2> QED
      BY <1>1, <1>10, <2>1, RetiredLands, ShapeMove DEF Retired
  <1>11. CASE ResetGet(h)
    <2> DEFINE r == [req[h] EXCEPT
               !.held = store[req[h].id],
               !.step = IF store[req[h].id] = None THEN "done" ELSE "reset_close"]
    <2>1. RowOK(r)
      BY <1>1, <1>11 DEF ResetGet
    <2>2. Landed(h, r)
      BY <1>11, ResetGetLands
    <2> HIDE DEF r
    <2> QED
      BY <1>1, <1>11, <2>1, <2>2, ShapeMove DEF ResetGet
  <1>12. CASE ResetClose(h)
    <2>1. RowOK([req[h] EXCEPT !.step = "reset_pop"])
      BY <1>1, <1>12 DEF ResetClose
    <2>2. closed' \subseteq Objects
      BY <1>1, <1>12 DEF ResetClose
    <2> QED
      BY <1>1, <1>12, <2>1, <2>2, ResetCloseLands, ShapeMove DEF ResetClose
  <1>13. CASE ResetPop(h)
    <2>1. RowOK([req[h] EXCEPT !.step = "reset_create"])
      BY <1>1, <1>13 DEF ResetPop
    <2>2. store' \in [Ids -> Objects \cup {None}]
      BY <1>1, <1>13 DEF ResetPop, Stores
    <2> QED
      BY <1>1, <1>13, <2>1, <2>2, ResetPopLands, ShapeMove DEF ResetPop
  <1> QED
    BY <1>2, <1>3, <1>4, <1>5, <1>6, <1>7, <1>8, <1>9, <1>10, <1>11, <1>12, <1>13
       DEF Arrive, Proceed, Create, ResetCreate

-----------------------------------------------------------------------------
(* What a step of a request does, field by field *)

Others(h) == \A g \in Requests \ {h} : req'[g] = req[g]
From(h, step) == req[h].step = step
To(h, step) == req'[h].step = step
Same(h) ==
    /\ req'[h].id = req[h].id /\ req'[h].held = req[h].held
    /\ req'[h].victims = req[h].victims /\ req'[h].then = req[h].then

Minted(h) ==
    /\ MayMint(h) /\ req[h].step \in {"idle", "reset_create"} /\ req[h].victims = <<>>
    /\ store' = [store EXCEPT ![h] = <<h, "created">>]
    /\ To(h, "remember") /\ req'[h].id = h /\ req'[h].then = "done"
    /\ req'[h].held = req[h].held
    /\ UNCHANGED <<order, closed>>
Adopted(h) ==
    /\ From(h, "adopt") /\ To(h, "remember") /\ req[h].victims = <<>>
    /\ store' = [store EXCEPT ![req[h].id] = <<h, "adopted">>]
    /\ req'[h].id = req[h].id /\ req'[h].then = req[h].then
    /\ req'[h].held = <<h, "adopted">>
    /\ UNCHANGED <<order, closed>>
Listed(h) ==
    /\ From(h, "remember") /\ To(h, "retire") /\ req[h].victims = <<>>
    /\ req'[h].then = req[h].then /\ req'[h].held = req[h].held
    /\ \A x \in Ids :
          x = req[h].id \/ (\E i \in DOMAIN order : order[i] = x)
          => \/ \E k \in DOMAIN req'[h].victims : req'[h].victims[k] = x
             \/ \E k \in DOMAIN order' : order'[k] = x
    /\ UNCHANGED <<store, closed>>
VictimFound(h) ==
    /\ From(h, "retire") /\ To(h, "retire_close") /\ Victim(h) \in Ids
    /\ req'[h].held = store[Victim(h)]
    /\ req'[h].victims = req[h].victims /\ req'[h].then = req[h].then
    /\ UNCHANGED <<store, order, closed>>
VictimClosed(h) ==
    /\ From(h, "retire_close") /\ To(h, "retire_pop") /\ Same(h)
    /\ closed' = closed \cup ({req[h].held} \ {None})
    /\ UNCHANGED <<store, order>>
VictimPopped(h) ==
    /\ From(h, "retire_pop") /\ To(h, "retire")
    /\ req[h].victims \in Seq(Ids) /\ req[h].victims # <<>>
    /\ store' = [store EXCEPT ![Victim(h)] = None]
    /\ req'[h].victims = Tail(req[h].victims)
    /\ req'[h].held = req[h].held /\ req'[h].then = req[h].then
    /\ UNCHANGED <<order, closed>>
Found(h) ==
    /\ From(h, "reset") /\ To(h, "reset_close")
    /\ req'[h].id = req[h].id /\ req'[h].held = store[req[h].id]
    /\ req'[h].victims = req[h].victims /\ req'[h].then = req[h].then
    /\ UNCHANGED <<store, order, closed>>
ClosedIt(h) ==
    /\ From(h, "reset_close") /\ To(h, "reset_pop") /\ Same(h)
    /\ closed' = closed \cup {req[h].held}
    /\ UNCHANGED <<store, order>>
Popped(h) ==
    /\ From(h, "reset_pop") /\ To(h, "reset_create") /\ Same(h)
    /\ store' = [store EXCEPT ![req[h].id] = None]
    /\ UNCHANGED <<order, closed>>
\* A lookup, a session somebody else adopted, the end of a retirement or of a
\* reset that finds nothing.
Quiet(h) ==
    /\ req[h].step \in {"idle", "adopt", "retire", "reset"}
    /\ req'[h].step \in {"adopt", "done", "reset"}
    /\ To(h, "adopt") => From(h, "idle")
    /\ req[h].victims = <<>>
    /\ MayMint(h)' => MayMint(h)
    /\ req'[h].held \in {None, req[h].held} \cup {store[i] : i \in Ids}
    /\ UNCHANGED <<store, order, closed>>

Effect(h) ==
    \/ Minted(h) \/ Adopted(h) \/ Listed(h)
    \/ VictimFound(h) \/ VictimClosed(h) \/ VictimPopped(h)
    \/ Found(h) \/ ClosedIt(h) \/ Popped(h) \/ Quiet(h)

LEMMA StepHasEffect ==
    ASSUME Shape, NEW h \in Requests, Arrive(h) \/ Proceed(h)
    PROVE  Others(h) /\ Effect(h)
  <1>1. /\ req[h] \in ReqRow /\ RowOK(req[h]) /\ Held \subseteq Ids
        /\ store \in [Ids -> Objects \cup {None}]
    BY RowTyped DEF Shape, StepsInv, Held, Ids
  <1> USE DEF Others, From, To, Same
  <1>2. CASE Mint(h) /\ (Create(h) \/ ResetCreate(h))
    <2>1. /\ MayMint(h) /\ req[h].step \in {"idle", "reset_create"}
          /\ req[h].victims = <<>>
      <3>1. CASE Create(h)
        <4>1. req[h] = Idle /\ Idle.victims = <<>> /\ Idle.step = "idle"
          BY <3>1 DEF Create, Idle
        <4> QED
          BY <4>1 DEF MayMint
      <3>2. CASE ResetCreate(h)
        BY <3>2, <1>1 DEF ResetCreate, MayMint, RowOK, Resetting, Retiring
      <3> QED
        BY <1>2, <3>1, <3>2
    <2> DEFINE r == [req[h] EXCEPT !.step = "remember", !.id = h, !.then = "done"]
    <2>2. Landed(h, r)
      BY <1>2, MintLands
    <2>a. /\ store' = [store EXCEPT ![h] = <<h, "created">>]
          /\ UNCHANGED <<order, closed>>
      BY <1>2 DEF Mint, Stores
    <2>b. /\ r.step = "remember" /\ r.id = h /\ r.then = "done"
          /\ r.held = req[h].held
      BY <1>1 DEF ReqRow
    <2> HIDE DEF r
    <2>c. req'[h] = r /\ Others(h)
      BY <2>2, <2>b DEF Landed
    <2> QED
      BY <2>1, <2>a, <2>b, <2>c DEF Minted, Effect
  <1>3. CASE \E id \in Held, then \in {"done", "reset"} : Lookup(h, id, then)
    <2> PICK id \in Held, then \in {"done", "reset"} : Lookup(h, id, then)
      BY <1>3
    <2>1. id \in Ids /\ req[h].step = "idle" /\ req[h].victims = <<>>
      BY <1>1 DEF Lookup, Idle
    <2> DEFINE r == [Idle EXCEPT
               !.id = id, !.held = store[id], !.then = then,
               !.step = IF store[id] = None THEN "adopt" ELSE then]
    <2>2. Landed(h, r)
      BY <2>1, LookupLands
    <2>3. r.step \in {"adopt", "done", "reset"} /\ r.held = store[id]
      BY DEF Idle
    <2> HIDE DEF r
    <2>4. /\ req'[h].step \in {"adopt", "done", "reset"}
          /\ req'[h].held \in {None, store[id]}
      BY <2>2, <2>3 DEF Landed, Idle
    <2>5. Quiet(h)
      BY <2>1, <2>4 DEF Quiet, Lookup, MayMint
    <2> QED
      BY <2>2, <2>5 DEF Effect, Landed
  <1>4. CASE AdoptNew(h)
    <2> DEFINE r == [req[h] EXCEPT !.step = "remember", !.held = <<h, "adopted">>]
    <2>1. Landed(h, r)
      BY <1>4, AdoptNewLands
    <2>a. /\ req[h].step = "adopt" /\ req[h].victims = <<>>
          /\ store' = [store EXCEPT ![req[h].id] = <<h, "adopted">>]
          /\ UNCHANGED <<order, closed>>
      BY <1>1, <1>4 DEF AdoptNew, Stores, RowOK, Retiring
    <2>b. /\ r.step = "remember" /\ r.id = req[h].id /\ r.then = req[h].then
          /\ r.held = <<h, "adopted">>
      BY <1>1 DEF ReqRow
    <2> HIDE DEF r
    <2>c. req'[h] = r /\ Others(h)
      BY <2>1, <2>b DEF Landed
    <2> QED
      BY <2>1, <2>a, <2>b, <2>c DEF Adopted, Effect
  <1>5. CASE AdoptTheirs(h)
    <2> DEFINE r == [req[h] EXCEPT !.step = req[h].then, !.held = store[req[h].id]]
    <2>1. Landed(h, r)
      BY <1>5, AdoptTheirsLands
    <2>2. /\ req[h].step = "adopt" /\ req[h].id \in Ids /\ req[h].victims = <<>>
          /\ UNCHANGED <<store, order, closed>>
      BY <1>1, <1>5 DEF AdoptTheirs, RowOK, Retiring
    <2>3. /\ r.step = req[h].then /\ r.then = req[h].then /\ r.held = store[req[h].id]
          /\ req[h].then \in {"done", "reset"}
      BY <1>1 DEF ReqRow
    <2> HIDE DEF r
    <2>4. CASE req[h].then = "done"
      <3>1. req'[h].step = "done" /\ req'[h].then = "done" /\ req'[h].held = None
        BY <2>1, <2>3, <2>4 DEF Landed, Idle
      <3> QED
        BY <2>1, <2>2, <3>1 DEF Quiet, Effect, Landed, MayMint
    <2>5. CASE req[h].then = "reset"
      <3>1. req'[h] = r
        BY <2>1, <2>3, <2>5 DEF Landed
      <3> QED
        BY <2>1, <2>2, <2>3, <2>5, <3>1 DEF Quiet, Effect, Landed, MayMint
    <2> QED
      BY <2>3, <2>4, <2>5
  <1>6. CASE Remember(h)
    <2> PICK victims \in Seq(Ids) :
               /\ Landed(h, [req[h] EXCEPT !.step = "retire", !.victims = victims])
               /\ \A x \in Ids :
                     x = req[h].id \/ (\E i \in DOMAIN order : order[i] = x)
                     => \/ \E k \in DOMAIN victims : victims[k] = x
                        \/ \E k \in DOMAIN order' : order'[k] = x
      BY <1>6, RememberLands
    <2>1. /\ Others(h) /\ req'[h] = [req[h] EXCEPT !.step = "retire", !.victims = victims]
          /\ req[h].step = "remember" /\ req[h].victims = <<>>
          /\ UNCHANGED <<store, closed>>
      BY <1>1, <1>6 DEF Remember, Landed, ReqRow, RowOK, Retiring
    <2>2. /\ req'[h].step = "retire" /\ req'[h].victims = victims
          /\ req'[h].held = req[h].held /\ req'[h].then = req[h].then
      BY <1>1, <2>1 DEF ReqRow
    <2>3. Listed(h)
      BY <2>1, <2>2 DEF Listed
    <2> QED
      BY <2>1, <2>3 DEF Effect
  <1>7. CASE RetireGet(h)
    <2> DEFINE r == [req[h] EXCEPT !.step = "retire_close", !.held = store[Victim(h)]]
    <2>1. Landed(h, r)
      BY <1>7, RetireGetLands
    <2>a. /\ req[h].step = "retire" /\ Victim(h) \in Ids
          /\ UNCHANGED <<store, order, closed>>
      BY <1>7, RetireGetLands DEF RetireGet
    <2>b. /\ r.step = "retire_close" /\ r.victims = req[h].victims
          /\ r.held = store[Victim(h)] /\ r.then = req[h].then
      BY <1>1 DEF ReqRow
    <2> HIDE DEF r
    <2>c. req'[h] = r /\ Others(h)
      BY <2>1, <2>b DEF Landed
    <2> QED
      BY <2>1, <2>a, <2>b, <2>c DEF VictimFound, Effect
  <1>8. CASE RetireClose(h)
    <2>1. VictimClosed(h) /\ Others(h)
      BY <1>1, <1>8, RetireCloseLands DEF RetireClose, Landed, VictimClosed, ReqRow
    <2> QED
      BY <2>1 DEF Effect
  <1>9. CASE RetirePop(h)
    <2> DEFINE r == [req[h] EXCEPT !.step = "retire", !.victims = Tail(@)]
    <2>1. Landed(h, r)
      BY <1>9, RetirePopLands
    <2>a. /\ req[h].step = "retire_pop" /\ req[h].victims # <<>>
          /\ req[h].victims \in Seq(Ids)
          /\ store' = [store EXCEPT ![Victim(h)] = None]
          /\ UNCHANGED <<order, closed>>
      BY <1>1, <1>9, RetirePopLands DEF RetirePop, Stores, ReqRow
    <2>b. /\ r.step = "retire" /\ r.victims = Tail(req[h].victims)
          /\ r.held = req[h].held /\ r.then = req[h].then
      BY <1>1 DEF ReqRow
    <2> HIDE DEF r
    <2>c. req'[h] = r /\ Others(h)
      BY <2>1, <2>b DEF Landed
    <2> QED
      BY <2>1, <2>a, <2>b, <2>c DEF VictimPopped, Effect
  <1>10. CASE Retired(h)
    <2> DEFINE r == [req[h] EXCEPT !.step = req[h].then]
    <2>1. Landed(h, r)
      BY <1>10, RetiredLands
    <2>2. /\ req[h].step = "retire" /\ req[h].victims = <<>>
          /\ UNCHANGED <<store, order, closed>>
      BY <1>10 DEF Retired
    <2>3. /\ r.step = req[h].then /\ r.then = req[h].then /\ r.held = req[h].held
          /\ req[h].then \in {"done", "reset"}
      BY <1>1 DEF ReqRow
    <2> HIDE DEF r
    <2>4. CASE req[h].then = "done"
      <3>1. req'[h].step = "done" /\ req'[h].then = "done" /\ req'[h].held = None
        BY <2>1, <2>3, <2>4 DEF Landed, Idle
      <3> QED
        BY <2>1, <2>2, <3>1 DEF Quiet, Effect, Landed, MayMint
    <2>5. CASE req[h].then = "reset"
      <3>1. req'[h] = r
        BY <2>1, <2>3, <2>5 DEF Landed
      <3> QED
        BY <2>1, <2>2, <2>3, <2>5, <3>1 DEF Quiet, Effect, Landed, MayMint
    <2> QED
      BY <2>3, <2>4, <2>5
  <1>11. CASE ResetGet(h)
    <2> DEFINE r == [req[h] EXCEPT
               !.held = store[req[h].id],
               !.step = IF store[req[h].id] = None THEN "done" ELSE "reset_close"]
    <2>1. Landed(h, r)
      BY <1>11, ResetGetLands
    <2>2. /\ req[h].step = "reset" /\ req[h].victims = <<>>
          /\ UNCHANGED <<store, order, closed>>
      BY <1>1, <1>11 DEF ResetGet, RowOK, Retiring
    <2>3. /\ r.step = IF store[req[h].id] = None THEN "done" ELSE "reset_close"
          /\ r.then = req[h].then /\ r.held = store[req[h].id] /\ r.id = req[h].id
          /\ r.victims = req[h].victims
      BY <1>1 DEF ReqRow
    <2> HIDE DEF r
    <2>4. CASE store[req[h].id] = None
      <3>1. req'[h].step = "done" /\ req'[h].then = "done" /\ req'[h].held = None
        BY <2>1, <2>3, <2>4 DEF Landed, Idle
      <3> QED
        BY <2>1, <2>2, <3>1 DEF Quiet, Effect, Landed, MayMint
    <2>5. CASE store[req[h].id] # None
      <3>1. req'[h] = r
        BY <2>1, <2>3, <2>5 DEF Landed
      <3> QED
        BY <2>1, <2>2, <2>3, <2>5, <3>1 DEF Found, Effect, Landed
    <2> QED
      BY <2>4, <2>5
  <1>12. CASE ResetClose(h)
    <2>1. ClosedIt(h) /\ Others(h)
      BY <1>1, <1>12, ResetCloseLands DEF ResetClose, Landed, ClosedIt, ReqRow
    <2> QED
      BY <2>1 DEF Effect
  <1>13. CASE ResetPop(h)
    <2> DEFINE r == [req[h] EXCEPT !.step = "reset_create"]
    <2>1. Landed(h, r)
      BY <1>13, ResetPopLands
    <2>a. /\ req[h].step = "reset_pop"
          /\ store' = [store EXCEPT ![req[h].id] = None]
          /\ UNCHANGED <<order, closed>>
      BY <1>13 DEF ResetPop, Stores
    <2>b. /\ r.step = "reset_create" /\ r.id = req[h].id /\ r.victims = req[h].victims
          /\ r.held = req[h].held /\ r.then = req[h].then
      BY <1>1 DEF ReqRow
    <2> HIDE DEF r
    <2>c. req'[h] = r /\ Others(h)
      BY <2>1, <2>b DEF Landed
    <2> QED
      BY <2>1, <2>a, <2>b, <2>c DEF Popped, Effect
  <1> QED
    BY <1>2, <1>3, <1>4, <1>5, <1>6, <1>7, <1>8, <1>9, <1>10, <1>11, <1>12, <1>13
       DEF Arrive, Proceed, Create, ResetCreate

-----------------------------------------------------------------------------
(* The parts of the invariant *)

LEMMA EffectTyped ==
    ASSUME Shape, NEW h \in Requests
    PROVE  /\ store \in [Ids -> Objects \cup {None}] /\ None \notin closed
           /\ None # <<h, "created">> /\ None # <<h, "adopted">>
           /\ <<h, "created">> # <<h, "adopted">>
           /\ <<h, "created">> \in Objects /\ <<h, "adopted">> \in Objects
           /\ h \in Ids
           /\ req[h].step # "idle" => req[h].id \in Ids
  BY RowTyped, NoneIsNoObject

\* Only a session's own request makes it, and a session is in hand or closed only
\* if it was stored.
LEMMA FreshStep ==
    ASSUME Shape, FreshInv, NEW h \in Requests, Others(h), Effect(h)
    PROVE  FreshInv'
  <1> DEFINE Made == IF Minted(h) THEN {<<h, "created">>}
                     ELSE IF Adopted(h) THEN {<<h, "adopted">>} ELSE {}
  <1> USE EffectTyped DEF From, To, Same
  <1>1. closed' \subseteq closed \cup {req[h].held}
    BY DEF Effect, Minted, Adopted, Listed, VictimFound, VictimClosed, VictimPopped,
           Found, ClosedIt, Popped, Quiet
  <1>2. \A i \in Ids : store'[i] \in {store[i], None} \cup Made
    <2>1. CASE Minted(h)
      BY <2>1 DEF Minted
    <2>2. CASE Adopted(h)
      BY <2>2 DEF Adopted, Minted
    <2>3. CASE VictimPopped(h) \/ Popped(h)
      BY <2>3 DEF VictimPopped, Popped
    <2>4. CASE UNCHANGED store
      BY <2>4
    <2> QED
      BY <2>1, <2>2, <2>3, <2>4 DEF Effect, Listed, VictimFound, VictimClosed, Found,
         ClosedIt, Quiet
  <1>3. req'[h].held \in {None, req[h].held} \cup {store[i] : i \in Ids} \cup Made
    <2>1. CASE Adopted(h)
      BY <2>1 DEF Adopted, Minted
    <2>2. CASE VictimFound(h)
      BY <2>2 DEF VictimFound
    <2>3. CASE Found(h)
      BY <2>3 DEF Found
    <2>4. CASE Quiet(h)
      BY <2>4 DEF Quiet
    <2> QED
      BY <2>1, <2>2, <2>3, <2>4 DEF Effect, Minted, Listed, VictimClosed, VictimPopped,
         ClosedIt, Popped
  <1>4. /\ MayMint(h)' => MayMint(h) /\ <<h, "created">> \notin Made
        /\ MayAdopt(h)' => MayAdopt(h) /\ <<h, "adopted">> \notin Made
    <2>1. MayMint(h)' => MayMint(h) /\ ~Minted(h)
      BY DEF Effect, MayMint, Minted, Adopted, Listed, VictimFound, VictimClosed,
         VictimPopped, Found, ClosedIt, Popped, Quiet
    <2>2. MayAdopt(h)' => MayAdopt(h) /\ ~Adopted(h) /\ ~Minted(h)
      BY DEF Effect, MayAdopt, Minted, Adopted, Listed, VictimFound, VictimClosed,
         VictimPopped, Found, ClosedIt, Popped, Quiet
    <2> QED
      BY <2>1, <2>2
  <1>5. ASSUME NEW o, o # None, Unused(o), o \notin Made
        PROVE  Unused(o)'
    <2> HIDE DEF Made
    <2>1. o \notin closed'
      BY <1>1, <1>5 DEF Unused
    <2>2. \A i \in Ids : store'[i] # o
      BY <1>2, <1>5 DEF Unused
    <2>3. \A g \in Requests : req'[g].held # o
      BY <1>3, <1>5 DEF Unused, Others
    <2> QED
      BY <2>1, <2>2, <2>3 DEF Unused
  <1>6. \A g \in Requests \ {h} : <<g, "created">> \notin Made /\ <<g, "adopted">> \notin Made
    OBVIOUS
  <1> HIDE DEF Made
  <1>7. ASSUME NEW g \in Requests
        PROVE  /\ MayMint(g)' => Unused(<<g, "created">>)'
               /\ MayAdopt(g)' => Unused(<<g, "adopted">>)'
    <2>1. CASE g = h
      BY <2>1, <1>4, <1>5 DEF FreshInv
    <2>2. CASE g # h
      <3>1. (MayMint(g)' <=> MayMint(g)) /\ (MayAdopt(g)' <=> MayAdopt(g))
        BY <2>2 DEF Others, MayMint, MayAdopt
      <3> QED
        BY <2>2, <3>1, <1>5, <1>6 DEF FreshInv
    <2> QED
      BY <2>1, <2>2
  <1> QED
    BY <1>7 DEF FreshInv

\* No two ids share a session, and a closer still has the right id.
LEMMA HomeStep ==
    ASSUME Shape, FreshInv, HomeInv, NEW h \in Requests, Others(h), Effect(h)
    PROVE  HomeInv'
  <1> USE EffectTyped DEF From, To, Same
  <1> DEFINE Closers == \A g \in Requests, i \in Ids :
          store'[i] # None /\ store'[i] = req'[g].held =>
              /\ req'[g].step = "retire_close" => i = Head(req'[g].victims)
              /\ req'[g].step = "reset_close" => i = req'[g].id
             Apart == \A i, k \in Ids : store'[i] = store'[k] /\ store'[i] # None => i = k
  <1>1. SUFFICES Apart /\ Closers
    BY DEF HomeInv, Victim
  <1>2. CASE Minted(h) \/ Adopted(h)
    <2>1. PICK x \in Ids, o \in Objects :
               /\ Unused(o) /\ store' = [store EXCEPT ![x] = o]
               /\ req'[h].step = "remember"
      BY <1>2 DEF Minted, Adopted, FreshInv, MayAdopt
    <2>2. Apart
      BY <2>1 DEF HomeInv, Unused
    <2>3. ASSUME NEW g \in Requests, NEW i \in Ids, store'[i] # None,
                 store'[i] = req'[g].held
          PROVE  /\ req'[g].step = "retire_close" => i = Head(req'[g].victims)
                 /\ req'[g].step = "reset_close" => i = req'[g].id
      <3>1. CASE g = h
        BY <2>1, <3>1
      <3>2. CASE g # h
        <4>1. req'[g] = req[g] /\ req[g].held # o
          BY <3>2, <2>1 DEF Others, Unused
        <4>2. store'[i] = store[i]
          BY <4>1, <2>1, <2>3
        <4> QED
          BY <4>1, <4>2, <2>3 DEF HomeInv, Victim
      <3> QED
        BY <3>1, <3>2
    <2> QED
      BY <2>2, <2>3
  <1>3. CASE ~(Minted(h) \/ Adopted(h))
    <2>1. \A i \in Ids : store'[i] \in {store[i], None}
      BY <1>3 DEF Effect, Listed, VictimFound, VictimClosed, VictimPopped, Found, ClosedIt,
         Popped, Quiet
    <2>2. Apart
      BY <2>1 DEF HomeInv
    <2>3. ASSUME NEW i \in Ids, store'[i] # None, store'[i] = req'[h].held
          PROVE  /\ req'[h].step = "retire_close" => i = Head(req'[h].victims)
                 /\ req'[h].step = "reset_close" => i = req'[h].id
      <3>1. CASE VictimFound(h)
        BY <3>1, <2>3 DEF VictimFound, HomeInv, Victim
      <3>2. CASE Found(h)
        BY <3>2, <2>3 DEF Found, HomeInv
      <3>3. CASE ~VictimFound(h) /\ ~Found(h)
        BY <1>3, <3>3 DEF Effect, Listed, VictimClosed, VictimPopped, ClosedIt, Popped, Quiet
      <3> QED
        BY <3>1, <3>2, <3>3
    <2>4. ASSUME NEW g \in Requests \ {h}, NEW i \in Ids, store'[i] # None,
                 store'[i] = req'[g].held
          PROVE  /\ req'[g].step = "retire_close" => i = Head(req'[g].victims)
                 /\ req'[g].step = "reset_close" => i = req'[g].id
      <3>1. req'[g] = req[g] /\ store'[i] = store[i]
        BY <2>1, <2>4 DEF Others
      <3> QED
        BY <3>1, <2>4 DEF HomeInv, Victim
    <2> QED
      BY <2>2, <2>3, <2>4
  <1> QED
    BY <1>2, <1>3

\* A session that is stored and closed has a closer that is about to pop it.
LEMMA ClosedStep ==
    ASSUME Shape, FreshInv, HomeInv, ClosedSessionsLeave,
           NEW h \in Requests, Others(h), Effect(h)
    PROVE  ClosedSessionsLeave'
  <1> USE EffectTyped DEF From, To, Same
  <1> DEFINE Pops(g, i) == \/ req[g].step = "reset_pop" /\ req[g].id = i
                           \/ req[g].step = "retire_pop" /\ Head(req[g].victims) = i
             PopsNext(g, i) == \/ req'[g].step = "reset_pop" /\ req'[g].id = i
                               \/ req'[g].step = "retire_pop" /\ Head(req'[g].victims) = i
  <1>1. SUFFICES ASSUME NEW i \in Ids, store'[i] \in closed'
                 PROVE  \E g \in Requests : PopsNext(g, i)
    BY DEF ClosedSessionsLeave, Victim
  <1>2. store[i] \in closed => \E g \in Requests : Pops(g, i)
    BY DEF ClosedSessionsLeave, Victim
  <1>3. \A g \in Requests : g # h /\ Pops(g, i) => PopsNext(g, i)
    BY DEF Others
  <1>4. CASE VictimClosed(h)
    <2>1. CASE store[i] = req[h].held /\ store[i] # None
      <3>1. i = Head(req[h].victims)
        BY <1>4, <2>1 DEF VictimClosed, HomeInv, Victim
      <3>2. PopsNext(h, i)
        BY <1>4, <3>1 DEF VictimClosed
      <3> QED
        BY <3>2
    <2>2. CASE ~(store[i] = req[h].held /\ store[i] # None)
      <3>1. store[i] \in closed /\ ~Pops(h, i)
        BY <1>1, <1>4, <2>2 DEF VictimClosed
      <3> QED
        BY <1>2, <1>3, <3>1
    <2> QED
      BY <2>1, <2>2
  <1>5. CASE ClosedIt(h)
    <2>1. req[h].held # None
      BY <1>5, NoneIsNoObject DEF ClosedIt, Shape, StepsInv, RowOK
    <2>2. CASE store[i] = req[h].held
      <3>1. i = req[h].id
        BY <1>5, <2>1, <2>2 DEF ClosedIt, HomeInv
      <3>2. PopsNext(h, i)
        BY <1>5, <3>1 DEF ClosedIt
      <3> QED
        BY <3>2
    <2>3. CASE store[i] # req[h].held
      <3>1. store[i] \in closed /\ ~Pops(h, i)
        BY <1>1, <1>5, <2>3 DEF ClosedIt
      <3> QED
        BY <1>2, <1>3, <3>1
    <2> QED
      BY <2>2, <2>3
  <1>6. CASE VictimPopped(h)
    <2>1. /\ closed' = closed /\ store' = [store EXCEPT ![Head(req[h].victims)] = None]
          /\ req[h].step = "retire_pop"
      BY <1>6 DEF VictimPopped, Victim
    <2>2. i # Head(req[h].victims) /\ store[i] \in closed
      BY <1>1, <2>1
    <2> QED
      BY <1>2, <1>3, <2>1, <2>2
  <1>7. CASE Popped(h)
    <2>1. /\ closed' = closed /\ store' = [store EXCEPT ![req[h].id] = None]
          /\ req[h].step = "reset_pop"
      BY <1>7 DEF Popped
    <2>2. i # req[h].id /\ store[i] \in closed
      BY <1>1, <2>1
    <2> QED
      BY <1>2, <1>3, <2>1, <2>2
  <1>8. CASE Minted(h) \/ Adopted(h)
    <2>1. PICK x \in Ids, o \in Objects :
               /\ Unused(o) /\ store' = [store EXCEPT ![x] = o]
               /\ closed' = closed
               /\ req[h].step \notin {"reset_pop", "retire_pop"}
      BY <1>8 DEF Minted, Adopted, FreshInv, MayAdopt
    <2>2. store[i] \in closed
      BY <1>1, <2>1 DEF Unused
    <2> QED
      BY <1>2, <1>3, <2>1, <2>2
  <1>9. CASE Listed(h) \/ VictimFound(h) \/ Found(h) \/ Quiet(h)
    <2>1. /\ UNCHANGED <<store, closed>>
          /\ req[h].step \notin {"reset_pop", "retire_pop"}
      BY <1>9 DEF Listed, VictimFound, Found, Quiet
    <2> QED
      BY <1>1, <1>2, <1>3, <2>1
  <1> QED
    BY <1>4, <1>5, <1>6, <1>7, <1>8, <1>9 DEF Effect

\* A stored id is in the list, or on its way into it or out of the store.
LEMMA RememberedStep ==
    ASSUME Shape, EverySessionIsRemembered, NEW h \in Requests, Others(h), Effect(h)
    PROVE  EverySessionIsRemembered'
  <1> USE EffectTyped DEF From, To, Same
  <1> DEFINE InOrder(i) == \E k \in DOMAIN order : order[k] = i
             Keeps(g, i) == \/ req[g].step = "remember" /\ req[g].id = i
                            \/ \E k \in DOMAIN req[g].victims : req[g].victims[k] = i
             InOrderNext(i) == \E k \in DOMAIN order' : order'[k] = i
             KeepsNext(g, i) == \/ req'[g].step = "remember" /\ req'[g].id = i
                                \/ \E k \in DOMAIN req'[g].victims : req'[g].victims[k] = i
  <1>1. SUFFICES ASSUME NEW i \in Ids, store'[i] # None
                 PROVE  InOrderNext(i) \/ \E g \in Requests : KeepsNext(g, i)
    BY DEF EverySessionIsRemembered, Remembered
  <1>2. store[i] # None => InOrder(i) \/ \E g \in Requests : Keeps(g, i)
    BY DEF EverySessionIsRemembered, Remembered
  <1>3. \A g \in Requests : g # h /\ Keeps(g, i) => KeepsNext(g, i)
    BY DEF Others
  <1>4. req[h].victims = <<>> => DOMAIN req[h].victims = {}
    BY EmptySeq
  <1>5. CASE Minted(h) \/ Adopted(h)
    <2>1. PICK x \in Ids, o \in Objects :
               /\ store' = [store EXCEPT ![x] = o] /\ order' = order
               /\ req'[h].step = "remember" /\ req'[h].id = x
               /\ req[h].step # "remember" /\ req[h].victims = <<>>
      BY <1>5 DEF Minted, Adopted
    <2>2. CASE i = x
      BY <2>1, <2>2
    <2>3. CASE i # x
      <3>1. store[i] # None /\ ~Keeps(h, i)
        BY <1>1, <1>4, <2>1, <2>3
      <3> QED
        BY <1>2, <1>3, <2>1, <3>1
    <2> QED
      BY <2>2, <2>3
  <1>6. CASE Listed(h)
    <2>1. Keeps(h, i) => i = req[h].id
      BY <1>4, <1>6 DEF Listed
    <2>2. i = req[h].id \/ InOrder(i) => InOrderNext(i) \/ KeepsNext(h, i)
      BY <1>6 DEF Listed
    <2>3. store[i] # None
      BY <1>1, <1>6 DEF Listed
    <2> QED
      BY <1>2, <1>3, <2>1, <2>2, <2>3
  <1>7. CASE VictimPopped(h)
    <2> DEFINE vs == req[h].victims
    <2>1. /\ vs \in Seq(Ids) /\ vs # <<>> /\ req'[h].victims = Tail(vs)
          /\ store' = [store EXCEPT ![Head(vs)] = None] /\ order' = order
          /\ req[h].step # "remember"
      BY <1>7 DEF VictimPopped, Victim
    <2>2. i # Head(vs) /\ store[i] # None
      BY <1>1, <2>1
    <2>3. ASSUME NEW k \in DOMAIN vs, vs[k] = i
          PROVE  \E m \in DOMAIN Tail(vs) : Tail(vs)[m] = i
      <3>1. /\ DOMAIN vs = 1..Len(vs) /\ Len(vs) \in Nat /\ Head(vs) = vs[1]
            /\ Tail(vs) \in Seq(Ids) /\ Len(Tail(vs)) = Len(vs) - 1
            /\ \A m \in 1..Len(Tail(vs)) : Tail(vs)[m] = vs[m + 1]
        BY <2>1, LenProperties, HeadTailProperties
      <3>2. DOMAIN Tail(vs) = 1..(Len(vs) - 1)
        BY <3>1, LenProperties
      <3> HIDE DEF vs
      <3>3. k \in 1..Len(vs) /\ k # 1
        BY <2>2, <2>3, <3>1
      <3>4. k - 1 \in 1..(Len(vs) - 1) /\ (k - 1) + 1 = k
        BY <3>1, <3>3
      <3>5. Tail(vs)[k - 1] = i
        BY <2>3, <3>1, <3>4
      <3> QED
        BY <3>2, <3>4, <3>5
    <2>4. Keeps(h, i) => KeepsNext(h, i)
      BY <2>1, <2>3
    <2> QED
      BY <1>2, <1>3, <2>1, <2>2, <2>4
  <1>8. CASE VictimFound(h) \/ VictimClosed(h) \/ Found(h) \/ ClosedIt(h) \/ Popped(h)
    <2>1. /\ order' = order /\ req'[h].victims = req[h].victims
          /\ req[h].step # "remember"
      BY <1>8 DEF VictimFound, VictimClosed, Found, ClosedIt, Popped
    <2>2. store[i] # None
      BY <1>1, <1>8 DEF VictimFound, VictimClosed, Found, ClosedIt, Popped
    <2> QED
      BY <1>2, <1>3, <2>1, <2>2
  <1>9. CASE Quiet(h)
    <2>1. /\ UNCHANGED <<store, order>> /\ req[h].step # "remember"
          /\ req[h].victims = <<>>
      BY <1>9 DEF Quiet
    <2> QED
      BY <1>1, <1>2, <1>3, <1>4, <2>1
  <1> QED
    BY <1>5, <1>6, <1>7, <1>8, <1>9 DEF Effect

-----------------------------------------------------------------------------
(* What it means for the public server *)

LEMMA InitInv == Init => Inv
  <1> SUFFICES ASSUME Init PROVE Inv
    OBVIOUS
  <1>1. \A h \in Requests : req[h] = Idle
    BY DEF Init
  <1>2. Shape
    <2>1. <<>> \in Seq(Ids) /\ req \in [Requests -> ReqRow]
      BY RowsMade, EmptySeq DEF Init
    <2>2. RegistryTypeOK
      BY <2>1 DEF Init, RegistryTypeOK, ReqRow
    <2>3. RowOK(Idle)
      BY DEF RowOK, Idle, Retiring, Resetting
    <2> QED
      BY <1>1, <2>2, <2>3 DEF Shape, StepsInv
  <1>3. FreshInv
    <2>1. ASSUME NEW o \in Objects
          PROVE  Unused(o)
      BY <1>1, NoneIsNoObject DEF Init, Unused, Idle
    <2> QED
      BY <2>1 DEF FreshInv, Objects
  <1>4. HomeInv /\ EverySessionIsRemembered /\ ClosedSessionsLeave
    BY DEF Init, HomeInv, EverySessionIsRemembered, ClosedSessionsLeave
  <1> QED
    BY <1>2, <1>3, <1>4 DEF Inv

LEMMA StepInv == Inv /\ [Next]_vars => Inv'
  <1> SUFFICES ASSUME Inv, [Next]_vars PROVE Inv'
    OBVIOUS
  <1>1. CASE Next
    <2> PICK h \in Requests : Arrive(h) \/ Proceed(h)
      BY <1>1 DEF Next
    <2>1. Others(h) /\ Effect(h)
      BY StepHasEffect DEF Inv
    <2> QED
      BY <2>1, ShapeStep, FreshStep, HomeStep, ClosedStep, RememberedStep DEF Inv
  <1>2. CASE UNCHANGED vars
    <2>1. Shape' /\ FreshInv' /\ HomeInv'
      BY <1>2 DEF Inv, vars, Shape, RegistryTypeOK, StepsInv, FreshInv, MayMint, MayAdopt,
         Unused, HomeInv, Victim
    <2>2. EverySessionIsRemembered' /\ ClosedSessionsLeave'
      BY <1>2 DEF Inv, vars, EverySessionIsRemembered, Remembered, ClosedSessionsLeave,
         Victim
    <2> QED
      BY <2>1, <2>2 DEF Inv
  <1> QED
    BY <1>1, <1>2

LEMMA Invariant == Spec => []Inv
  BY InitInv, StepInv, PTL DEF Spec

\* Store, list, closed sessions and requests keep their types, for any number of
\* requests and any cap.
THEOREM RegistryTyped == Spec => []RegistryTypeOK
  <1>1. Inv => RegistryTypeOK
    BY DEF Inv, Shape
  <1> QED
    BY <1>1, Invariant, PTL

\* No session can escape retirement: creation, adoption, reset and retirement of
\* any number of requests may interleave as they like (public_server.py
\* _remember, _session, session.py SessionStore).
THEOREM NoneEscapes == Spec => []EverySessionIsRemembered
  <1>1. Inv => EverySessionIsRemembered
    BY DEF Inv
  <1> QED
    BY <1>1, Invariant, PTL

\* A closed session is registered no longer than the reset or the retirement that
\* closed it needs to pop it (public_server.py _remember, session.py reset).
THEOREM ClosedOnesLeave == Spec => []ClosedSessionsLeave
  <1>1. Inv => ClosedSessionsLeave
    BY DEF Inv
  <1> QED
    BY <1>1, Invariant, PTL
=============================================================================
