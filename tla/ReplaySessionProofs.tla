------------------------ MODULE ReplaySessionProofs ------------------------
(***************************************************************************)
(* The replay session for any number of autoplay threads, readers, proof   *)
(* branches and approval keys: the human gate holds, the mode and the      *)
(* projection tell the truth, and every stream is a tail of the feed.      *)
(***************************************************************************)
EXTENDS ReplaySession, SequenceTheorems, TLAPS

Frames == [seq : 1..LastSequence, receipt : Keys \cup {None}]

USE DEF Initial, Gate, Activation, BranchMin, LastSequence

-----------------------------------------------------------------------------
(* The inductive invariant *)

\* What is recorded or open was recorded or opened late enough.
NotBeforeItsEvent ==
    /\ approval # None => cursor >= Gate
    /\ branch # None => cursor >= BranchMin

\* A reader is never ahead of its batch, nor a batch ahead of the feed.
StreamsBehind ==
    /\ got \in [Readers -> Seq(Frames)]
    /\ \A r \in Readers : Len(got[r]) <= stream[r].upto
                          /\ stream[r].upto <= Len(emitted)

SessionInv == SessionTypeOK /\ GateHeld /\ NotBeforeItsEvent /\ ModeTellsTheTruth
Inv == SessionInv /\ StreamsBehind

LEMMA InitInv == Init => Inv
  <1> SUFFICES ASSUME Init PROVE Inv
    OBVIOUS
  <1>1. /\ cursor = 5 /\ mode = "IDLE" /\ approval = None /\ branch = None
        /\ closed = FALSE
        /\ emitted = [n \in 1..5 |-> [seq |-> n, receipt |-> None]]
    BY DEF Init, Frame
  <1>2. emitted \in Seq(Frames) /\ Len(emitted) = 5 /\ DOMAIN emitted = 1..5
    <2>1. emitted \in [1..5 -> Frames]
      BY <1>1 DEF Frames
    <2>2. emitted \in Seq(Frames)
      BY <2>1, SeqDef
    <2>3. DOMAIN emitted = 1..Len(emitted) /\ Len(emitted) \in Nat
      BY <2>2, LenProperties
    <2> QED
      BY <2>1, <2>2, <2>3
  <1>3. \A i \in 1..5 : emitted[i].seq = i /\ emitted[i].receipt = None
    BY <1>1
  <1>4. stream = [r \in Readers |-> [open |-> FALSE, upto |-> 0]]
        /\ got = [r \in Readers |-> <<>>]
        /\ thread = [t \in Threads |-> "none"]
    BY DEF Init
  <1>5. SessionTypeOK
    <2>1. cursor \in Initial..LastSequence /\ mode \in Modes /\ 0 \in 0..LastSequence
      BY <1>1 DEF Modes
    <2>2. stream \in [Readers -> [open : BOOLEAN, upto : 0..LastSequence]]
      BY <1>4, <2>1, Zenon
    <2>3. thread \in [Threads -> {"none", "top", "sleeping", "stepping", "checking"}]
      BY <1>4
    <2> QED
      BY <1>1, <1>2, <2>1, <2>2, <2>3 DEF SessionTypeOK, Frames
  <1>6. GateHeld
    <2>1. ASSUME NEW i \in DOMAIN emitted
          PROVE  /\ emitted[i].seq = i
                 /\ i >= Gate => approval # None
                 /\ emitted[i].receipt = IF i = Gate THEN approval ELSE None
      <3>1. i \in 1..5
        BY <1>2
      <3>2. ~(i >= Gate) /\ i # Gate
        BY <3>1
      <3> QED
        BY <1>3, <3>1, <3>2
    <2> QED
      BY <1>1, <1>2, <2>1 DEF GateHeld
  <1>7. NotBeforeItsEvent /\ ModeTellsTheTruth
    BY <1>1 DEF NotBeforeItsEvent, ModeTellsTheTruth
  <1>8. StreamsBehind
    <2>1. <<>> \in Seq(Frames) /\ Len(<<>>) = 0
      BY EmptySeq
    <2>2. \A r \in Readers : got[r] = <<>> /\ stream[r].upto = 0
      BY <1>4
    <2>3. got \in [Readers -> Seq(Frames)]
      BY <1>4, <2>1
    <2>4. \A r \in Readers : Len(got[r]) <= stream[r].upto /\ stream[r].upto <= 5
      BY <2>1, <2>2
    <2> QED
      BY <1>2, <2>3, <2>4 DEF StreamsBehind
  <1> QED
    BY <1>5, <1>6, <1>7, <1>8 DEF Inv, SessionInv

-----------------------------------------------------------------------------
(* Steps that write the session *)

\* What a commit appends is the next event, with the receipt it must carry.
LEMMA CommitKeepsFeed ==
    ASSUME SessionInv, NEW receipt \in Keys \cup {None}, cursor < LastSequence,
           Commit(cursor + 1, receipt),
           approval' \in Keys \cup {None},
           approval # None => approval' = approval,
           cursor + 1 >= Gate => approval' # None,
           receipt = IF cursor + 1 = Gate THEN approval' ELSE None
    PROVE  /\ cursor' \in 5..LastSequence /\ cursor' = cursor + 1
           /\ emitted' \in Seq(Frames) /\ Len(emitted') = cursor'
           /\ GateHeld'
  <1> USE DEF SessionInv
  <1>1. /\ cursor \in 5..24 /\ cursor' = cursor + 1
        /\ emitted \in Seq(Frames) /\ Len(emitted) = cursor
    BY DEF SessionTypeOK, GateHeld, Commit, Frames
  <1>2. Frame(cursor + 1, receipt) \in Frames
    BY <1>1 DEF Frame, Frames
  <1>3. /\ emitted' \in Seq(Frames) /\ Len(emitted') = cursor'
        /\ \A i \in 1..Len(emitted) : emitted'[i] = emitted[i]
        /\ emitted'[cursor + 1] = Frame(cursor + 1, receipt)
        /\ DOMAIN emitted' = 1..(cursor + 1) /\ DOMAIN emitted = 1..cursor
    BY <1>1, <1>2 DEF Commit
  <1>4. ASSUME NEW i \in 1..(cursor + 1)
        PROVE  /\ emitted'[i].seq = i
               /\ i >= Gate => approval' # None
               /\ emitted'[i].receipt = IF i = Gate THEN approval' ELSE None
    <2>1. CASE i = cursor + 1
      BY <1>1, <1>3, <2>1 DEF Frame
    <2>2. CASE i \in 1..cursor
      <3>1. /\ emitted'[i] = emitted[i] /\ emitted[i].seq = i
            /\ i >= Gate => approval # None
            /\ emitted[i].receipt = IF i = Gate THEN approval ELSE None
        BY <1>1, <1>3, <2>2 DEF GateHeld
      <3> QED
        BY <3>1
    <2> QED
      BY <1>1, <2>1, <2>2
  <1> QED
    BY <1>1, <1>3, <1>4 DEF GateHeld

LEMMA MoveKeepsInv ==
    ASSUME SessionInv, Forward \/ Halt, UNCHANGED <<approval, branch, closed>>,
           thread' \in [Threads -> {"none", "top", "sleeping", "stepping", "checking"}],
           UNCHANGED stream
    PROVE  SessionInv'
  <1> USE DEF SessionInv
  <1>1. CASE Forward
    <2>1. /\ cursor \in 5..24
          /\ cursor + 1 >= Gate => approval # None
          /\ cursor + 1 # Gate \/ approval = None
      BY <1>1 DEF Forward, Permitted, SessionTypeOK, NotBeforeItsEvent, GateHeld
    <2>2. FALSE \/ cursor + 1 # Gate
      BY <2>1
    <2>3. /\ cursor' \in 5..LastSequence /\ cursor' = cursor + 1
          /\ emitted' \in Seq(Frames) /\ Len(emitted') = cursor'
          /\ GateHeld'
      BY <1>1, <2>1, <2>2, CommitKeepsFeed DEF Forward, SessionTypeOK
    <2>4. SessionTypeOK'
      BY <1>1, <2>3 DEF Forward, SessionTypeOK, Modes, Frames
    <2>5. NotBeforeItsEvent' /\ ModeTellsTheTruth'
      BY <1>1, <2>1, <2>2, <2>3 DEF Forward, Permitted, NotBeforeItsEvent, ModeTellsTheTruth
    <2> QED
      BY <2>3, <2>4, <2>5
  <1>2. CASE Halt
    <2>1. SessionTypeOK' /\ GateHeld' /\ NotBeforeItsEvent'
      BY <1>2 DEF Halt, SessionTypeOK, Modes, GateHeld, NotBeforeItsEvent
    <2>2. cursor \in 5..24 => cursor + 1 \in {Gate, Activation} /\ approval = None
      BY <1>2 DEF Halt, Permitted
    <2>3. cursor \in 5..24 => cursor = 8
      <3>1. cursor \in 9..24 => approval # None
        BY DEF GateHeld, SessionTypeOK
      <3> QED
        BY <2>2, <3>1 DEF SessionTypeOK
    <2>4. ModeTellsTheTruth'
      BY <1>2, <2>2, <2>3 DEF Halt, SessionTypeOK, ModeTellsTheTruth
    <2> QED
      BY <2>1, <2>4
  <1> QED
    BY <1>1, <1>2

LEMMA ApproveKeepsInv ==
    ASSUME SessionInv, NEW k \in Keys, Approve(k)
    PROVE  SessionInv'
  <1> USE DEF SessionInv
  <1>1. k # None /\ approval' = k /\ cursor = 8 /\ approval = None
    BY NoneIsNothing DEF Approve
  <1>2. /\ cursor' \in 5..LastSequence /\ cursor' = cursor + 1
        /\ emitted' \in Seq(Frames) /\ Len(emitted') = cursor'
        /\ GateHeld'
    BY <1>1, CommitKeepsFeed DEF Approve, SessionTypeOK
  <1>3. SessionTypeOK'
    BY <1>1, <1>2 DEF Approve, SessionTypeOK, Modes, Frames
  <1>4. NotBeforeItsEvent' /\ ModeTellsTheTruth'
    BY <1>1, <1>2 DEF Approve, NotBeforeItsEvent, ModeTellsTheTruth
  <1> QED
    BY <1>2, <1>3, <1>4

LEMMA StreamTypes ==
    ASSUME SessionTypeOK, GateHeld, StreamsBehind, NEW r \in Readers,
           Serve(r) \/ Connect(r) \/ Break(r)
    PROVE  /\ stream' \in [Readers -> [open : BOOLEAN, upto : 0..LastSequence]]
           /\ StreamsBehind'
  <1> DEFINE Rows == [open : BOOLEAN, upto : 0..LastSequence]
  <1>1. /\ stream \in [Readers -> Rows] /\ got \in [Readers -> Seq(Frames)]
        /\ emitted \in Seq(Frames) /\ Len(emitted) \in 0..LastSequence
        /\ emitted' = emitted
    <2>1. emitted' = emitted
      BY DEF Serve, Fetch, Send, EndStream, Connect, Break, sessionVars
    <2>2. cursor \in 0..LastSequence /\ Len(emitted) = cursor
      BY DEF SessionTypeOK, GateHeld
    <2> QED
      BY <2>1, <2>2 DEF SessionTypeOK, StreamsBehind, Frames
  <1>2. ASSUME NEW x \in Readers
        PROVE  /\ got[x] \in Seq(Frames) /\ stream[x] \in Rows
               /\ Len(got[x]) \in Nat /\ stream[x].upto \in Nat
               /\ Len(got[x]) <= stream[x].upto
               /\ stream[x].upto <= Len(emitted)
    <2>1. got[x] \in Seq(Frames) /\ stream[x] \in Rows
      BY <1>1
    <2>2. Len(got[x]) \in Nat
      BY <2>1, LenProperties
    <2> QED
      BY <2>1, <2>2 DEF StreamsBehind
  <1>8. Len(got[r]) \in 0..LastSequence /\ Len(got[r]) <= Len(emitted)
    <2>1. /\ Len(got[r]) \in Nat /\ stream[r].upto \in Nat
          /\ Len(got[r]) <= stream[r].upto /\ stream[r].upto <= Len(emitted)
      BY <1>2
    <2>2. Len(emitted) \in 0..LastSequence
      BY <1>1
    <2>3. ASSUME NEW a \in Nat, NEW b \in Nat, NEW c \in 0..LastSequence, a <= b, b <= c
          PROVE  a \in 0..LastSequence /\ a <= c
      BY <2>3
    <2> HIDE DEF LastSequence
    <2> QED
      BY <2>1, <2>2, <2>3
  <1>3. ASSUME NEW row \in Rows, stream' = [stream EXCEPT ![r] = row], got' = got,
               Len(got[r]) <= row.upto, row.upto <= Len(emitted)
        PROVE  /\ stream' \in [Readers -> Rows]
               /\ StreamsBehind'
    <2>1. stream' \in [Readers -> Rows]
      BY <1>1, <1>3
    <2>2. ASSUME NEW x \in Readers
          PROVE  Len(got'[x]) <= stream'[x].upto /\ stream'[x].upto <= Len(emitted')
      <3>1. stream'[x] = IF x = r THEN row ELSE stream[x]
        BY <1>1, <1>3
      <3>2. CASE x = r
        BY <1>1, <1>3, <3>1, <3>2
      <3>3. CASE x # r
        BY <1>1, <1>2, <1>3, <3>1, <3>3
      <3> QED
        BY <3>2, <3>3
    <2> QED
      BY <1>1, <1>3, <2>1, <2>2 DEF StreamsBehind
  <1>4. CASE Connect(r)
    <2> DEFINE row == [open |-> TRUE, upto |-> Len(got[r])]
    <2>1. Len(got[r]) \in 0..LastSequence /\ Len(got[r]) <= Len(emitted)
      BY <1>8
    <2>2. row \in Rows /\ row.upto = Len(got[r]) /\ Len(got[r]) <= Len(got[r])
      BY <2>1, <1>2
    <2>3. stream' = [stream EXCEPT ![r] = row] /\ got' = got
      BY <1>4 DEF Connect
    <2> HIDE DEF row
    <2> QED
      BY <1>3, <2>1, <2>2, <2>3
  <1>5. CASE Fetch(r)
    <2> DEFINE row == [stream[r] EXCEPT !.upto = Len(emitted)]
    <2>1. row \in Rows /\ row.upto = Len(emitted)
      BY <1>1, <1>2
    <2>2. stream' = [stream EXCEPT ![r] = row] /\ got' = got
      BY <1>5 DEF Fetch
    <2>3. Len(got[r]) <= Len(emitted) /\ Len(emitted) <= Len(emitted)
      BY <1>1, <1>2
    <2> HIDE DEF row
    <2> QED
      BY <1>3, <2>1, <2>2, <2>3
  <1>6. CASE EndStream(r) \/ Break(r)
    <2> DEFINE row == [stream[r] EXCEPT !.open = FALSE]
    <2>1. row \in Rows /\ row.upto = stream[r].upto
      BY <1>2
    <2>2. stream' = [stream EXCEPT ![r] = row] /\ got' = got
      BY <1>6 DEF EndStream, Break
    <2> QED
      BY <1>2, <1>3, <2>1, <2>2
  <1>7. CASE Send(r)
    <2> DEFINE sent == Append(got[r], emitted[Len(got[r]) + 1])
    <2>1. /\ Len(got[r]) < stream[r].upto /\ stream' = stream
          /\ got' = [got EXCEPT ![r] = sent]
      BY <1>7 DEF Send
    <2>2. emitted[Len(got[r]) + 1] \in Frames
      <3>1. Len(got[r]) + 1 \in 1..Len(emitted)
        BY <1>1, <1>2, <2>1
      <3> QED
        BY <1>1, <3>1, ElementOfSeq
    <2>3. sent \in Seq(Frames) /\ Len(sent) = Len(got[r]) + 1
      BY <1>2, <2>2, AppendProperties
    <2>4. got' \in [Readers -> Seq(Frames)]
      BY <1>1, <2>1, <2>3
    <2>5. ASSUME NEW x \in Readers
          PROVE  Len(got'[x]) <= stream'[x].upto /\ stream'[x].upto <= Len(emitted')
      <3> HIDE DEF sent
      <3>1. got'[x] = IF x = r THEN sent ELSE got[x]
        BY <1>1, <2>1
      <3>2. CASE x = r
        BY <1>1, <1>2, <2>1, <2>3, <3>1, <3>2
      <3>3. CASE x # r
        BY <1>1, <1>2, <2>1, <3>1, <3>3
      <3> QED
        BY <3>2, <3>3
    <2> QED
      BY <1>1, <2>1, <2>4, <2>5 DEF StreamsBehind
  <1> QED
    BY <1>4, <1>5, <1>6, <1>7 DEF Serve

LEMMA StepKeepsSessionInv == Inv /\ [Next]_vars => SessionInv'
  <1> SUFFICES ASSUME SessionInv, StreamsBehind, [Next]_vars PROVE SessionInv'
    BY DEF Inv
  <1> DEFINE Places == {"none", "top", "sleeping", "stepping", "checking"}
  <1>a. thread \in [Threads -> Places]
    BY DEF SessionInv, SessionTypeOK
  <1>1. CASE Advance
    BY <1>1, <1>a, MoveKeepsInv DEF Advance
  <1>2. CASE Start
    BY <1>2, <1>a DEF Start, SessionInv, SessionTypeOK, Modes, GateHeld,
       NotBeforeItsEvent, ModeTellsTheTruth
  <1>3. CASE Pause
    BY <1>3 DEF Pause, SessionInv, SessionTypeOK, Modes, GateHeld,
       NotBeforeItsEvent, ModeTellsTheTruth
  <1>4. CASE ExitBranch
    BY <1>4 DEF ExitBranch, SessionInv, SessionTypeOK, GateHeld,
       NotBeforeItsEvent, ModeTellsTheTruth
  <1>5. CASE Close
    BY <1>5 DEF Close, SessionInv, SessionTypeOK, GateHeld,
       NotBeforeItsEvent, ModeTellsTheTruth
  <1>6. ASSUME NEW k \in Keys, Approve(k) PROVE SessionInv'
    BY <1>6, ApproveKeepsInv
  <1>7. ASSUME NEW p \in Proofs, EnterBranch(p) PROVE SessionInv'
    BY <1>7 DEF EnterBranch, SessionInv, SessionTypeOK, GateHeld,
       NotBeforeItsEvent, ModeTellsTheTruth
  <1>8. ASSUME NEW t \in Threads, Drive(t) PROVE SessionInv'
    <2>1. CASE Step(t)
      <3>1. thread' \in [Threads -> Places]
        BY <1>a, <2>1 DEF Step, ThreadGoes
      <3>2. CASE Forward \/ Halt
        BY <2>1, <3>1, <3>2, MoveKeepsInv DEF Step
      <3>3. CASE UNCHANGED <<cursor, mode, emitted>>
        BY <2>1, <3>1, <3>3 DEF Step, SessionInv, SessionTypeOK, GateHeld,
           NotBeforeItsEvent, ModeTellsTheTruth
      <3> QED
        BY <2>1, <3>2, <3>3 DEF Step
    <2>2. CASE Look(t) \/ Wake(t) \/ Check(t)
      BY <1>a, <2>2 DEF Look, Wake, Check, ThreadGoes, sessionVars, SessionInv,
         SessionTypeOK, GateHeld, NotBeforeItsEvent, ModeTellsTheTruth
    <2> QED
      BY <1>8, <2>1, <2>2 DEF Drive
  <1>9. ASSUME NEW r \in Readers, Serve(r) \/ Connect(r) \/ Break(r)
        PROVE  SessionInv'
    <2>1. UNCHANGED <<cursor, mode, approval, branch, closed, emitted, thread>>
      BY <1>9 DEF Serve, Connect, Break, Fetch, Send, EndStream, sessionVars
    <2>2. stream' \in [Readers -> [open : BOOLEAN, upto : 0..LastSequence]]
      BY <1>9, StreamTypes DEF SessionInv
    <2> QED
      BY <2>1, <2>2 DEF SessionInv, SessionTypeOK, GateHeld, NotBeforeItsEvent,
         ModeTellsTheTruth
  <1>10. CASE UNCHANGED vars
    BY <1>10 DEF vars, SessionInv, SessionTypeOK, GateHeld, NotBeforeItsEvent,
       ModeTellsTheTruth
  <1> QED
    BY <1>1, <1>2, <1>3, <1>4, <1>5, <1>6, <1>7, <1>8, <1>9, <1>10
       DEF Next, Operate

-----------------------------------------------------------------------------
(* Steps that only the session, its threads and its operators make *)

\* The feed grows by one frame or not at all, and what was sent stays sent.
LEMMA OthersOnlyGrow ==
    ASSUME SessionInv, Operate \/ \E t \in Threads : Drive(t)
    PROVE  /\ UNCHANGED <<stream, got>>
           /\ \/ emitted' = emitted
              \/ \E x : emitted' = Append(emitted, x)
  <1>1. CASE Operate
    BY <1>1 DEF Operate, Advance, Start, Pause, ExitBranch, Close, Approve,
       EnterBranch, Forward, Halt, Commit
  <1>2. ASSUME NEW t \in Threads, Drive(t)
        PROVE  /\ UNCHANGED <<stream, got>>
               /\ \/ emitted' = emitted
                  \/ \E x : emitted' = Append(emitted, x)
    BY <1>2 DEF Drive, Look, Wake, Step, Check, Forward, Halt, Commit, sessionVars
  <1> QED
    BY <1>1, <1>2

LEMMA StepKeepsInv == Inv /\ [Next]_vars => Inv'
  <1> SUFFICES ASSUME Inv, [Next]_vars PROVE Inv'
    OBVIOUS
  <1>1. SessionInv'
    BY StepKeepsSessionInv
  <1>2. StreamsBehind'
    <2>1. CASE Operate \/ \E t \in Threads : Drive(t)
      <3>1. /\ UNCHANGED <<stream, got>>
            /\ emitted' = emitted \/ \E x : emitted' = Append(emitted, x)
        BY <2>1, OthersOnlyGrow DEF Inv
      <3>2. emitted \in Seq(Frames)
        BY DEF Inv, SessionInv, SessionTypeOK, Frames
      <3>3. Len(emitted) \in Nat /\ Len(emitted') >= Len(emitted) /\ Len(emitted') \in Nat
        BY <3>1, <3>2
      <3>4. ASSUME NEW r \in Readers
            PROVE  Len(got[r]) <= stream[r].upto /\ stream[r].upto <= Len(emitted')
        <4>1. stream[r].upto \in Nat
          BY DEF Inv, SessionInv, SessionTypeOK
        <4>2. stream[r].upto <= Len(emitted) /\ Len(got[r]) <= stream[r].upto
          BY DEF Inv, StreamsBehind
        <4> QED
          BY <3>3, <4>1, <4>2
      <3> QED
        BY <3>1, <3>4 DEF Inv, StreamsBehind
    <2>2. ASSUME NEW r \in Readers, Serve(r) \/ Connect(r) \/ Break(r)
          PROVE  StreamsBehind'
      BY <2>2, StreamTypes DEF Inv, SessionInv
    <2>3. CASE UNCHANGED vars
      BY <2>3 DEF vars, Inv, StreamsBehind
    <2> QED
      BY <2>1, <2>2, <2>3 DEF Next
  <1> QED
    BY <1>1, <1>2 DEF Inv

LEMMA Invariant == Spec => []Inv
  BY InitInv, StepKeepsInv, PTL DEF Spec

-----------------------------------------------------------------------------
(* What it means for an operator and an audience *)

\* The state of a session has its type, for any number of threads and readers.
THEOREM SessionTyped == Spec => []SessionTypeOK
  <1>1. Inv => SessionTypeOK
    BY DEF Inv, SessionInv
  <1> QED
    BY <1>1, Invariant, PTL

\* No control and no thread commits an event of the other side of the human gate
\* without an approval, and the feed is the script (session.py _gate_is_open,
\* _commit_locked, approve).
THEOREM GateHolds == Spec => []GateHeld
  <1>1. Inv => GateHeld
    BY DEF Inv, SessionInv
  <1> QED
    BY <1>1, Invariant, PTL

\* COMPLETE and PAUSED_HUMAN_GATE are never stale (session.py advance,
\* autoplay_step, approve).
THEOREM ModeIsTrue == Spec => []ModeTellsTheTruth
  <1>1. Inv => ModeTellsTheTruth
    BY DEF Inv, SessionInv
  <1> QED
    BY <1>1, Invariant, PTL

\* No cursor and no branch shows a part of the day before its event
\* (session.py filter_projection, enrich_projection).
THEOREM NothingEarly == Spec => []NothingFromTheFuture
  <1>1. Inv => NothingFromTheFuture
    <2> SUFFICES ASSUME SessionTypeOK, NotBeforeItsEvent,
                        NEW part \in Projection
                 PROVE  Established[part] <= cursor
      BY DEF Inv, SessionInv, NothingFromTheFuture
    <2>0. cursor \in 5..25
      BY DEF SessionTypeOK
    <2>1. CASE branch # None
      BY <2>0, <2>1 DEF Projection, NotBeforeItsEvent, Established
    <2>2. CASE branch = None /\ part \in DOMAIN FixtureFrom
                             /\ cursor >= FixtureFrom[part] /\ Kept(part)
      BY <2>0, <2>2 DEF Kept, FixtureFrom, HiddenBefore, Established
    <2>3. CASE branch = None /\ part \in DOMAIN AddedFrom /\ cursor >= AddedFrom[part]
      BY <2>0, <2>3 DEF AddedFrom, Established
    <2>4. CASE branch = None /\ part = "repair_approved" /\ approval # None
      BY <2>0, <2>4 DEF NotBeforeItsEvent, Established
    <2> QED
      BY <2>1, <2>2, <2>3, <2>4 DEF Projection
  <1> QED
    BY <1>1, Invariant, PTL

LEMMA StepRefines ==
    ASSUME Inv, [Next]_vars
    PROVE  [Feed!TailNext]_<<emitted, got>>
  <1>1. emitted \in Seq(Frames)
    BY DEF Inv, SessionInv, SessionTypeOK, Frames
  <1>2. CASE Operate \/ \E t \in Threads : Drive(t)
    <2>1. /\ got' = got
          /\ emitted' = emitted \/ \E x : emitted' = Append(emitted, x)
      BY <1>2, OthersOnlyGrow DEF Inv
    <2>2. CASE emitted' = emitted
      BY <2>1, <2>2
    <2>3. ASSUME NEW x, emitted' = Append(emitted, x)
          PROVE  Feed!Grow
      <3>1. /\ Len(emitted) < Len(emitted')
            /\ \A i \in 1..Len(emitted) : emitted'[i] = emitted[i]
        BY <1>1, <2>3
      <3> QED
        BY <2>1, <3>1 DEF Feed!Grow
    <2> QED
      BY <2>1, <2>2, <2>3 DEF Feed!TailNext
  <1>3. ASSUME NEW r \in Readers, Send(r)
        PROVE  Feed!Receive(r)
    <2>1. /\ Len(got[r]) < stream[r].upto /\ emitted' = emitted
          /\ got' = [got EXCEPT ![r] = Append(got[r], emitted[Len(got[r]) + 1])]
      BY <1>3 DEF Send, sessionVars
    <2>2. /\ stream[r].upto \in Nat /\ stream[r].upto <= Len(emitted)
          /\ Len(got[r]) \in Nat /\ Len(emitted) \in Nat
      <3>1. got[r] \in Seq(Frames)
        BY DEF Inv, StreamsBehind
      <3>2. Len(got[r]) \in Nat /\ Len(emitted) \in Nat
        BY <1>1, <3>1, LenProperties
      <3>3. stream[r].upto \in Nat
        BY DEF Inv, SessionInv, SessionTypeOK
      <3> QED
        BY <3>2, <3>3 DEF Inv, StreamsBehind
    <2> QED
      BY <2>1, <2>2 DEF Feed!Receive
  <1>4. ASSUME NEW r \in Readers, Fetch(r) \/ EndStream(r) \/ Connect(r) \/ Break(r)
        PROVE  UNCHANGED <<emitted, got>>
    BY <1>4 DEF Fetch, EndStream, Connect, Break, sessionVars
  <1>5. CASE UNCHANGED vars
    BY <1>5 DEF vars
  <1> QED
    BY <1>2, <1>3, <1>4, <1>5 DEF Next, Serve, Feed!TailNext

\* Every stream is a log tail of the feed, for any number of readers, however
\* their connections break and resume (session.py stream, parse_last_event_id).
THEOREM StreamsAreTails == Spec => StreamsFollowTheFeed
  <1>1. Init => Feed!TailInit
    BY DEF Init, Feed!TailInit
  <1>2. Inv /\ [Next]_vars => [Feed!TailNext]_<<emitted, got>>
    BY StepRefines
  <1> QED
    BY <1>1, <1>2, Invariant, PTL DEF Spec, StreamsFollowTheFeed, Feed!TailSpec,
       Feed!tailVars
=============================================================================
