--------------------------- MODULE ReplaySession ---------------------------
(***************************************************************************)
(* One session of the deterministic replay: a cursor over the 25 canonical *)
(* events, the human gate at event 9, the threads that drive the cursor,   *)
(* the projection each cursor shows and the streams that follow the feed.  *)
(*                                                                         *)
(* Every method of the session holds its condition variable, so a method   *)
(* is one action.  What runs between two acquisitions of the lock is not:  *)
(* an autoplay thread looks at the mode, sleeps, steps and looks again in  *)
(* four actions, and a stream copies a batch under the lock and sends it   *)
(* frame by frame outside.  A handler holds a session it looked up before  *)
(* a reset closed it, so no operation is guarded by ~closed.               *)
(***************************************************************************)
EXTENDS Naturals, Sequences

CONSTANTS
    None,       \* no approval, no open branch
    Keys,       \* idempotency keys of approval requests
    Proofs,     \* the isolated proof branches
    Threads,    \* autoplay threads; the public server starts none
    Readers,    \* clients with an event stream
    Controls    \* the operator controls in use

ASSUME NoneIsNothing == None \notin Keys \cup Proofs

Initial == 5
Gate == 9
Activation == 10
BranchMin == 22
LastSequence == 25

Modes == {"IDLE", "PLAYING", "PAUSED", "PAUSED_HUMAN_GATE", "COMPLETE"}

VARIABLES
    cursor, mode,
    approval,   \* the key of the one recorded approval
    branch,     \* the open proof branch
    closed,
    emitted,    \* the feed: the committed frames
    thread,     \* what each autoplay thread is about to do
    stream,     \* per reader, whether it is connected and the end of its batch
    got         \* the frames each reader has received

sessionVars == <<cursor, mode, approval, branch, closed, emitted>>
vars == <<cursor, mode, approval, branch, closed, emitted, thread, stream, got>>

Frame(n, receipt) == [seq |-> n, receipt |-> receipt]

-----------------------------------------------------------------------------
(* Committing *)

MutantPermitted(n) == n <= LastSequence /\ (n = Activation => approval # None)
Permitted(n) ==
    /\ n <= LastSequence
    /\ n \in {Gate, Activation} => approval # None

\* _commit_locked: the cursor and the feed move together.
Commit(n, receipt) ==
    /\ cursor' = n
    /\ emitted' = Append(emitted, Frame(n, receipt))

\* advance and autoplay_step, once they have found a frame to commit.
Forward ==
    /\ Permitted(cursor + 1)
    /\ Commit(cursor + 1, None)
    /\ mode' = IF cursor + 1 = LastSequence THEN "COMPLETE" ELSE mode
\* ... and once they have found none.
Halt ==
    /\ ~Permitted(cursor + 1)
    /\ mode' = IF cursor >= LastSequence THEN "COMPLETE" ELSE "PAUSED_HUMAN_GATE"
    /\ UNCHANGED <<cursor, emitted>>

-----------------------------------------------------------------------------
(* The operator's controls *)

Advance ==
    /\ "advance" \in Controls
    /\ branch = None
    /\ Forward \/ Halt
    /\ UNCHANGED <<approval, branch, closed, thread, stream, got>>

\* The local server starts a thread for every start, the public one for none.
Start ==
    /\ mode # "COMPLETE"
    /\ mode' = "PLAYING"
    /\ \/ Threads = {} /\ UNCHANGED thread
       \/ \E t \in Threads :
             thread[t] = "none" /\ thread' = [thread EXCEPT ![t] = "top"]
    /\ UNCHANGED <<cursor, approval, branch, closed, emitted, stream, got>>

\* Only a playing session pauses: at the gate the request changes nothing.
Pause ==
    /\ "pause" \in Controls
    /\ mode = "PLAYING"
    /\ mode' = "PAUSED"
    /\ UNCHANGED <<cursor, approval, branch, closed, emitted, thread, stream, got>>

\* approve, with a binding that matches; any other answer changes nothing.
MutantApprove(k) ==
    /\ approval = None
    /\ cursor = Gate - 1
    /\ approval' = k
    /\ Commit(Gate, k)
    /\ UNCHANGED <<mode, branch, closed, thread, stream, got>>
Approve(k) ==
    /\ approval = None
    /\ cursor = Gate - 1
    /\ approval' = k
    /\ Commit(Gate, k)
    /\ mode' = IF mode = "PAUSED_HUMAN_GATE" THEN "PLAYING" ELSE mode
    /\ UNCHANGED <<branch, closed, thread, stream, got>>

EnterBranch(p) ==
    /\ "branch" \in Controls
    /\ cursor >= BranchMin
    /\ branch' = p
    /\ UNCHANGED <<cursor, mode, approval, closed, emitted, thread, stream, got>>

ExitBranch ==
    /\ branch # None
    /\ branch' = None
    /\ UNCHANGED <<cursor, mode, approval, closed, emitted, thread, stream, got>>

\* reset and eviction
Close ==
    /\ "reset" \in Controls
    /\ closed' = TRUE
    /\ UNCHANGED <<cursor, mode, approval, branch, emitted, thread, stream, got>>

-----------------------------------------------------------------------------
(* The autoplay thread *)

Stopped == closed \/ mode \in {"PAUSED", "COMPLETE"}
ThreadGoes(t, where) == thread' = [thread EXCEPT ![t] = where]

\* The top of the loop; at the human gate the thread waits here.
Look(t) ==
    /\ thread[t] = "top"
    /\ mode # "PAUSED_HUMAN_GATE" \/ closed
    /\ ThreadGoes(t, IF Stopped \/ mode # "PLAYING" THEN "none" ELSE "sleeping")
    /\ UNCHANGED <<sessionVars, stream, got>>

Wake(t) ==
    /\ thread[t] = "sleeping"
    /\ ThreadGoes(t, IF Stopped THEN "none" ELSE "stepping")
    /\ UNCHANGED <<sessionVars, stream, got>>

MutantStep(t) ==
    /\ thread[t] = "stepping"
    /\ \/ mode = "PLAYING" /\ branch = None /\ Forward /\ ThreadGoes(t, "top")
       \/ mode = "PLAYING" /\ branch = None /\ Halt /\ ThreadGoes(t, "checking")
       \/ (mode # "PLAYING" \/ branch # None)
          /\ ThreadGoes(t, "checking") /\ UNCHANGED <<cursor, mode, emitted>>
    /\ UNCHANGED <<approval, branch, closed, stream, got>>
\* autoplay_step looks at neither closed nor branch.
Step(t) ==
    /\ thread[t] = "stepping"
    /\ \/ mode = "PLAYING" /\ Forward /\ ThreadGoes(t, "top")
       \/ mode = "PLAYING" /\ Halt /\ ThreadGoes(t, "checking")
       \/ mode # "PLAYING" /\ ThreadGoes(t, "checking")
                           /\ UNCHANGED <<cursor, mode, emitted>>
    /\ UNCHANGED <<approval, branch, closed, stream, got>>

\* The step returned nothing: the thread stays only if it sees the gate.
Check(t) ==
    /\ thread[t] = "checking"
    /\ ThreadGoes(t, IF mode = "PAUSED_HUMAN_GATE" THEN "top" ELSE "none")
    /\ UNCHANGED <<sessionVars, stream, got>>

-----------------------------------------------------------------------------
(* Streams *)

Idle(r) == stream[r].open /\ stream[r].upto = Len(got[r])

\* The client resumes with the id of the last frame it received.
Connect(r) ==
    /\ ~stream[r].open
    /\ stream' = [stream EXCEPT ![r] = [open |-> TRUE, upto |-> Len(got[r])]]
    /\ UNCHANGED <<sessionVars, thread, got>>

MutantFetch(r) ==
    /\ Idle(r)
    /\ \E i \in DOMAIN emitted : emitted[i].seq > Len(got[r]) + 1
    /\ stream' = [stream EXCEPT ![r].upto = Len(emitted)]
    /\ UNCHANGED <<sessionVars, thread, got>>
\* The batch is every frame after the last one sent, copied under the lock.
Fetch(r) ==
    /\ Idle(r)
    /\ \E i \in DOMAIN emitted : emitted[i].seq > Len(got[r])
    /\ stream' = [stream EXCEPT ![r].upto = Len(emitted)]
    /\ UNCHANGED <<sessionVars, thread, got>>

MutantSend(r) ==
    /\ stream[r].open /\ Len(got[r]) < stream[r].upto
    /\ got' = [got EXCEPT ![r] = Append(@, emitted[Len(emitted)])]
    /\ UNCHANGED <<sessionVars, thread, stream>>
Send(r) ==
    /\ stream[r].open /\ Len(got[r]) < stream[r].upto
    /\ got' = [got EXCEPT ![r] = Append(@, emitted[Len(@) + 1])]
    /\ UNCHANGED <<sessionVars, thread, stream>>

\* A stream that wakes in a closed session ends, frames pending or not; on the
\* public server a stream that has waited long enough for a frame ends too.
EndStream(r) ==
    /\ Idle(r)
    /\ closed \/ Len(got[r]) = Len(emitted)
    /\ stream' = [stream EXCEPT ![r].open = FALSE]
    /\ UNCHANGED <<sessionVars, thread, got>>

\* The connection is lost, and with it the rest of the batch.
Break(r) ==
    /\ stream[r].open
    /\ stream' = [stream EXCEPT ![r].open = FALSE]
    /\ UNCHANGED <<sessionVars, thread, got>>

-----------------------------------------------------------------------------
(* The projection: what is shown at a cursor *)

\* The event that establishes each part of the day.
Established ==
    [truck_alarm |-> 6, truck_incident |-> 6, repair_proposal |-> 8,
     repair_approved |-> 9, rev08 |-> 10, recall_incident |-> 11,
     recall_intake |-> 11, custody_graph |-> 18, recovery_proposal |-> 19,
     recovery |-> 20, carry_forward |-> 20, partner_evidence |-> 21,
     terminal_state |-> 22, isolated_proof |-> 22, next_day_draft |-> 24]

\* The first event whose fixture carries the part; later fixtures keep it.
FixtureFrom ==
    [truck_incident |-> 6, rev08 |-> 10, recall_incident |-> 11,
     recall_intake |-> 11, carry_forward |-> 15, custody_graph |-> 20,
     recovery |-> 20, partner_evidence |-> 21, terminal_state |-> 21,
     next_day_draft |-> 24]

\* filter_projection takes out what a fixture carries too early ...
MutantHiddenBefore ==
    [rev08 |-> 10, recall_incident |-> 11, recall_intake |-> 11,
     partner_evidence |-> 11, custody_graph |-> 18, recovery |-> 20,
     terminal_state |-> 22, next_day_draft |-> 24]
HiddenBefore ==
    [rev08 |-> 10, recall_incident |-> 11, recall_intake |-> 11,
     partner_evidence |-> 11, custody_graph |-> 18, recovery |-> 20,
     carry_forward |-> 20, terminal_state |-> 22, next_day_draft |-> 24]

\* ... and enrich_projection puts in what it carries too late or not at all.
AddedFrom ==
    [truck_alarm |-> 6, repair_proposal |-> 8, custody_graph |-> 18,
     recovery_proposal |-> 19]

Kept(part) == part \in DOMAIN HiddenBefore => cursor >= HiddenBefore[part]
Projection ==
    IF branch # None THEN {"isolated_proof"}
    ELSE {part \in DOMAIN FixtureFrom : cursor >= FixtureFrom[part] /\ Kept(part)}
         \cup {part \in DOMAIN AddedFrom : cursor >= AddedFrom[part]}
         \cup {part \in {"repair_approved"} :
                   cursor >= AddedFrom.repair_proposal /\ approval # None}

-----------------------------------------------------------------------------

Init ==
    /\ cursor = Initial /\ mode = "IDLE" /\ approval = None /\ branch = None
    /\ closed = FALSE
    /\ emitted = [n \in 1..Initial |-> Frame(n, None)]
    /\ thread = [t \in Threads |-> "none"]
    /\ stream = [r \in Readers |-> [open |-> FALSE, upto |-> 0]]
    /\ got = [r \in Readers |-> <<>>]

Operate ==
    \/ Advance \/ Start \/ Pause \/ ExitBranch \/ Close
    \/ \E k \in Keys : Approve(k)
    \/ \E p \in Proofs : EnterBranch(p)
Drive(t) == Look(t) \/ Wake(t) \/ Step(t) \/ Check(t)
Serve(r) == Fetch(r) \/ Send(r) \/ EndStream(r)

Next ==
    \/ Operate
    \/ \E t \in Threads : Drive(t)
    \/ \E r \in Readers : Serve(r) \/ Connect(r) \/ Break(r)

\* The waits of a thread are timed, and a stream writes while its client reads;
\* nothing makes an operator act or a client reconnect.
Fairness ==
    /\ \A t \in Threads : WF_vars(Drive(t))
    /\ \A r \in Readers : WF_vars(Serve(r))

Spec == Init /\ [][Next]_vars /\ Fairness

-----------------------------------------------------------------------------
(* Properties *)

SessionTypeOK ==
    /\ cursor \in Initial..LastSequence /\ mode \in Modes
    /\ approval \in Keys \cup {None} /\ branch \in Proofs \cup {None}
    /\ closed \in BOOLEAN
    /\ emitted \in Seq([seq : 1..LastSequence, receipt : Keys \cup {None}])
    /\ thread \in [Threads -> {"none", "top", "sleeping", "stepping", "checking"}]
    /\ stream \in [Readers -> [open : BOOLEAN, upto : 0..LastSequence]]

\* The feed is the script so far, each event once and in order, and no event at
\* or after the human gate is in it without an approval, whose receipt the frame
\* of the gate carries: the controls, the threads and the approval all commit.
GateHeld ==
    /\ Len(emitted) = cursor
    /\ \A i \in DOMAIN emitted :
          /\ emitted[i].seq = i
          /\ i >= Gate => approval # None
          /\ emitted[i].receipt = IF i = Gate THEN approval ELSE None

\* COMPLETE and PAUSED_HUMAN_GATE are shown exactly where they are true: the end
\* of the script, and a gate nobody has passed.  Approval, start, pause, a step
\* and /advance all write the mode.
ModeTellsTheTruth ==
    /\ mode = "COMPLETE" => cursor = LastSequence
    /\ mode = "PAUSED_HUMAN_GATE" => cursor = Gate - 1 /\ approval = None

\* No projection shows a part of the day before the event that establishes it,
\* at any cursor, in any branch, though the fixtures carry several too early.
NothingFromTheFuture ==
    \A part \in Projection : Established[part] <= cursor

\* The stream is a log tail: whatever connections break and resume, a reader's
\* frames are the feed in order, none skipped and none twice.
Feed == INSTANCE LogTail WITH log <- emitted
StreamsFollowTheFeed == Feed!TailSpec

\* A connected reader receives the whole feed, unless its stream ends.
ReadersCatchUp ==
    \A r \in Readers : stream[r].open ~> (~stream[r].open \/ got[r] = emitted)

\* A thread that has not yet looked away from a playing, approved session plays
\* it to its end, unless it is paused or closed.
Driven == \E t \in Threads : thread[t] \in {"top", "sleeping", "stepping"}
ApprovedDayPlaysOut ==
    (Driven /\ mode = "PLAYING" /\ approval # None)
        ~> (mode \in {"COMPLETE", "PAUSED"} \/ closed)

\* The thread survives the human gate: once approved, a playing session plays to
\* its end, unless it is paused or closed.
GateSurvival ==
    (mode = "PLAYING" /\ approval # None)
        ~> (mode \in {"COMPLETE", "PAUSED"} \/ closed)
=============================================================================
