------------------------- MODULE RunLifecycleProofs --------------------------
(***************************************************************************)
(* Proofs about RunLifecycle, for any number of runs, threads, handles,    *)
(* credential sources, repairs and stream parts: what was first decides a  *)
(* run, no two credential sources run its tools, and what a run holds it   *)
(* gives back.                                                             *)
(***************************************************************************)
EXTENDS RunLifecycle, TLAPS

-----------------------------------------------------------------------------
(* Types.  The chains of the locks have theirs in LocksInv.                 *)

SetUp == {"idle", "queued", "begin", "acquire", "create"}
CleanUp == {"closing", "detach", "capture", "destroy", "dispose"}

Id == Run \cup Handle \cup {None}
File == Run \cup {None}
Conversation == Seq(Run)
Part == {"tool", "credential", "other"}
Home == {<<"sandbox", x>> : x \in Run \cup Handle} \cup {None}
Attempt ==
  [source : Nat, turn : Nat, live : BOOLEAN, parts : Seq(Part),
   submitted : BOOLEAN, executed : BOOLEAN, streamError : {"credential", "other", None},
   thrown : {"credential", "other", None}, denial : {"timeout", "lost", None},
   end : Error \cup {"result", None},
   id : Id, file : File, memory : Conversation, home : Home]
Parked == [run : Run, id : Id, file : File, memory : Conversation, home : Home]

RunsOK ==
  /\ pc \in [Run -> SetUp \cup {"turn"} \cup CleanUp \cup {"done"}]
  /\ attempt \in [Run -> Attempt]
  /\ outcome \in [Run -> Error \cup {"result", None}]
  /\ aborted \subseteq Run
  /\ first \in [Run -> {"abort", "submit", None}]
  /\ effects \in [Run -> SUBSET Nat]
  /\ session \subseteq Run
  /\ parked \subseteq Parked
  /\ stuck \subseteq Id /\ litter \subseteq Id

DiskOK(d) == \A k \in DOMAIN d : d[k] \in Conversation

ThreadsOK ==
  /\ messages \in [Thread -> Conversation]
  /\ continuation \in [Thread -> [id : Id, file : File, turns : Conversation] \cup {None}]
  /\ unsaved \subseteq Run
  /\ DiskOK(disk)

TypeOK == RunsOK /\ ThreadsOK

-----------------------------------------------------------------------------
(* The inductive invariant, for one run.                                    *)

\* How far a run is shows in what it has.
PlaceInv(r) ==
  /\ pc[r] \in CleanUp <=> attempt[r].end # None
  /\ pc[r] = "done" <=> outcome[r] # None
  /\ r \in session => pc[r] \in {"turn", "closing", "detach", "destroy"}
  /\ pc[r] \in {"detach", "capture"} => attempt[r].end = "result" /\ ThreadOf[r] # None
  /\ pc[r] \in SetUp \cup {"done"} =>
       /\ ~attempt[r].live /\ attempt[r].parts = <<>> /\ ~attempt[r].submitted
       /\ attempt[r].thrown = None /\ attempt[r].denial = None

\* What was first is what the attempt goes by, and what has ended it.
FirstInv(r) ==
  /\ first[r] = "abort" => r \in aborted
  /\ r \in aborted => first[r] # None
  /\ attempt[r].submitted => r \in Schema
  /\ pc[r] \in SetUp => first[r] # "submit"
  /\ pc[r] = "turn" => (attempt[r].submitted <=> first[r] = "submit")
  /\ attempt[r].end # None \/ outcome[r] # None =>
       LET end == IF outcome[r] # None THEN outcome[r] ELSE attempt[r].end IN
       /\ end = "result" => first[r] # "abort" /\ (r \in Schema => first[r] = "submit")
       /\ first[r] = "submit" => end = "result"
  /\ outcome[r] = "destroyed" => HandleOf[r] \in destroyed
  /\ attempt[r].end # "destroyed"
  /\ pc[r] \in {"closing", "detach"} /\ attempt[r].end = "result" /\ attempt[r].live =>
       r \in Schema

\* The call of a tool is in the stream.
ToolWaits(a) == \E i \in 1..Len(a.parts) : a.parts[i] = "tool"

\* A tool that has run on the source of the attempt has marked the attempt, or
\* will, or the attempt does not end with a credential failure.
EffectsInv(r) ==
  LET a == attempt[r] IN
  /\ effects[r] \subseteq {a.source}
  /\ pc[r] \in SetUp \cup {"done"} => effects[r] = {}
  /\ pc[r] = "turn" /\ effects[r] # {} => a.executed \/ ToolWaits(a) \/ a.thrown = "other"
  /\ pc[r] = "turn" /\ a.thrown = "credential" => ~a.live /\ a.parts = <<>>
  /\ a.end = "credential" => ~a.live /\ (effects[r] # {} => a.executed)

RunInv(r) == PlaceInv(r) /\ FirstInv(r) /\ EffectsInv(r)

LifecycleInv == TypeOK /\ \A r \in Run : RunInv(r)
-----------------------------------------------------------------------------
USE DEF runVars, sessionVars, threadVars, handleVars, Error

\* The errors of calls are two.
LEMMA KindType == ASSUME NEW r \in Run PROVE Kind(r) \subseteq {"credential", "other"}
  BY RunAssumption DEF Kind

\* A journal with the run's turn added is a conversation.
LEMMA JournalledType == ASSUME RunsOK, NEW r \in Run PROVE Journalled(r) \in Conversation
  BY DEF Journalled, RunsOK, Attempt, Conversation

\* An attempt begins well typed.
LEMMA FreshType == ASSUME NEW s \in Nat PROVE Fresh(s) \in Attempt
  BY DEF Fresh, Attempt, Conversation, Part, Id, File, Home

\* A failure keeps its kind, unless a denied slot or a cancellation outranks it.
LEMMA FailureType ==
  ASSUME RunsOK, NEW r \in Run, NEW e \in Error \ {"destroyed"}
  PROVE  Failure(r, e) \in Error \ {"destroyed"}
  BY DEF RunsOK, Attempt, Failure

\* What a turn throws is one of its errors.
LEMMA RaisedType ==
  ASSUME RunsOK, NEW r \in Run
  PROVE  Raised(r) \in {"credential", "other", "timeout", "lost", "aborted", None}
  BY DEF RunsOK, Attempt, Raised

\* What steps read of an attempt.
LEMMA Fields ==
  ASSUME RunsOK, NEW r \in Run
  PROVE  /\ attempt[r] \in Attempt
         /\ attempt[r].source \in Nat /\ attempt[r].turn \in Nat
         /\ attempt[r].parts \in Seq(Part) /\ attempt[r].executed \in BOOLEAN
         /\ attempt[r].streamError \in {"credential", "other", None}
         /\ attempt[r].end \in Error \cup {"result", None}
         /\ attempt[r].id \in Id /\ attempt[r].file \in File
         /\ attempt[r].memory \in Conversation /\ attempt[r].home \in Home
  BY DEF RunsOK, Attempt

\* The sandbox of a run, as a place.
LEMMA BoxType == \A r \in Run : Box(r) \in Home
  BY RunAssumption DEF Box, Home

\* What steps write into an attempt.
LEMMA Update ==
  /\ \A a \in Attempt, live \in BOOLEAN :
       [a EXCEPT !.live = live] \in Attempt
  /\ \A a \in Attempt, live \in BOOLEAN, home \in Home, file \in File :
       [a EXCEPT !.live = live, !.home = home, !.file = file] \in Attempt
  /\ \A a \in Attempt, live \in BOOLEAN, home \in Home, memory \in Conversation :
       [a EXCEPT !.live = live, !.home = home, !.memory = memory] \in Attempt
  /\ \A a \in Attempt, live \in BOOLEAN, memory \in Conversation :
       [a EXCEPT !.live = live, !.memory = memory] \in Attempt
  /\ \A a \in Attempt, parts \in Seq(Part), memory \in Conversation :
       [a EXCEPT !.parts = parts, !.memory = memory] \in Attempt
  /\ \A a \in Attempt, parts \in Seq(Part) :
       [a EXCEPT !.parts = parts] \in Attempt
  /\ \A a \in Attempt, parts \in Seq(Part), b \in BOOLEAN, error \in {"credential", "other", None} :
       [a EXCEPT !.parts = parts, !.executed = b, !.streamError = error] \in Attempt
  /\ \A a \in Attempt, b \in BOOLEAN, memory \in Conversation :
       [a EXCEPT !.submitted = b, !.memory = memory] \in Attempt
  /\ \A a \in Attempt, error \in {"credential", "other", None}, live \in BOOLEAN :
       [a EXCEPT !.thrown = error, !.live = live] \in Attempt
  /\ \A a \in Attempt, error \in {"credential", "other", None}, parts \in Seq(Part) :
       [a EXCEPT !.thrown = error, !.parts = parts] \in Attempt
  /\ \A a \in Attempt, turn \in Nat, live \in BOOLEAN :
       [a EXCEPT !.turn = turn, !.live = live] \in Attempt
  /\ \A a \in Attempt, id \in Id, file \in File, memory \in Conversation :
       [a EXCEPT !.id = id, !.file = file, !.memory = memory] \in Attempt
  /\ \A a \in Attempt, d \in {"timeout", "lost"} :
       [a EXCEPT !.denial = d] \in Attempt
  /\ \A a \in Attempt, e \in Error \cup {"result"} :
       [a EXCEPT !.end = e] \in Attempt
<1> USE DEF Attempt
<1>1. \A a \in Attempt, live \in BOOLEAN :
           [a EXCEPT !.live = live] \in Attempt
  OBVIOUS
<1>2. \A a \in Attempt, live \in BOOLEAN, home \in Home, file \in File :
           [a EXCEPT !.live = live, !.home = home, !.file = file] \in Attempt
  OBVIOUS
<1>14. \A a \in Attempt, live \in BOOLEAN, home \in Home, memory \in Conversation :
           [a EXCEPT !.live = live, !.home = home, !.memory = memory] \in Attempt
  OBVIOUS
<1>3. \A a \in Attempt, live \in BOOLEAN, memory \in Conversation :
           [a EXCEPT !.live = live, !.memory = memory] \in Attempt
  OBVIOUS
<1>4. \A a \in Attempt, parts \in Seq(Part), memory \in Conversation :
           [a EXCEPT !.parts = parts, !.memory = memory] \in Attempt
  OBVIOUS
<1>5. \A a \in Attempt, parts \in Seq(Part) :
           [a EXCEPT !.parts = parts] \in Attempt
  OBVIOUS
<1>6. \A a \in Attempt, parts \in Seq(Part), b \in BOOLEAN, error \in {"credential", "other", None} :
           [a EXCEPT !.parts = parts, !.executed = b, !.streamError = error] \in Attempt
  OBVIOUS
<1>7. \A a \in Attempt, b \in BOOLEAN, memory \in Conversation :
           [a EXCEPT !.submitted = b, !.memory = memory] \in Attempt
  OBVIOUS
<1>8. \A a \in Attempt, error \in {"credential", "other", None}, live \in BOOLEAN :
           [a EXCEPT !.thrown = error, !.live = live] \in Attempt
  OBVIOUS
<1>9. \A a \in Attempt, error \in {"credential", "other", None}, parts \in Seq(Part) :
           [a EXCEPT !.thrown = error, !.parts = parts] \in Attempt
  OBVIOUS
<1>10. \A a \in Attempt, turn \in Nat, live \in BOOLEAN :
           [a EXCEPT !.turn = turn, !.live = live] \in Attempt
  OBVIOUS
<1>11. \A a \in Attempt, id \in Id, file \in File, memory \in Conversation :
           [a EXCEPT !.id = id, !.file = file, !.memory = memory] \in Attempt
  OBVIOUS
<1>12. \A a \in Attempt, d \in {"timeout", "lost"} :
           [a EXCEPT !.denial = d] \in Attempt
  OBVIOUS
<1>13. \A a \in Attempt, e \in Error \cup {"result"} :
           [a EXCEPT !.end = e] \in Attempt
  OBVIOUS
<1> QED
  BY <1>1, <1>2, <1>3, <1>4, <1>5, <1>6, <1>7, <1>8, <1>9, <1>10, <1>11, <1>12, <1>13, <1>14

\* A session is over, or cannot be ended, or is parked.
Leaves(r, d) == SessionOver(r, d) \/ SessionRejects(r, d) \/ Parks(r, d)

\* The ends of a run's session, whichever it is.
LEMMA EndsLeave ==
  ASSUME NEW r, Detach(r) \/ DetachFails(r) \/ DestroySession(r)
  PROVE  \E d \in Copies(r) : Leaves(r, d)
  BY DEF Detach, DetachFails, DestroySession, Leaves, Copies

\* What a session leaves when it is over.
LEMMA LeavesType ==
  ASSUME RunsOK, NEW r \in Run, NEW d, Leaves(r, d)
  PROVE  /\ session' = session \ {r}
         /\ parked' \subseteq Parked /\ stuck' \subseteq Id /\ litter' \subseteq Id
<1>1. attempt[r].id \in Id /\ Forgotten(r) \subseteq Id
  BY Fields DEF Forgotten
<1>2. [run |-> r, id |-> attempt[r].id, file |-> attempt[r].file,
       memory |-> attempt[r].memory, home |-> attempt[r].home] \in Parked
  BY Fields DEF Parked
<1>3. CASE SessionOver(r, d)
  BY <1>1, <1>3 DEF SessionOver, LeaseBack, SameKey, RunsOK
<1>4. CASE SessionRejects(r, d)
  BY <1>1, <1>4 DEF SessionRejects, LeaseKept, MirrorKept, SameKey, RunsOK
<1>5. CASE Parks(r, d)
  BY <1>1, <1>2, <1>5 DEF Parks, SameKey, RunsOK
<1> QED
  BY <1>3, <1>4, <1>5 DEF Leaves

\* What is left when a parked session is destroyed.
LEMMA EvictedType ==
  ASSUME RunsOK, NEW p \in parked, Evicted(p)
  PROVE  /\ UNCHANGED <<runVars, session, box, threadVars, handleVars>>
         /\ parked' \subseteq Parked /\ stuck' \subseteq Id /\ litter' \subseteq Id
<1>1. p.id \in Id
  BY DEF RunsOK, Parked
<1> QED
  BY <1>1 DEF Evicted, LeaseBack, LeaseKept, MirrorKept, RunsOK

\* Every step keeps the types of the runs.
LEMMA RunsStep == RunsOK /\ ThreadsOK /\ (\A r \in Run : PlaceInv(r)) /\ [Next]_vars => RunsOK'
<1> SUFFICES ASSUME RunsOK, ThreadsOK, \A r \in Run : PlaceInv(r), [Next]_vars PROVE RunsOK'
  OBVIOUS
<1> USE DEF SetUp, CleanUp
<1>0. ASSUME NEW r \in Run, NEW a \in Attempt, attempt' = [attempt EXCEPT ![r] = a]
      PROVE  attempt' \in [Run -> Attempt]
  BY <1>0 DEF RunsOK
<1>e. ASSUME NEW r \in Run, NEW end \in Error \cup {"result"}, AttemptEnds(r, end)
      PROVE  /\ attempt' \in [Run -> Attempt]
             /\ pc' \in [Run -> SetUp \cup {"turn"} \cup CleanUp \cup {"done"}]
             /\ outcome' \in [Run -> Error \cup {"result", None}]
             /\ effects' \in [Run -> SUBSET Nat]
  <2>1. Fresh(attempt[r].source + 1) \in Attempt /\ Fresh(1) \in Attempt
    BY Fields, FreshType
  <2> QED
    BY <1>e, <2>1 DEF AttemptEnds, RunsOK
<1>1. ASSUME NEW r \in Run, Call(r) PROVE RunsOK'
  BY <1>1 DEF Call, Clone, RunsOK
<1>2. ASSUME NEW h \in Handle, Destroy(h) PROVE RunsOK'
  BY <1>2 DEF Destroy, RunsOK
<1>3. ASSUME NEW r \in Run, Abort(r) PROVE RunsOK'
  BY <1>3 DEF Abort, RunsOK
<1>4. ASSUME NEW r \in Run, LockTurn(r) PROVE RunsOK'
  BY <1>4 DEF LockTurn, RunsOK
<1>5. ASSUME NEW r \in Run, AttemptBegins(r) PROVE RunsOK'
  <2>1. SessionId(r) \in Id /\ Replay(r) \in Conversation
    BY RunAssumption DEF SessionId, Continuation, Replay, ThreadsOK, Id, Conversation
  <2>2. Continuation(r) # None =>
          Continuation(r).file \in File /\ Continuation(r).turns \in Conversation
    BY RunAssumption DEF Continuation, ThreadsOK
  <2>3. None \in File
    BY DEF File
  <2> DEFINE c == Continuation(r)
             a == [attempt[r] EXCEPT !.id = SessionId(r),
                     !.file = IF c # None THEN c.file ELSE None,
                     !.memory = IF c # None THEN c.turns ELSE Replay(r)]
  <2>4. a \in Attempt
    BY <2>1, <2>2, <2>3, Fields, Update
  <2>5. CASE AttemptEnds(r, "credential") \/ AttemptEnds(r, "other")
    BY <1>5, <1>e, <2>5 DEF AttemptBegins, RunsOK
  <2>6. CASE attempt' = [attempt EXCEPT ![r] = a] /\ pc' = [pc EXCEPT ![r] = "acquire"]
             /\ UNCHANGED <<outcome, effects>>
    BY <1>5, <1>0, <2>4, <2>6 DEF AttemptBegins, RunsOK
  <2> QED
    BY <1>5, <2>5, <2>6 DEF AttemptBegins
<1>6. ASSUME NEW r \in Run, SandboxAcquired(r) PROVE RunsOK'
  BY <1>6 DEF SandboxAcquired, RunsOK
<1>7. ASSUME NEW r \in Run, NEW e \in Kind(r), AcquireFails(r, e) PROVE RunsOK'
  BY <1>7, <1>e, KindType DEF AcquireFails, RunsOK
<1>8. ASSUME NEW r \in Run, SessionCreated(r) PROVE RunsOK'
  <2>1. (IF attempt[r].file = None THEN r ELSE attempt[r].file) \in File
    BY Fields DEF File
  <2>2. [attempt[r] EXCEPT !.live = TRUE, !.home = Box(r),
          !.file = IF @ = None THEN r ELSE @] \in Attempt
    BY <2>1, Fields, Update, BoxType
  <2> QED
    BY <1>8, <2>2 DEF SessionCreated, RunsOK
<1>26. ASSUME NEW r \in Run, SessionTaken(r) PROVE RunsOK'
  <2>1. PICK p \in Resumable(r) :
          /\ parked' = parked \ {p}
          /\ attempt' = [attempt EXCEPT ![r].live = TRUE, ![r].home = p.home, ![r].memory = p.memory]
    BY <1>26 DEF SessionTaken
  <2>2. p.home \in Home /\ p.memory \in Conversation
    BY DEF Resumable, RunsOK, Parked
  <2>3. [attempt[r] EXCEPT !.live = TRUE, !.home = p.home, !.memory = p.memory] \in Attempt
    BY <2>2, Fields, Update
  <2> QED
    BY <1>26, <2>1, <2>3 DEF SessionTaken, RunsOK
<1>9. ASSUME NEW r \in Run, NEW e \in Kind(r), CreateFails(r, e) PROVE RunsOK'
  <2>1. [attempt[r] EXCEPT !.end = e] \in Attempt
    BY Fields, Update, KindType
  <2> QED
    BY <1>9, <2>1 DEF CreateFails, RunsOK
<1>10. ASSUME NEW r \in Run, EngineTool(r) PROVE RunsOK'
  <2>0. Append(attempt[r].parts, "tool") \in Seq(Part)
    BY Fields DEF Part
  <2>1. [attempt[r] EXCEPT !.parts = Append(@, "tool"), !.memory = Journalled(r)] \in Attempt
    BY Fields, Update, JournalledType, <2>0
  <2> QED
    BY <1>10, <2>1, Fields DEF EngineTool, RunsOK
<1>11. ASSUME NEW r \in Run, EngineSubmits(r) PROVE RunsOK'
  <2>1. [attempt[r] EXCEPT !.submitted = TRUE, !.memory = Journalled(r)] \in Attempt
    BY Fields, Update, JournalledType
  <2> QED
    BY <1>11, <2>1 DEF EngineSubmits, RunsOK
<1>12. ASSUME NEW r \in Run, NEW e \in Kind(r), EngineError(r, e) PROVE RunsOK'
  <2>0. Append(attempt[r].parts, e) \in Seq(Part)
    BY Fields, KindType DEF Part
  <2>1. [attempt[r] EXCEPT !.parts = Append(@, e)] \in Attempt
    BY Fields, Update, <2>0
  <2> QED
    BY <1>12, <2>1 DEF EngineError, RunsOK
<1>13. ASSUME NEW r \in Run, NEW e \in Raises[r] \cap {"timeout", "lost"}, Denied(r, e) PROVE RunsOK'
  <2>1. [attempt[r] EXCEPT !.denial = e] \in Attempt
    BY Fields, Update
  <2> QED
    BY <1>13, <2>1 DEF Denied, RunsOK
<1>14. ASSUME NEW r \in Run, EngineEnds(r) PROVE RunsOK'
  <2>1. [attempt[r] EXCEPT !.live = FALSE, !.memory = Journalled(r)] \in Attempt
    BY Fields, Update, JournalledType
  <2> QED
    BY <1>14, <2>1 DEF EngineEnds, RunsOK
<1>15. ASSUME NEW r \in Run, Reads(r) PROVE RunsOK'
  <2> DEFINE part == Head(attempt[r].parts)
  <2>1. part \in Part /\ Tail(attempt[r].parts) \in Seq(Part)
    BY <1>15, Fields DEF Reads
  <2>2. (attempt[r].executed \/ part = "tool") \in BOOLEAN
    OBVIOUS
  <2>3. (IF part # "tool" /\ attempt[r].streamError = None THEN part ELSE attempt[r].streamError)
          \in {"credential", "other", None}
    BY Fields, <2>1 DEF Part
  <2> HIDE DEF part
  <2>4. [attempt[r] EXCEPT
          !.parts = Tail(@), !.executed = @ \/ part = "tool",
          !.streamError = IF part # "tool" /\ @ = None THEN part ELSE @] \in Attempt
    BY <2>1, <2>2, <2>3, Fields, Update
  <2> QED
    BY <1>15, <2>4 DEF Reads, part, RunsOK
<1>16. ASSUME NEW r \in Run, NEW e \in Kind(r), StreamFails(r, e) PROVE RunsOK'
  <2>1. PICK still \in {FALSE, attempt[r].live /\ e = "other"} :
          attempt' = [attempt EXCEPT ![r].thrown = e, ![r].live = still]
    BY <1>16 DEF StreamFails
  <2>2. still \in BOOLEAN
    OBVIOUS
  <2>3. [attempt[r] EXCEPT !.thrown = e, !.live = still] \in Attempt
    BY <2>2, Fields, Update, KindType
  <2> QED
    BY <1>16, <2>1, <2>3 DEF StreamFails, RunsOK
<1>17. ASSUME NEW r \in Run, ReadThrows(r) PROVE RunsOK'
  <2>0. <<>> \in Seq(Part)
    OBVIOUS
  <2>1. [attempt[r] EXCEPT !.thrown = "other", !.parts = <<>>] \in Attempt
    BY Fields, Update, <2>0
  <2> QED
    BY <1>17, <2>1 DEF ReadThrows, RunsOK
<1>18. ASSUME NEW r \in Run, Decide(r) PROVE RunsOK'
  <2>1. ASSUME NEW end \in Error \cup {"result"}, Ends(r, end)
        PROVE  /\ attempt' \in [Run -> Attempt]
               /\ pc' \in [Run -> SetUp \cup {"turn"} \cup CleanUp \cup {"done"}]
    <3>1. [attempt[r] EXCEPT !.end = end] \in Attempt
      BY Fields, Update
    <3> QED
      BY <2>1, <3>1 DEF Ends, RunsOK
  <2>0. attempt[r].turn + 1 \in Nat
    BY Fields
  <2>2. [attempt[r] EXCEPT !.turn = @ + 1, !.live = TRUE] \in Attempt
    BY <2>0, Fields, Update
  <2>3. Raised(r) # None => Failure(r, Raised(r)) \in Error
    BY RaisedType, FailureType
  <2>4. Failure(r, "incomplete") \in Error
    BY FailureType
  <2>5. \/ \E end \in Error \cup {"result"} : Ends(r, end)
        \/ /\ attempt' = [attempt EXCEPT ![r].turn = @ + 1, ![r].live = TRUE]
           /\ UNCHANGED pc
    BY <1>18, <2>3, <2>4 DEF Decide
  <2>6. UNCHANGED <<outcome, aborted, first, effects, sessionVars>>
    BY <1>18 DEF Decide
  <2> QED
    BY <2>1, <2>2, <2>5, <2>6 DEF RunsOK
<1>19. ASSUME NEW r \in Run, Close(r) PROVE RunsOK'
  BY <1>19 DEF Close, RunsOK
<1>20. ASSUME NEW r \in Run, Detach(r) \/ DetachFails(r) \/ DestroySession(r) PROVE RunsOK'
  <2>1. [attempt[r] EXCEPT !.live = FALSE] \in Attempt
    BY Fields, Update
  <2>2. /\ session' \subseteq Run /\ parked' \subseteq Parked
        /\ stuck' \subseteq Id /\ litter' \subseteq Id
    BY <1>20, EndsLeave, LeavesType DEF RunsOK
  <2>3. /\ pc' \in [Run -> SetUp \cup {"turn"} \cup CleanUp \cup {"done"}]
        /\ attempt' \in [Run -> Attempt]
        /\ UNCHANGED <<outcome, aborted, first, effects>>
    BY <1>20, <2>1 DEF Detach, DetachFails, DestroySession, RunsOK
  <2> QED
    BY <2>2, <2>3 DEF RunsOK
<1>21. ASSUME NEW p \in parked, Evicted(p) PROVE RunsOK'
  BY <1>21, EvictedType DEF RunsOK
<1>23. ASSUME NEW r \in Run, Capture(r) PROVE RunsOK'
  BY <1>23 DEF Capture, RunsOK
<1>24. ASSUME NEW r \in Run, Dispose(r) PROVE RunsOK'
  <2>1. attempt[r].end \in Error \cup {"result"}
    BY <1>24, Fields DEF Dispose, PlaceInv
  <2> QED
    BY <1>24, <1>e, <2>1 DEF Dispose, RunsOK
<1>25. CASE UNCHANGED vars
  BY <1>25 DEF vars, RunsOK
<1> QED
  BY <1>1, <1>2, <1>3, <1>4, <1>5, <1>6, <1>7, <1>8, <1>9, <1>10, <1>11, <1>12, <1>13, <1>14, <1>15, <1>16, <1>17, <1>18, <1>19, <1>20, <1>21, <1>23, <1>24, <1>25, <1>26 DEF Next, Advance

-----------------------------------------------------------------------------
(* What a step of one run does to the others: nothing that its invariant    *)
(* speaks of.                                                               *)

StepOf(r) ==
  \/ Call(r) \/ Abort(r) \/ Advance(r)
  \/ EngineTool(r) \/ EngineSubmits(r) \/ EngineEnds(r)
  \/ ReadThrows(r)
  \/ \E e \in Kind(r) : EngineError(r, e) \/ StreamFails(r, e)
  \/ \E e \in Raises[r] \cap {"timeout", "lost"} : Denied(r, e)

UnchangedAt(q) ==
  /\ pc'[q] = pc[q] /\ attempt'[q] = attempt[q] /\ outcome'[q] = outcome[q]
  /\ first'[q] = first[q] /\ effects'[q] = effects[q]
  /\ q \in aborted' <=> q \in aborted
  /\ q \in session' <=> q \in session
  /\ destroyed \subseteq destroyed'

\* A run that a step does not change keeps its invariant.
LEMMA Untouched ==
  ASSUME NEW q \in Run, RunInv(q), UnchangedAt(q)
  PROVE  RunInv(q)'
<1>1. PlaceInv(q)'
  BY DEF RunInv, PlaceInv, UnchangedAt
<1>2. FirstInv(q)'
  BY DEF RunInv, FirstInv, UnchangedAt
<1>3. EffectsInv(q)'
  BY DEF RunInv, EffectsInv, UnchangedAt, ToolWaits
<1> QED
  BY <1>1, <1>2, <1>3 DEF RunInv

\* The step of a run changes nothing of another one.
LEMMA Elsewhere ==
  ASSUME RunsOK, NEW r \in Run, StepOf(r), NEW q \in Run, q # r
  PROVE  UnchangedAt(q)
<1> USE DEF UnchangedAt, RunsOK
<1>1. CASE Call(r)
  BY <1>1 DEF Call, Clone
<1>2. CASE Abort(r)
  BY <1>2 DEF Abort
<1>3. CASE LockTurn(r)
  BY <1>3 DEF LockTurn
<1>4. CASE AttemptBegins(r)
  BY <1>4 DEF AttemptBegins, AttemptEnds, Fresh
<1>5. CASE SandboxAcquired(r)
  BY <1>5 DEF SandboxAcquired
<1>6. CASE SessionCreated(r)
  BY <1>6 DEF SessionCreated
<1>7. ASSUME NEW e \in Kind(r), AcquireFails(r, e) PROVE UnchangedAt(q)
  BY <1>7 DEF AcquireFails, AttemptEnds, Fresh
<1>8. ASSUME NEW e \in Kind(r), CreateFails(r, e) PROVE UnchangedAt(q)
  BY <1>8 DEF CreateFails
<1>9. CASE EngineTool(r)
  BY <1>9 DEF EngineTool, Engine
<1>10. CASE EngineSubmits(r)
  BY <1>10 DEF EngineSubmits, Engine
<1>11. ASSUME NEW e \in Kind(r), EngineError(r, e) PROVE UnchangedAt(q)
  BY <1>11 DEF EngineError, Engine
<1>12. ASSUME NEW e \in Raises[r] \cap {"timeout", "lost"}, Denied(r, e) PROVE UnchangedAt(q)
  BY <1>12 DEF Denied, Engine
<1>13. CASE EngineEnds(r)
  BY <1>13 DEF EngineEnds, Engine
<1>14. CASE Reads(r)
  BY <1>14 DEF Reads
<1>15. ASSUME NEW e \in Kind(r), StreamFails(r, e) PROVE UnchangedAt(q)
  BY <1>15 DEF StreamFails
<1>16. CASE ReadThrows(r)
  BY <1>16 DEF ReadThrows
<1>17. CASE Decide(r)
  BY <1>17 DEF Decide, Ends
<1>18. CASE Close(r)
  BY <1>18 DEF Close
<1>19. CASE Detach(r) \/ DetachFails(r) \/ DestroySession(r)
  <2>1. session' = session \ {r}
    BY <1>19, EndsLeave, LeavesType
  <2> QED
    BY <1>19, <2>1 DEF Detach, DetachFails, DestroySession
<1>20. CASE Capture(r)
  BY <1>20 DEF Capture
<1>21. CASE SessionTaken(r)
  BY <1>21 DEF SessionTaken
<1>23. CASE Dispose(r)
  BY <1>23 DEF Dispose, AttemptEnds, Fresh
<1> QED
  BY <1>1, <1>2, <1>3, <1>4, <1>5, <1>6, <1>7, <1>8, <1>9, <1>10, <1>11, <1>12, <1>13, <1>14, <1>15, <1>16, <1>17, <1>18, <1>19, <1>20, <1>21, <1>23 DEF StepOf, Advance

-----------------------------------------------------------------------------
(* What the longer actions do to the run itself.                            *)

\* A fresh attempt.
LEMMA FreshFields ==
  ASSUME NEW s
  PROVE  LET f == Fresh(s) IN
         /\ f.source = s /\ ~f.live /\ f.parts = <<>> /\ ~f.submitted /\ ~f.executed
         /\ f.thrown = None /\ f.denial = None /\ f.end = None
  BY DEF Fresh

\* A call, whether it takes the lock or not.
LEMMA CallEffect ==
  ASSUME RunsOK, NEW r \in Run, Call(r)
  PROVE  /\ UNCHANGED <<attempt, aborted, first, effects, session, destroyed>>
         /\ pc[r] = "idle"
         /\ \/ pc'[r] \in {"queued", "begin"} /\ outcome'[r] = outcome[r]
            \/ pc'[r] = "done" /\ HandleOf[r] \in destroyed /\ outcome'[r] = "destroyed"
<1>1. pc[r] = "idle" /\ UNCHANGED <<attempt, aborted, first, effects, session, destroyed>>
  BY DEF Call
<1> QED
  BY <1>1 DEF Call, RunsOK

\* The end of an attempt: the next one, or the run has settled.
LEMMA EndEffect ==
  ASSUME RunsOK, NEW r \in Run, NEW end, AttemptEnds(r, end)
  PROVE  /\ ~attempt'[r].live /\ attempt'[r].parts = <<>> /\ ~attempt'[r].submitted
         /\ attempt'[r].thrown = None /\ attempt'[r].denial = None /\ attempt'[r].end = None
         /\ \/ /\ end = "credential" /\ ~attempt[r].executed /\ pc'[r] = "begin"
               /\ outcome'[r] = outcome[r] /\ effects'[r] = effects[r]
            \/ pc'[r] = "done" /\ outcome'[r] = end /\ effects'[r] = {}
<1>1. PICK s : attempt' = [attempt EXCEPT ![r] = Fresh(s)]
  BY DEF AttemptEnds
<1>2. attempt'[r] = Fresh(s)
  BY <1>1 DEF RunsOK
<1> QED
  BY <1>2, FreshFields DEF AttemptEnds, RunsOK

\* What begins an attempt writes into it.
LEMMA BeginEffect ==
  ASSUME RunsOK, NEW r \in Run, AttemptBegins(r)
  PROVE  /\ UNCHANGED <<aborted, first, session, destroyed>>
         /\ pc[r] = "begin"
         /\ \/ AttemptEnds(r, "credential") \/ AttemptEnds(r, "other")
            \/ /\ pc'[r] = "acquire" /\ outcome'[r] = outcome[r] /\ effects'[r] = effects[r]
               /\ attempt'[r].live = attempt[r].live /\ attempt'[r].parts = attempt[r].parts
               /\ attempt'[r].submitted = attempt[r].submitted
               /\ attempt'[r].thrown = attempt[r].thrown
               /\ attempt'[r].denial = attempt[r].denial
               /\ attempt'[r].end = attempt[r].end /\ attempt'[r].source = attempt[r].source
<1> DEFINE c == Continuation(r)
<1>1. \/ AttemptEnds(r, "credential") \/ AttemptEnds(r, "other")
      \/ /\ attempt' = [attempt EXCEPT
              ![r].id = SessionId(r),
              ![r].file = IF c # None THEN c.file ELSE None,
              ![r].memory = IF c # None THEN c.turns ELSE Replay(r)]
         /\ pc' = [pc EXCEPT ![r] = "acquire"] /\ UNCHANGED <<outcome, effects>>
  BY DEF AttemptBegins
<1>2. pc[r] = "begin" /\ UNCHANGED <<aborted, first, session, destroyed>>
  BY DEF AttemptBegins
<1> HIDE DEF c
<1> QED
  BY <1>1, <1>2 DEF RunsOK, Attempt

\* The session is there and at work on the first turn.
LEMMA SessionEffect ==
  ASSUME RunsOK, NEW r \in Run, SessionCreated(r) \/ SessionTaken(r)
  PROVE  /\ UNCHANGED <<outcome, aborted, first, effects, destroyed>>
         /\ pc[r] = "create" /\ pc'[r] = "turn"
         /\ attempt'[r].end = attempt[r].end /\ attempt'[r].parts = attempt[r].parts
         /\ attempt'[r].submitted = attempt[r].submitted
         /\ attempt'[r].thrown = attempt[r].thrown /\ attempt'[r].source = attempt[r].source
<1>1. /\ pc[r] = "create" /\ pc' = [pc EXCEPT ![r] = "turn"]
      /\ UNCHANGED <<outcome, aborted, first, effects, destroyed>>
  BY DEF SessionCreated, SessionTaken
<1>2. CASE SessionCreated(r)
  BY <1>1, <1>2 DEF SessionCreated, RunsOK, Attempt
<1>3. CASE SessionTaken(r)
  <2>1. PICK p \in Resumable(r) : attempt' =
          [attempt EXCEPT ![r].live = TRUE, ![r].home = p.home, ![r].memory = p.memory]
    BY <1>3 DEF SessionTaken
  <2> QED
    BY <1>1, <2>1 DEF RunsOK, Attempt
<1> QED
  BY <1>2, <1>3

\* The session is over, and what the run has made of its turn stays.
LEMMA LeaveEffect ==
  ASSUME RunsOK, NEW r \in Run, Detach(r) \/ DetachFails(r) \/ DestroySession(r)
  PROVE  /\ UNCHANGED <<outcome, aborted, first, effects, destroyed>>
         /\ session' = session \ {r} /\ ~attempt'[r].live
         /\ attempt'[r].end = attempt[r].end /\ attempt'[r].parts = attempt[r].parts
         /\ attempt'[r].submitted = attempt[r].submitted
         /\ attempt'[r].executed = attempt[r].executed
         /\ attempt'[r].thrown = attempt[r].thrown /\ attempt'[r].source = attempt[r].source
         /\ \/ pc[r] = "detach" /\ pc'[r] \in {"capture", "dispose"}
            \/ pc[r] = "destroy" /\ pc'[r] = "dispose"
<1>1. session' = session \ {r}
  BY EndsLeave, LeavesType
<1> QED
  BY <1>1 DEF Detach, DetachFails, DestroySession, RunsOK, Attempt

\* How a turn can end.
DecideEnds(r) ==
  /\ UNCHANGED <<outcome, aborted, first, effects, session, destroyed>>
  /\ TurnOver(r) /\ pc[r] = "turn"
  /\ attempt'[r].submitted = attempt[r].submitted
  /\ attempt'[r].parts = attempt[r].parts /\ attempt'[r].thrown = attempt[r].thrown
  /\ attempt'[r].source = attempt[r].source /\ attempt'[r].executed = attempt[r].executed
  /\ \/ /\ pc'[r] = "closing" /\ attempt'[r].live = attempt[r].live
        /\ \/ attempt'[r].end = "result" /\ Accepted(r)
           \/ /\ attempt'[r].end = "result" /\ ~Accepted(r) /\ Raised(r) = None
              /\ r \notin Schema
           \/ /\ ~Accepted(r) /\ Raised(r) # None
              /\ attempt'[r].end = Failure(r, Raised(r))
           \/ ~Accepted(r) /\ Raised(r) = None /\ attempt'[r].end = Failure(r, "incomplete")
     \/ /\ pc'[r] = pc[r] /\ ~Accepted(r) /\ Raised(r) = None
        /\ attempt'[r].end = attempt[r].end

\* The loop ends a turn in one of these ways.
LEMMA DecideEffect == ASSUME RunsOK, NEW r \in Run, Decide(r) PROVE DecideEnds(r)
<1>1. UNCHANGED <<outcome, aborted, first, effects, session, destroyed>> /\ TurnOver(r)
  BY DEF Decide
<1>2. ASSUME NEW end, Ends(r, end)
      PROVE  /\ pc'[r] = "closing" /\ attempt'[r].end = end
             /\ attempt'[r].submitted = attempt[r].submitted
             /\ attempt'[r].parts = attempt[r].parts /\ attempt'[r].thrown = attempt[r].thrown
             /\ attempt'[r].source = attempt[r].source
             /\ attempt'[r].executed = attempt[r].executed /\ attempt'[r].live = attempt[r].live
  <2>1. attempt' = [attempt EXCEPT ![r].end = end] /\ pc' = [pc EXCEPT ![r] = "closing"]
    BY <1>2 DEF Ends
  <2> QED
    BY <2>1 DEF RunsOK, Attempt
<1>3. ASSUME /\ attempt' = [attempt EXCEPT ![r].turn = @ + 1, ![r].live = TRUE]
             /\ UNCHANGED <<pc, messages>> /\ ~Accepted(r) /\ Raised(r) = None
      PROVE  DecideEnds(r)
  BY <1>1, <1>3 DEF DecideEnds, RunsOK, Attempt, TurnOver
<1>4. ASSUME NEW end, Ends(r, end),
             \/ end = "result" /\ Accepted(r)
             \/ end = "result" /\ ~Accepted(r) /\ Raised(r) = None /\ r \notin Schema
             \/ ~Accepted(r) /\ Raised(r) # None /\ end = Failure(r, Raised(r))
             \/ ~Accepted(r) /\ Raised(r) = None /\ end = Failure(r, "incomplete")
      PROVE  DecideEnds(r)
  BY <1>1, <1>2, <1>4 DEF DecideEnds, TurnOver
<1> QED
  BY <1>3, <1>4 DEF Decide

-----------------------------------------------------------------------------
(* Every step of a run keeps its invariant. *)

\* A run stays where its state says it is.
LEMMA PlaceStep ==
  ASSUME RunsOK, NEW r \in Run, RunInv(r), StepOf(r)
  PROVE  PlaceInv(r)'
<1> USE RunAssumption DEF RunInv, PlaceInv, SetUp, CleanUp
<1>1. CASE Call(r)
  BY <1>1, CallEffect
<1>2. CASE Abort(r)
  BY <1>2 DEF Abort, RunsOK, Attempt
<1>3. CASE LockTurn(r)
  BY <1>3 DEF LockTurn, RunsOK, Attempt
<1>4. CASE AttemptBegins(r)
  BY <1>4, BeginEffect, EndEffect
<1>5. CASE SandboxAcquired(r)
  BY <1>5 DEF SandboxAcquired, RunsOK, Attempt
<1>6. CASE SessionCreated(r) \/ SessionTaken(r)
  BY <1>6, SessionEffect
<1>7. ASSUME NEW e \in Kind(r), AcquireFails(r, e) PROVE PlaceInv(r)'
  BY <1>7, EndEffect, KindType DEF AcquireFails
<1>8. ASSUME NEW e \in Kind(r), CreateFails(r, e) PROVE PlaceInv(r)'
  BY <1>8, KindType DEF CreateFails, RunsOK, Attempt
<1>9. CASE EngineTool(r)
  BY <1>9 DEF EngineTool, Engine, RunsOK, Attempt
<1>10. CASE EngineSubmits(r)
  BY <1>10 DEF EngineSubmits, Engine, RunsOK, Attempt
<1>11. ASSUME NEW e \in Kind(r), EngineError(r, e) PROVE PlaceInv(r)'
  BY <1>11, KindType DEF EngineError, Engine, RunsOK, Attempt
<1>12. ASSUME NEW e \in Raises[r] \cap {"timeout", "lost"}, Denied(r, e) PROVE PlaceInv(r)'
  BY <1>12 DEF Denied, Engine, RunsOK, Attempt
<1>13. CASE EngineEnds(r)
  BY <1>13 DEF EngineEnds, Engine, RunsOK, Attempt
<1>14. CASE Reads(r)
  BY <1>14 DEF Reads, RunsOK, Attempt
<1>15. ASSUME NEW e \in Kind(r), StreamFails(r, e) PROVE PlaceInv(r)'
  BY <1>15, KindType DEF StreamFails, RunsOK, Attempt
<1>16. CASE ReadThrows(r)
  BY <1>16 DEF ReadThrows, RunsOK, Attempt
<1>17. CASE Decide(r)
  BY <1>17, DecideEffect, RaisedType, FailureType DEF DecideEnds
<1>18. CASE Close(r)
  BY <1>18 DEF Close, RunsOK, Attempt
<1>19. CASE Detach(r) \/ DetachFails(r) \/ DestroySession(r)
  BY <1>19, LeaveEffect
<1>20. CASE Capture(r)
  BY <1>20 DEF Capture, RunsOK, Attempt
<1>23. CASE Dispose(r)
  BY <1>23, EndEffect DEF Dispose
<1> QED
  BY <1>1, <1>2, <1>3, <1>4, <1>5, <1>6, <1>7, <1>8, <1>9, <1>10, <1>11, <1>12, <1>13, <1>14, <1>15, <1>16, <1>17, <1>18, <1>19, <1>20, <1>23 DEF StepOf, Advance

\* What was first stays what the run goes by.
LEMMA FirstStep ==
  ASSUME RunsOK, NEW r \in Run, RunInv(r), StepOf(r)
  PROVE  FirstInv(r)'
<1> USE RunAssumption DEF RunInv, PlaceInv, FirstInv, SetUp, CleanUp
<1>1. CASE Call(r)
  BY <1>1, CallEffect
<1>2. CASE Abort(r)
  BY <1>2 DEF Abort, RunsOK, Attempt
<1>3. CASE LockTurn(r)
  BY <1>3 DEF LockTurn, RunsOK, Attempt
<1>4. CASE AttemptBegins(r)
  BY <1>4, BeginEffect, EndEffect
<1>5. CASE SandboxAcquired(r)
  BY <1>5 DEF SandboxAcquired, RunsOK, Attempt
<1>6. CASE SessionCreated(r) \/ SessionTaken(r)
  BY <1>6, SessionEffect
<1>7. ASSUME NEW e \in Kind(r), AcquireFails(r, e) PROVE FirstInv(r)'
  BY <1>7, EndEffect, KindType DEF AcquireFails
<1>8. ASSUME NEW e \in Kind(r), CreateFails(r, e) PROVE FirstInv(r)'
  <2>1. /\ pc[r] = "create" /\ pc'[r] = "dispose" /\ attempt'[r].end = e
        /\ attempt'[r].submitted = attempt[r].submitted
        /\ UNCHANGED <<outcome, aborted, first, destroyed>>
    BY <1>8 DEF CreateFails, RunsOK, Attempt
  <2>2. e \in {"credential", "other"}
    BY KindType
  <2> QED
    BY <2>1, <2>2
<1>9. CASE EngineTool(r)
  BY <1>9 DEF EngineTool, Engine, RunsOK, Attempt
<1>10. CASE EngineSubmits(r)
  BY <1>10 DEF EngineSubmits, Engine, RunsOK, Attempt
<1>11. ASSUME NEW e \in Kind(r), EngineError(r, e) PROVE FirstInv(r)'
  BY <1>11, KindType DEF EngineError, Engine, RunsOK, Attempt
<1>12. ASSUME NEW e \in Raises[r] \cap {"timeout", "lost"}, Denied(r, e) PROVE FirstInv(r)'
  BY <1>12 DEF Denied, Engine, RunsOK, Attempt
<1>13. CASE EngineEnds(r)
  BY <1>13 DEF EngineEnds, Engine, RunsOK, Attempt
<1>14. CASE Reads(r)
  BY <1>14 DEF Reads, RunsOK, Attempt
<1>15. ASSUME NEW e \in Kind(r), StreamFails(r, e) PROVE FirstInv(r)'
  BY <1>15, KindType DEF StreamFails, RunsOK, Attempt
<1>16. CASE ReadThrows(r)
  BY <1>16 DEF ReadThrows, RunsOK, Attempt
<1>17. CASE Decide(r)
  <2>1. Raised(r) = None => r \notin aborted
    BY DEF Raised, Error
  <2>2. Raised(r) # None => Failure(r, Raised(r)) \in Error \ {"destroyed"}
    BY RaisedType, FailureType DEF Error
  <2>3. Failure(r, "incomplete") \in Error \ {"destroyed"}
    BY FailureType DEF Error
  <2>4. Accepted(r) <=> r \in Schema /\ attempt[r].submitted
    BY DEF Accepted
  <2>5. Raised(r) = None /\ TurnOver(r) => ~attempt[r].live
    BY DEF Raised, TurnOver
  <2> QED
    BY <1>17, <2>1, <2>2, <2>3, <2>4, <2>5, DecideEffect DEF DecideEnds, Error
<1>18. CASE Close(r)
  BY <1>18 DEF Close, RunsOK, Attempt
<1>19. CASE Detach(r) \/ DetachFails(r) \/ DestroySession(r)
  BY <1>19, LeaveEffect
<1>20. CASE Capture(r)
  BY <1>20 DEF Capture, RunsOK, Attempt
<1>23. CASE Dispose(r)
  BY <1>23, EndEffect DEF Dispose
<1> QED
  BY <1>1, <1>2, <1>3, <1>4, <1>5, <1>6, <1>7, <1>8, <1>9, <1>10, <1>11, <1>12, <1>13, <1>14, <1>15, <1>16, <1>17, <1>18, <1>19, <1>20, <1>23 DEF StepOf, Advance

\* A tool that has run marks the attempt.
LEMMA EffectsStep ==
  ASSUME RunsOK, NEW r \in Run, RunInv(r), StepOf(r)
  PROVE  EffectsInv(r)'
<1> USE RunAssumption DEF RunInv, PlaceInv, EffectsInv, SetUp, CleanUp
<1>1. CASE Call(r)
  BY <1>1, CallEffect
<1>2. CASE Abort(r)
  BY <1>2 DEF Abort, RunsOK, Attempt
<1>3. CASE LockTurn(r)
  BY <1>3 DEF LockTurn, RunsOK, Attempt
<1>4. CASE AttemptBegins(r)
  BY <1>4, BeginEffect, EndEffect
<1>5. CASE SandboxAcquired(r)
  BY <1>5 DEF SandboxAcquired, RunsOK, Attempt
<1>6. CASE SessionCreated(r) \/ SessionTaken(r)
  BY <1>6, SessionEffect
<1>7. ASSUME NEW e \in Kind(r), AcquireFails(r, e) PROVE EffectsInv(r)'
  BY <1>7, EndEffect, KindType DEF AcquireFails
<1>8. ASSUME NEW e \in Kind(r), CreateFails(r, e) PROVE EffectsInv(r)'
  BY <1>8, KindType DEF CreateFails, RunsOK, Attempt
<1>9. CASE EngineTool(r)
  <2>1. /\ attempt[r].live /\ pc'[r] = pc[r] /\ effects'[r] = effects[r] \cup {attempt[r].source}
        /\ attempt'[r].parts = Append(attempt[r].parts, "tool")
        /\ attempt'[r].thrown = attempt[r].thrown /\ attempt'[r].end = attempt[r].end
        /\ attempt'[r].source = attempt[r].source /\ r \in session
    BY <1>9 DEF EngineTool, Engine, RunsOK, Attempt
  <2>2. Append(attempt[r].parts, "tool")[Len(attempt[r].parts) + 1] = "tool"
        /\ Len(Append(attempt[r].parts, "tool")) = Len(attempt[r].parts) + 1
        /\ Len(attempt[r].parts) \in Nat
    BY Fields DEF Part
  <2>3. ToolWaits(attempt'[r])
    BY <2>1, <2>2 DEF ToolWaits
  <2> QED
    BY <2>1, <2>3
<1>10. CASE EngineSubmits(r)
  <2>1. /\ attempt[r].live /\ pc'[r] = pc[r] /\ effects'[r] = effects[r]
        /\ attempt'[r].parts = attempt[r].parts /\ attempt'[r].executed = attempt[r].executed
        /\ attempt'[r].thrown = attempt[r].thrown /\ attempt'[r].end = attempt[r].end
        /\ attempt'[r].source = attempt[r].source
    BY <1>10 DEF EngineSubmits, Engine, RunsOK, Attempt
  <2>2. ToolWaits(attempt'[r]) <=> ToolWaits(attempt[r])
    BY <2>1 DEF ToolWaits
  <2> QED
    BY <2>1, <2>2
<1>11. ASSUME NEW e \in Kind(r), EngineError(r, e) PROVE EffectsInv(r)'
  <2>1. /\ attempt[r].live /\ pc'[r] = pc[r] /\ effects'[r] = effects[r]
        /\ attempt'[r].parts = Append(attempt[r].parts, e)
        /\ attempt'[r].executed = attempt[r].executed
        /\ attempt'[r].thrown = attempt[r].thrown /\ attempt'[r].end = attempt[r].end
        /\ attempt'[r].source = attempt[r].source
    BY <1>11 DEF EngineError, Engine, RunsOK, Attempt
  <2>2. ASSUME NEW i \in 1..Len(attempt[r].parts)
        PROVE  /\ i \in 1..Len(Append(attempt[r].parts, e))
               /\ Append(attempt[r].parts, e)[i] = attempt[r].parts[i]
    BY Fields
  <2>3. ToolWaits(attempt[r]) => ToolWaits(attempt'[r])
    BY <2>1, <2>2 DEF ToolWaits
  <2> QED
    BY <2>1, <2>3
<1>12. ASSUME NEW e \in Raises[r] \cap {"timeout", "lost"}, Denied(r, e) PROVE EffectsInv(r)'
  <2>1. /\ attempt[r].live /\ pc'[r] = pc[r] /\ effects'[r] = effects[r]
        /\ attempt'[r].parts = attempt[r].parts /\ attempt'[r].executed = attempt[r].executed
        /\ attempt'[r].thrown = attempt[r].thrown /\ attempt'[r].end = attempt[r].end
        /\ attempt'[r].source = attempt[r].source
    BY <1>12 DEF Denied, Engine, RunsOK, Attempt
  <2>2. ToolWaits(attempt'[r]) <=> ToolWaits(attempt[r])
    BY <2>1 DEF ToolWaits
  <2> QED
    BY <2>1, <2>2
<1>13. CASE EngineEnds(r)
  <2>1. /\ attempt[r].live /\ pc'[r] = pc[r] /\ effects'[r] = effects[r]
        /\ attempt'[r].parts = attempt[r].parts /\ attempt'[r].executed = attempt[r].executed
        /\ attempt'[r].thrown = attempt[r].thrown /\ attempt'[r].end = attempt[r].end
        /\ attempt'[r].source = attempt[r].source
    BY <1>13 DEF EngineEnds, Engine, RunsOK, Attempt
  <2>2. ToolWaits(attempt'[r]) <=> ToolWaits(attempt[r])
    BY <2>1 DEF ToolWaits
  <2> QED
    BY <2>1, <2>2
<1>14. CASE Reads(r)
  <2>1. /\ pc'[r] = pc[r] /\ effects'[r] = effects[r] /\ attempt[r].parts # <<>>
        /\ attempt[r].thrown = None /\ attempt'[r].thrown = None
        /\ attempt'[r].parts = Tail(attempt[r].parts)
        /\ attempt'[r].executed = (attempt[r].executed \/ Head(attempt[r].parts) = "tool")
        /\ attempt'[r].live = attempt[r].live /\ attempt'[r].end = attempt[r].end
        /\ attempt'[r].source = attempt[r].source /\ pc[r] = "turn"
    BY <1>14 DEF Reads, RunsOK, Attempt
  <2>2. ASSUME NEW i \in 1..Len(attempt[r].parts), i # 1
        PROVE  /\ i - 1 \in 1..Len(Tail(attempt[r].parts))
               /\ Tail(attempt[r].parts)[i - 1] = attempt[r].parts[i]
    BY <2>1, <2>2, Fields
  <2>3. Head(attempt[r].parts) = attempt[r].parts[1]
    BY <2>1, Fields
  <2>4. ASSUME ToolWaits(attempt[r]) PROVE attempt'[r].executed \/ ToolWaits(attempt'[r])
    <3>1. PICK i \in 1..Len(attempt[r].parts) : attempt[r].parts[i] = "tool"
      BY <2>4 DEF ToolWaits
    <3>2. CASE i = 1
      BY <2>1, <2>3, <3>1, <3>2
    <3>3. CASE i # 1
      <4>1. /\ i - 1 \in 1..Len(attempt'[r].parts)
            /\ attempt'[r].parts[i - 1] = "tool"
        BY <2>1, <2>2, <3>1, <3>3
      <4> QED
        BY <4>1 DEF ToolWaits
    <3> QED
      BY <3>2, <3>3
  <2> QED
    BY <2>1, <2>4
<1>15. ASSUME NEW e \in Kind(r), StreamFails(r, e) PROVE EffectsInv(r)'
  <2>0. PICK still \in {FALSE, attempt[r].live /\ e = "other"} :
          attempt' = [attempt EXCEPT ![r].thrown = e, ![r].live = still]
    BY <1>15 DEF StreamFails
  <2>1. /\ pc'[r] = pc[r] /\ effects'[r] = effects[r] /\ attempt[r].parts = <<>>
        /\ attempt[r].thrown = None /\ pc[r] = "turn"
    BY <1>15 DEF StreamFails, RunsOK
  <2>3. /\ attempt'[r].parts = attempt[r].parts /\ attempt'[r].thrown = e
        /\ attempt'[r].executed = attempt[r].executed /\ attempt'[r].end = attempt[r].end
        /\ attempt'[r].source = attempt[r].source /\ attempt'[r].live = still
    BY <2>0 DEF RunsOK, Attempt
  <2>4. attempt'[r].live => e = "other"
    BY <2>3
  <2>2. ~ToolWaits(attempt[r])
    BY <2>1 DEF ToolWaits
  <2> QED
    BY <2>1, <2>2, <2>3, <2>4, RunAssumption DEF Error
<1>16. CASE ReadThrows(r)
  BY <1>16 DEF ReadThrows, RunsOK, Attempt
<1>17. CASE Decide(r)
  <2>1. attempt[r].parts = <<>> => ~ToolWaits(attempt[r])
    BY DEF ToolWaits
  <2>2. ToolWaits(attempt'[r]) <=> ToolWaits(attempt[r])
    BY <1>17, DecideEffect DEF DecideEnds, ToolWaits
  <2>3. Raised(r) = None => attempt[r].thrown = None
    BY DEF Raised
  <2>4. /\ Failure(r, Raised(r)) = "credential" =>
             attempt[r].thrown = "credential" \/ attempt[r].thrown = None
        /\ Failure(r, "incomplete") # "credential"
    BY DEF Failure, Raised, RunsOK, Attempt
  <2>5. attempt[r].thrown # None \/ (~attempt[r].live /\ attempt[r].parts = <<>>)
    BY <1>17, DecideEffect DEF DecideEnds, TurnOver
  <2> QED
    BY <1>17, <2>1, <2>2, <2>3, <2>4, <2>5, DecideEffect DEF DecideEnds
<1>18. CASE Close(r)
  BY <1>18 DEF Close, RunsOK, Attempt
<1>19. CASE Detach(r) \/ DetachFails(r) \/ DestroySession(r)
  BY <1>19, LeaveEffect
<1>20. CASE Capture(r)
  BY <1>20 DEF Capture, RunsOK, Attempt
<1>23. CASE Dispose(r)
  BY <1>23, EndEffect DEF Dispose
<1> QED
  BY <1>1, <1>2, <1>3, <1>4, <1>5, <1>6, <1>7, <1>8, <1>9, <1>10, <1>11, <1>12, <1>13, <1>14, <1>15, <1>16, <1>17, <1>18, <1>19, <1>20, <1>23 DEF StepOf, Advance

-----------------------------------------------------------------------------
(* What threads and journal files hold are conversations. *)

\* Writing a conversation, or removing files, leaves only conversations.
LEMMA DiskType ==
  ASSUME NEW d, DiskOK(d)
  PROVE  /\ \A p, v : v \in Conversation => DiskOK(Put(d, p, v))
         /\ \A p : DiskOK(Without(d, p))
  BY DEF DiskOK, Put, Without

\* Giving a lease back leaves the files it is given, or removes some.
LEMMA LeaseBackType ==
  ASSUME NEW id, NEW d, DiskOK(d), LeaseBack(id, d) \/ LeaseKept(id, d) \/ MirrorKept(id, d)
  PROVE  DiskOK(disk')
  BY DiskType DEF LeaseBack, LeaseKept, MirrorKept

\* So does a session's end, and copying its journal.
LEMMA LeavesDiskType ==
  ASSUME NEW r \in Run, DiskOK(disk), NEW d \in Copies(r), Leaves(r, d)
  PROVE  DiskOK(disk')
<1>1. DiskOK(d)
  BY DiskType DEF Copies, DiskOK
<1> QED
  BY <1>1, LeaseBackType DEF Leaves, SessionOver, SessionRejects, Parks

\* Every step keeps the types of threads and journal files.
LEMMA ThreadsStep == RunsOK /\ ThreadsOK /\ [Next]_vars => ThreadsOK'
<1> SUFFICES ASSUME RunsOK, ThreadsOK, [Next]_vars PROVE ThreadsOK'
  OBVIOUS
<1>0. DiskOK(disk)
  BY DEF ThreadsOK
<1>j. ASSUME NEW r \in Run, Journal(r), UNCHANGED threadVars PROVE ThreadsOK'
  BY <1>0, <1>j, JournalledType, DiskType DEF Journal, ThreadsOK
<1>m. \A r \in Run : attempt[r].memory \in Conversation /\ attempt[r].id \in Id
                       /\ attempt[r].file \in File
  BY DEF RunsOK, Attempt
<1>1. ASSUME NEW r \in Run, Call(r) PROVE ThreadsOK'
  BY <1>1, RunAssumption DEF Call, Clone, ThreadsOK
<1>2. ASSUME NEW h \in Handle, Destroy(h) PROVE ThreadsOK'
  BY <1>0, <1>2, DiskType DEF Destroy, ThreadsOK
<1>3. ASSUME NEW r \in Run, SessionCreated(r) PROVE ThreadsOK'
  <2>1. DiskOK(WithJournal(r))
    BY <1>0, <1>m, DiskType DEF WithJournal
  <2>2. DiskOK(Put(WithJournal(r), <<Mirror(attempt[r].id), attempt[r].file>>,
                   attempt[r].memory))
    BY <1>m, <2>1, DiskType
  <2> QED
    BY <1>0, <1>3, <2>2 DEF SessionCreated, ThreadsOK
<1>11. ASSUME NEW r \in Run, SessionTaken(r) PROVE ThreadsOK'
  <2>1. DiskOK(WithJournal(r))
    BY <1>0, <1>m, DiskType DEF WithJournal
  <2> QED
    BY <1>11, <2>1 DEF SessionTaken, ThreadsOK
<1>4. ASSUME NEW r \in Run, EngineTool(r) PROVE ThreadsOK'
  BY <1>j, <1>4 DEF EngineTool
<1>5. ASSUME NEW r \in Run, EngineSubmits(r) PROVE ThreadsOK'
  BY <1>j, <1>5 DEF EngineSubmits
<1>6. ASSUME NEW r \in Run, EngineEnds(r) PROVE ThreadsOK'
  BY <1>j, <1>6 DEF EngineEnds
<1>7. ASSUME NEW r \in Run, Decide(r) PROVE ThreadsOK'
  <2>1. UNCHANGED <<continuation, unsaved, disk>>
    BY <1>7 DEF Decide
  <2>2. CASE UNCHANGED messages
    BY <2>1, <2>2 DEF ThreadsOK
  <2>3. CASE AppendThreadMessage(r)
    <3>1. \A t \in Thread : Append(messages[t], r) \in Seq(Run)
      BY DEF ThreadsOK, Conversation
    <3>2. messages' \in [Thread -> Seq(Run)]
      BY <2>3, <3>1 DEF AppendThreadMessage, ThreadsOK, Conversation
    <3> QED
      BY <2>1, <3>2 DEF ThreadsOK, Conversation
  <2> QED
    BY <1>7, <2>2, <2>3 DEF Decide, Ends
<1>8. ASSUME NEW r \in Run, Close(r) PROVE ThreadsOK'
  BY <1>8 DEF Close, ThreadsOK
<1>9. ASSUME NEW r \in Run, Detach(r) \/ DetachFails(r) \/ DestroySession(r) PROVE ThreadsOK'
  <2>1. DiskOK(disk')
    BY <1>0, <1>9, EndsLeave, LeavesDiskType
  <2>2. UNCHANGED <<messages, continuation>> /\ unsaved' \subseteq unsaved \cup {r}
    BY <1>9 DEF Detach, DetachFails, DestroySession, Persisted
  <2> QED
    BY <2>1, <2>2 DEF ThreadsOK
<1>10. ASSUME NEW r \in Run, Capture(r) PROVE ThreadsOK'
  <2> DEFINE file == JournalFile(r)
  <2>1. file \in DOMAIN disk =>
          [id |-> attempt[r].id, file |-> attempt[r].file, turns |-> disk[file]]
            \in [id : Id, file : File, turns : Conversation]
    BY <1>0, <1>m DEF DiskOK
  <2> HIDE DEF file
  <2> QED
    BY <1>10, <2>1 DEF Capture, ThreadsOK, file
<1>12. ASSUME NEW p \in parked, Evicted(p) PROVE ThreadsOK'
  <2>1. DiskOK(disk')
    BY <1>0, <1>12, LeaseBackType DEF Evicted
  <2> QED
    BY <1>12, <2>1 DEF Evicted, ThreadsOK
<1>13. ASSUME NEW r \in Run, Dispose(r) PROVE ThreadsOK'
  <2>1. UNCHANGED threadVars /\ DiskOK(disk')
    BY <1>0, <1>13, DiskType DEF Dispose
  <2> QED
    BY <2>1 DEF ThreadsOK
<1>14. ASSUME UNCHANGED <<threadVars, disk>> PROVE ThreadsOK'
  BY <1>14 DEF ThreadsOK
<1>15. ASSUME NEW r \in Run, Advance(r) PROVE ThreadsOK'
  <2>1. CASE \/ LockTurn(r) \/ AttemptBegins(r) \/ SandboxAcquired(r) \/ Reads(r)
             \/ \E e \in Kind(r) : AcquireFails(r, e) \/ CreateFails(r, e)
    BY <1>14, <2>1 DEF LockTurn, AttemptBegins, SandboxAcquired, Reads, AcquireFails, CreateFails
  <2> QED
    BY <1>3, <1>7, <1>8, <1>9, <1>10, <1>11, <1>13, <1>15, <2>1 DEF Advance
<1>16. ASSUME NEW r \in Run,
              \/ Abort(r) \/ ReadThrows(r)
              \/ \E e \in Kind(r) : EngineError(r, e) \/ StreamFails(r, e)
              \/ \E e \in Raises[r] \cap {"timeout", "lost"} : Denied(r, e)
       PROVE  ThreadsOK'
  BY <1>14, <1>16 DEF Abort, ReadThrows, EngineError, StreamFails, Denied
<1>17. CASE UNCHANGED vars
  BY <1>14, <1>17 DEF vars
<1> QED
  BY <1>1, <1>2, <1>4, <1>5, <1>6, <1>12, <1>15, <1>16, <1>17 DEF Next

-----------------------------------------------------------------------------
\* Every step keeps the invariant of every run.
LEMMA RunStep == LifecycleInv /\ [Next]_vars => \A q \in Run : RunInv(q)'
<1> SUFFICES ASSUME LifecycleInv, [Next]_vars, NEW q \in Run PROVE RunInv(q)'
  OBVIOUS
<1>0. RunsOK /\ RunInv(q)
  BY DEF LifecycleInv, TypeOK
<1>1. ASSUME NEW r \in Run, StepOf(r) PROVE RunInv(q)'
  <2>1. CASE r = q
    BY <1>0, <1>1, <2>1, PlaceStep, FirstStep, EffectsStep DEF RunInv
  <2>2. CASE r # q
    BY <1>0, <1>1, <2>2, Elsewhere, Untouched
  <2> QED
    BY <2>1, <2>2
<1>2. ASSUME NEW h \in Handle, Destroy(h) PROVE RunInv(q)'
  <2>1. UnchangedAt(q)
    BY <1>2 DEF Destroy, UnchangedAt
  <2> QED
    BY <1>0, <2>1, Untouched
<1>3. CASE UNCHANGED vars
  <2>1. UnchangedAt(q)
    BY <1>3 DEF vars, UnchangedAt
  <2> QED
    BY <1>0, <2>1, Untouched
<1>4. ASSUME NEW p \in parked, Evicted(p) PROVE RunInv(q)'
  <2>1. UnchangedAt(q)
    BY <1>0, <1>4, EvictedType DEF UnchangedAt
  <2> QED
    BY <1>0, <2>1, Untouched
<1> QED
  BY <1>1, <1>2, <1>3, <1>4 DEF Next, StepOf

\* The invariant holds at first.
LEMMA InitLifecycle == Init => LifecycleInv
<1> SUFFICES ASSUME Init PROVE LifecycleInv
  OBVIOUS
<1>1. Fresh(1) \in Attempt
  BY FreshType
<1>2. RunsOK
  BY <1>1 DEF Init, RunsOK, SetUp
<1>3. ThreadsOK
  BY DEF Init, ThreadsOK, DiskOK, Conversation
<1>4. ASSUME NEW r \in Run PROVE RunInv(r)
  <2>1. /\ pc[r] = "idle" /\ attempt[r] = Fresh(1) /\ outcome[r] = None
        /\ r \notin aborted /\ first[r] = None /\ effects[r] = {} /\ r \notin session
    BY DEF Init
  <2> QED
    BY <2>1, FreshFields, RunAssumption
    DEF RunInv, PlaceInv, FirstInv, EffectsInv, SetUp, CleanUp
<1> QED
  BY <1>2, <1>3, <1>4 DEF LifecycleInv, TypeOK

\* Every step keeps the invariant.
LEMMA LifecycleStep == LifecycleInv /\ [Next]_vars => LifecycleInv'
  BY RunsStep, ThreadsStep, RunStep DEF LifecycleInv, TypeOK, RunInv

\* The invariant holds in every reachable state.
THEOREM LifecycleInvariant == Spec => []LifecycleInv
  BY InitLifecycle, LifecycleStep, PTL DEF Spec

\* Every variable but the lock's chains and the owned sandboxes keeps its type.
THEOREM LifecycleTypeCorrect == Spec => []TypeOK
<1>1. LifecycleInv => TypeOK
  BY DEF LifecycleInv
<1> QED
  BY <1>1, LifecycleInvariant, PTL

\* Whatever the order of submissions, cancellations, denials and errors, what
\* came first has decided the run: runtime.ts accepts a submission or honours
\* the cancellation, never both.
THEOREM OutcomeIsJustified == Spec => []OutcomeJustified
<1>1. LifecycleInv => OutcomeJustified
  <2> SUFFICES ASSUME LifecycleInv, NEW r \in Run,
                      NEW ends, ends = {outcome[r], attempt[r].end} \ {None}
               PROVE  /\ "result" \in ends => first[r] # "abort"
                      /\ "result" \in ends /\ r \in Schema => first[r] = "submit"
                      /\ ends # {} /\ first[r] = "submit" => ends = {"result"}
                      /\ outcome[r] = "destroyed" => HandleOf[r] \in destroyed
    BY DEF OutcomeJustified
  <2>1. PlaceInv(r) /\ FirstInv(r)
    BY DEF LifecycleInv, RunInv
  <2>2. outcome[r] = None \/ attempt[r].end = None
    BY <2>1 DEF PlaceInv, CleanUp
  <2> QED
    BY <2>1, <2>2, RunAssumption DEF FirstInv
<1> QED
  BY <1>1, LifecycleInvariant, PTL

\* However many sources the credentials chain has, the tools of a run run on
\* one of them.
THEOREM ToolsRunOnOneSource == Spec => []EffectsOnce
<1>1. LifecycleInv => EffectsOnce
  BY DEF LifecycleInv, RunInv, EffectsInv, EffectsOnce
<1> QED
  BY <1>1, LifecycleInvariant, PTL

-----------------------------------------------------------------------------
(* What runs hold: sandboxes, sessions, journals, the locks of handles.     *)

\* A run holds what it has acquired and not given back.
HoldInv(r) ==
  /\ pc[r] \in {"idle", "queued", "begin", "acquire", "done"} => r \notin box
  /\ HandleOf[r] = None /\ pc[r] \notin {"idle", "queued", "begin", "acquire", "done"} => r \in box
  /\ pc[r] \in {"turn", "closing", "detach", "destroy"} => r \in session
  /\ HandleOf[r] = None /\ r \notin box => \A k \in DOMAIN disk : k[1] # Box(r)

\* Somebody has the mirror of the session id, or it could not be removed.
Accounted(i) ==
  \/ i \in stuck \cup litter
  \/ \E q \in session : attempt[q].id = i
  \/ \E p \in parked : p.id = i

\* So it is with every journal on the host.
HostInv ==
  \A k \in DOMAIN disk : k[1][1] = "host" => \E i \in Id : k[1] = Mirror(i) /\ Accounted(i)

\* What is parked has been given its result while its turn went on.
ParkedInv == \A p \in parked : p.run \in Schema /\ first[p.run] = "submit"

\* The chain of a handle holds each call once, and only calls not yet settled.
ChainInv(h) ==
  LET chain == lockQueue[h] IN
  /\ \A i \in 1..Len(chain) :
       /\ chain[i] \in Locked /\ HandleOf[chain[i]] = h
       /\ pc[chain[i]] \notin {"idle", "done"}
  /\ \A i, j \in 1..Len(chain) : chain[i] = chain[j] => i = j

\* A call that has not settled is in its chain, at the head if it is under way.
LockInv(r) ==
  /\ pc[r] = "queued" => r \in Locked
  /\ r \in Locked /\ pc[r] \notin {"idle", "done"} =>
       \E i \in 1..Len(lockQueue[HandleOf[r]]) :
          /\ lockQueue[HandleOf[r]][i] = r
          /\ pc[r] # "queued" => i = 1

LocksInv ==
  /\ lockQueue \in [Handle -> Seq(Run)]
  /\ \A r \in Run : LockInv(r)
  /\ \A h \in Handle : ChainInv(h)

HoldingInv ==
  LifecycleInv /\ (\A r \in Run : HoldInv(r)) /\ HostInv /\ ParkedInv /\ LocksInv

\* Places are told apart by their kind and by what they belong to.
LEMMA Places ==
  /\ \A r \in Run, i \in Id : Mirror(i) # Box(r)
  /\ \A r \in Run : Box(r)[1] = "sandbox"
  /\ \A i \in Id : Mirror(i)[1] = "host"
  /\ \A r, q \in Run : HandleOf[q] = None /\ Box(q) = Box(r) => q = r
<1> USE RunAssumption DEF Mirror, Box
<1>1. \A r \in Run, i \in Id : Mirror(i) # Box(r)
  OBVIOUS
<1>2. \A r \in Run : Box(r)[1] = "sandbox"
  OBVIOUS
<1>3. \A i \in Id : Mirror(i)[1] = "host"
  OBVIOUS
<1>4. \A r, q \in Run : HandleOf[q] = None /\ Box(q) = Box(r) => q = r
  OBVIOUS
<1> QED
  BY <1>1, <1>2, <1>3, <1>4

\* The journal files that a step of run r may write, and may remove.
Writes(r, k) ==
  \/ /\ k = <<Mirror(attempt[r].id), attempt[r].file>>
     /\ r \in session \/ pc[r] = "create"
     /\ r \in session'
  \/ /\ k = <<Box(r), attempt[r].file>>
     /\ pc[r] = "create" /\ pc'[r] = "turn" /\ attempt[r].file # None
     /\ HandleOf[r] \notin destroyed
  \/ /\ k = <<attempt[r].home, attempt[r].file>>
     /\ pc[r] = "detach" /\ pc'[r] \in {"capture", "dispose"}
     /\ \E x \in box \cup (Handle \ destroyed) : attempt[r].home = <<"sandbox", x>>

Removes(r, k) ==
  \/ /\ k[1] = Mirror(attempt[r].id)
     /\ r \in session => r \notin session'
     /\ pc[r] \in {"detach", "destroy"}
     /\ \A q \in session \ {r} : attempt[q].id # attempt[r].id
  \/ k[1] = Box(r) /\ HandleOf[r] = None /\ pc[r] = "dispose"

DiskChange(r) ==
  /\ \A k \in DOMAIN disk' : (k \in DOMAIN disk /\ disk'[k] = disk[k]) \/ Writes(r, k)
  /\ \A k \in DOMAIN disk : k \in DOMAIN disk' \/ Removes(r, k)

\* A lease that is given back takes the mirror along if it was the last one,
\* unless the mirror cannot be removed.
LEMMA LeaseBackEffect ==
  ASSUME NEW id, NEW d, LeaseBack(id, d) \/ LeaseKept(id, d) \/ MirrorKept(id, d)
  PROVE  /\ \A k \in DOMAIN disk' : k \in DOMAIN d /\ disk'[k] = d[k]
         /\ \A k \in DOMAIN d : k \in DOMAIN disk' \/ (k[1] = Mirror(id) /\ ~Held(id))
         /\ \A i \in litter : i \in litter' \/ i = id
         /\ \/ Held(id) \/ id \in litter'
            \/ \A k \in DOMAIN disk' : k[1] # Mirror(id)
<1>1. CASE LeaseBack(id, d) /\ ~Held(id)
  <2>1. disk' = Without(d, Mirror(id)) /\ litter' = litter \ {id}
    BY <1>1 DEF LeaseBack
  <2> DEFINE m == Mirror(id)
  <2>2. /\ DOMAIN disk' = {k \in DOMAIN d : k[1] # m}
        /\ \A k \in DOMAIN disk' : disk'[k] = d[k]
    BY <2>1 DEF Without
  <2> HIDE DEF m
  <2> QED
    BY <1>1, <2>1, <2>2 DEF m
<1>2. CASE LeaseBack(id, d) /\ Held(id)
  BY <1>2 DEF LeaseBack
<1>3. CASE LeaseKept(id, d)
  BY <1>3 DEF LeaseKept, Held
<1>4. CASE MirrorKept(id, d)
  BY <1>4 DEF MirrorKept
<1> QED
  BY <1>1, <1>2, <1>3, <1>4

\* Somebody has the mirror of the id after the step, or it could not be removed.
AccountedNext(i) == i \in litter' \/ Held(i)

\* The end of a session changes no more files than it is given, but removes its
\* mirror if nobody else has it.
LEMMA LeavesEffect ==
  ASSUME RunsOK, NEW r \in Run, NEW d, Leaves(r, d), pc[r] \in {"detach", "destroy"}
  PROVE  /\ \A k \in DOMAIN disk' : k \in DOMAIN d /\ disk'[k] = d[k]
         /\ \A k \in DOMAIN d : k \in DOMAIN disk' \/ Removes(r, k)
         /\ \A i : Accounted(i) =>
              AccountedNext(i) \/ \A k \in DOMAIN disk' : k[1] # Mirror(i)
<1> DEFINE id == attempt[r].id
<1>0. session' = session \ {r}
  BY LeavesType
<1>1. /\ stuck \subseteq stuck'
      /\ \A p \in parked : p \in parked' \/ (p.id = id /\ p \in SameKey(r))
  BY DEF Leaves, SessionOver, SessionRejects, LeaseKept, Parks, SameKey, Waiting
<1>2. CASE LeaseBack(id, d) \/ LeaseKept(id, d) \/ MirrorKept(id, d)
  <2>1. ~Held(id) => \A k : k[1] = Mirror(id) => Removes(r, k)
    BY <1>0 DEF Held, Removes
  <2>2. /\ \A i \in litter : i \in litter' \/ i = id
        /\ AccountedNext(id) \/ \A k \in DOMAIN disk' : k[1] # Mirror(id)
    BY <1>2, LeaseBackEffect DEF AccountedNext
  <2>3. \A i : Accounted(i) /\ i # id => AccountedNext(i)
    BY <1>0, <1>1, <2>2 DEF Accounted, AccountedNext, Held
  <2> QED
    BY <1>2, <2>1, <2>2, <2>3, LeaseBackEffect
<1>3. CASE Parks(r, d)
  <2> DEFINE p == [run |-> r, id |-> id, file |-> attempt[r].file,
                   memory |-> attempt[r].memory, home |-> attempt[r].home]
  <2>0. p \in parked' /\ p.id = id
    BY <1>3 DEF Parks
  <2> HIDE DEF p
  <2>1. disk' = d /\ litter' = litter /\ \E q \in parked' : q.id = id
    BY <1>3, <2>0 DEF Parks
  <2>2. \A i : Accounted(i) => AccountedNext(i)
    BY <1>0, <1>1, <2>1 DEF Accounted, AccountedNext, Held
  <2> QED
    BY <2>1, <2>2
<1> QED
  BY <1>2, <1>3 DEF Leaves, SessionOver, SessionRejects

\* So it is when a parked session is destroyed.
LEMMA EvictedEffect ==
  ASSUME RunsOK, NEW p \in parked, Evicted(p)
  PROVE  /\ \A k \in DOMAIN disk' : k \in DOMAIN disk /\ disk'[k] = disk[k]
         /\ \A k \in DOMAIN disk : k \in DOMAIN disk' \/
              (k[1] = Mirror(p.id) /\ \A q \in session : attempt[q].id # p.id)
         /\ \A i : Accounted(i) =>
              AccountedNext(i) \/ \A k \in DOMAIN disk' : k[1] # Mirror(i)
<1>1. session' = session /\ stuck \subseteq stuck' /\ parked' = parked \ {p}
  BY DEF Evicted, LeaseKept
<1>2. LeaseBack(p.id, disk) \/ LeaseKept(p.id, disk) \/ MirrorKept(p.id, disk)
  BY DEF Evicted
<1>3. /\ \A i \in litter : i \in litter' \/ i = p.id
      /\ AccountedNext(p.id) \/ \A k \in DOMAIN disk' : k[1] # Mirror(p.id)
  BY <1>2, LeaseBackEffect DEF AccountedNext
<1>4. \A i : Accounted(i) /\ i # p.id => AccountedNext(i)
  BY <1>1, <1>3 DEF Accounted, AccountedNext, Held
<1>5. ~Held(p.id) => \A q \in session : attempt[q].id # p.id
  BY <1>1 DEF Held
<1> QED
  BY <1>2, <1>3, <1>4, <1>5, LeaseBackEffect

\* The files that a session's end is given: those that are there, and perhaps
\* the journal in the session's sandbox.
LEMMA EndsLeaveCopied ==
  ASSUME RunsOK, NEW r \in Run, Detach(r) \/ DetachFails(r) \/ DestroySession(r)
  PROVE  \E d : /\ Leaves(r, d)
                /\ \A k \in DOMAIN d : (k \in DOMAIN disk /\ d[k] = disk[k]) \/ Writes(r, k)
                /\ DOMAIN disk \subseteq DOMAIN d
<1>1. ASSUME NEW d, Persisted(r, d), pc[r] = "detach", pc'[r] \in {"capture", "dispose"}
      PROVE  /\ \A k \in DOMAIN d : (k \in DOMAIN disk /\ d[k] = disk[k]) \/ Writes(r, k)
             /\ DOMAIN disk \subseteq DOMAIN d
  <2> DEFINE from == <<Mirror(attempt[r].id), attempt[r].file>>
             to == <<attempt[r].home, attempt[r].file>>
             there == \E x \in box \cup (Handle \ destroyed) : attempt[r].home = <<"sandbox", x>>
  <2>1. d = disk \/ (d = Put(disk, to, disk[from]) /\ there)
    BY <1>1 DEF Persisted
  <2>2. there => Writes(r, to)
    BY <1>1 DEF Writes
  <2> HIDE DEF to, there
  <2> QED
    BY <2>1, <2>2 DEF Put
<1>2. CASE Detach(r)
  <2>1. pc[r] = "detach" /\ pc'[r] = "capture"
    BY <1>2 DEF Detach, RunsOK
  <2> QED
    BY <1>1, <1>2, <2>1 DEF Detach, Leaves
<1>3. CASE DetachFails(r)
  <2>1. pc[r] = "detach" /\ pc'[r] = "dispose"
    BY <1>3 DEF DetachFails, RunsOK
  <2> QED
    BY <1>1, <1>3, <2>1 DEF DetachFails, Leaves
<1>4. CASE DestroySession(r)
  BY <1>4 DEF DestroySession, Leaves
<1> QED
  BY <1>2, <1>3, <1>4

\* No step of a run changes other journal files than these.
LEMMA DiskEffect ==
  ASSUME RunsOK, NEW r \in Run, StepOf(r)
  PROVE  DiskChange(r)
<1>0. ASSUME UNCHANGED disk PROVE DiskChange(r)
  BY <1>0 DEF DiskChange
<1>1. ASSUME Engine(r), Journal(r), UNCHANGED session PROVE DiskChange(r)
  <2> DEFINE p == <<Mirror(attempt[r].id), attempt[r].file>>
  <2>1. disk' = Put(disk, p, Journalled(r)) /\ Writes(r, p)
    BY <1>1 DEF Journal, Engine, Writes
  <2> HIDE DEF p
  <2>2. /\ DOMAIN disk' = DOMAIN disk \cup {p}
        /\ \A k \in DOMAIN disk \ {p} : disk'[k] = disk[k]
    BY <2>1 DEF Put
  <2> QED
    BY <2>1, <2>2 DEF DiskChange
<1>2. CASE SessionCreated(r)
  <2>1. /\ pc[r] = "create" /\ pc' = [pc EXCEPT ![r] = "turn"] /\ HandleOf[r] \notin destroyed
        /\ session' = session \cup {r}
    BY <1>2 DEF SessionCreated
  <2>2. CASE attempt[r].file # None
    <3> DEFINE k1 == <<Mirror(attempt[r].id), attempt[r].file>>
               k2 == <<Box(r), attempt[r].file>>
    <3>1. disk' = Put(WithJournal(r), k1, attempt[r].memory)
      BY <1>2, <2>2 DEF SessionCreated
    <3>2. Writes(r, k1) /\ Writes(r, k2)
      BY <2>1, <2>2 DEF Writes, RunsOK
    <3>3. WithJournal(r) = Put(disk, k2, attempt[r].memory)
      BY DEF WithJournal, JournalFile
    <3> HIDE DEF k1, k2
    <3>4. /\ DOMAIN WithJournal(r) = DOMAIN disk \cup {k2}
          /\ \A k \in DOMAIN disk \ {k2} : WithJournal(r)[k] = disk[k]
      BY <3>3 DEF Put
    <3>5. /\ DOMAIN disk' = DOMAIN WithJournal(r) \cup {k1}
          /\ \A k \in DOMAIN WithJournal(r) \ {k1} : disk'[k] = WithJournal(r)[k]
      BY <3>1 DEF Put
    <3> QED
      BY <3>2, <3>4, <3>5 DEF DiskChange
  <2>3. CASE attempt[r].file = None
    BY <1>0, <1>2, <2>3 DEF SessionCreated
  <2> QED
    BY <2>2, <2>3
<1>9. CASE SessionTaken(r)
  <2> DEFINE k2 == <<Box(r), attempt[r].file>>
  <2>1. /\ pc[r] = "create" /\ pc'[r] = "turn" /\ HandleOf[r] \notin destroyed
        /\ attempt[r].file # None
    BY <1>9, SessionEffect DEF SessionTaken, Resumable
  <2>2. disk' = Put(disk, k2, attempt[r].memory) /\ Writes(r, k2)
    BY <1>9, <2>1 DEF SessionTaken, WithJournal, JournalFile, Writes
  <2> HIDE DEF k2
  <2> QED
    BY <2>2 DEF DiskChange, Put
<1>3. CASE Detach(r) \/ DetachFails(r) \/ DestroySession(r)
  <2>1. pc[r] \in {"detach", "destroy"}
    BY <1>3, LeaveEffect
  <2>2. PICK d : /\ Leaves(r, d)
                 /\ \A k \in DOMAIN d : (k \in DOMAIN disk /\ d[k] = disk[k]) \/ Writes(r, k)
                 /\ DOMAIN disk \subseteq DOMAIN d
    BY <1>3, EndsLeaveCopied
  <2> QED
    BY <2>1, <2>2, LeavesEffect DEF DiskChange
<1>5. CASE Dispose(r)
  <2>1. CASE HandleOf[r] = None
    <3>1. disk' = Without(disk, Box(r)) /\ pc[r] = "dispose"
      BY <1>5, <2>1 DEF Dispose
    <3>2. /\ DOMAIN disk' = {k \in DOMAIN disk : k[1] # Box(r)}
          /\ \A k \in DOMAIN disk' : disk'[k] = disk[k]
      BY <3>1 DEF Without
    <3> QED
      BY <2>1, <3>1, <3>2 DEF DiskChange, Removes
  <2>2. CASE HandleOf[r] # None
    BY <1>0, <1>5, <2>2 DEF Dispose
  <2> QED
    BY <2>1, <2>2
<1>6. CASE EngineTool(r) \/ EngineSubmits(r) \/ EngineEnds(r)
  BY <1>1, <1>6 DEF EngineTool, EngineSubmits, EngineEnds
<1>7. CASE \/ Call(r) \/ Abort(r) \/ LockTurn(r) \/ AttemptBegins(r) \/ SandboxAcquired(r)
           \/ Reads(r) \/ ReadThrows(r) \/ Decide(r) \/ Close(r) \/ Capture(r)
  BY <1>0, <1>7
  DEF Call, Abort, LockTurn, AttemptBegins, SandboxAcquired, Reads, ReadThrows, Decide, Close,
      Capture
<1>8. ASSUME NEW e, AcquireFails(r, e) \/ CreateFails(r, e) \/ EngineError(r, e)
                    \/ StreamFails(r, e) \/ Denied(r, e)
      PROVE  DiskChange(r)
  BY <1>0, <1>8 DEF AcquireFails, CreateFails, EngineError, StreamFails, Denied
<1> QED
  BY <1>2, <1>3, <1>5, <1>6, <1>7, <1>8, <1>9 DEF StepOf, Advance

-----------------------------------------------------------------------------
(* Every step keeps what runs hold in order. *)

\* An attempt keeps its session id while its session may be open.
LEMMA IdStays ==
  ASSUME RunsOK, NEW r \in Run, StepOf(r),
         pc[r] \in {"create", "turn", "closing", "detach", "capture", "destroy"}
  PROVE  attempt'[r].id = attempt[r].id
<1> USE DEF RunsOK, Attempt
<1>1. CASE Abort(r) \/ Close(r) \/ Capture(r)
  BY <1>1 DEF Abort, Close, Capture
<1>2. CASE SessionCreated(r) \/ SessionTaken(r)
  <2>1. CASE SessionCreated(r)
    BY <2>1 DEF SessionCreated
  <2>2. CASE SessionTaken(r)
    BY <2>2 DEF SessionTaken
  <2> QED
    BY <1>2, <2>1, <2>2
<1>3. ASSUME NEW e, CreateFails(r, e) \/ EngineError(r, e) \/ StreamFails(r, e) \/ Denied(r, e)
      PROVE  attempt'[r].id = attempt[r].id
  BY <1>3 DEF CreateFails, EngineError, StreamFails, Denied
<1>4. CASE EngineTool(r) \/ EngineSubmits(r) \/ EngineEnds(r)
  BY <1>4 DEF EngineTool, EngineSubmits, EngineEnds
<1>5. CASE Reads(r) \/ ReadThrows(r)
  BY <1>5 DEF Reads, ReadThrows
<1>6. CASE Decide(r)
  BY <1>6 DEF Decide, Ends
<1>7. CASE Detach(r) \/ DetachFails(r) \/ DestroySession(r)
  BY <1>7 DEF Detach, DetachFails, DestroySession
<1>8. CASE Call(r) \/ LockTurn(r) \/ AttemptBegins(r) \/ SandboxAcquired(r) \/ Dispose(r)
  BY <1>8 DEF Call, LockTurn, AttemptBegins, SandboxAcquired, Dispose
<1>9. ASSUME NEW e, AcquireFails(r, e) PROVE attempt'[r].id = attempt[r].id
  BY <1>9 DEF AcquireFails
<1> QED
  BY <1>1, <1>2, <1>3, <1>4, <1>5, <1>6, <1>7, <1>8, <1>9 DEF StepOf, Advance

\* How a step moves a run, and what it takes and gives back.
Moves(r) ==
  \/ /\ pc'[r] = pc[r] /\ box' = box /\ session' = session
  \/ /\ pc[r] = "idle" /\ pc'[r] \in {"queued", "begin", "done"}
     /\ box' = box /\ session' = session
     /\ \A q \in After[r] : pc[q] = "done"
  \/ /\ pc[r] = "queued" /\ pc'[r] \in {"begin", "done"}
     /\ box' = box /\ session' = session
  \/ /\ pc[r] = "begin" /\ pc'[r] \in {"acquire", "begin", "done"}
     /\ box' = box /\ session' = session
  \/ /\ pc[r] = "acquire" /\ pc'[r] \in {"begin", "done"}
     /\ box' = box /\ session' = session
  \/ /\ pc[r] = "acquire" /\ pc'[r] = "create"
     /\ box' = (IF HandleOf[r] = None THEN box \cup {r} ELSE box) /\ session' = session
  \/ /\ pc[r] = "create" /\ pc'[r] = "turn"
     /\ box' = box /\ session' = session \cup {r}
  \/ /\ pc[r] = "create" /\ pc'[r] = "dispose"
     /\ box' = box /\ session' = session
  \/ /\ pc[r] = "turn" /\ pc'[r] \in {"turn", "closing"}
     /\ box' = box /\ session' = session
  \/ /\ pc[r] = "closing" /\ pc'[r] \in {"detach", "destroy"}
     /\ box' = box /\ session' = session
  \/ /\ \/ pc[r] = "detach" /\ pc'[r] \in {"capture", "dispose"}
        \/ pc[r] = "destroy" /\ pc'[r] = "dispose"
     /\ box' = box /\ session' = session \ {r}
  \/ /\ pc[r] = "capture" /\ pc'[r] = "dispose"
     /\ box' = box /\ session' = session
  \/ /\ pc[r] = "dispose" /\ pc'[r] \in {"begin", "done"}
     /\ box' = box \ {r} /\ session' = session
     /\ HandleOf[r] = None => \A k \in DOMAIN disk' : k[1] # Box(r)

\* Every step of a run moves it so.
LEMMA RunMoves == ASSUME RunsOK, NEW r \in Run, StepOf(r) PROVE Moves(r)
<1> USE DEF Moves
<1>0. ASSUME NEW end, AttemptEnds(r, end) PROVE pc'[r] \in {"begin", "done"}
  BY <1>0 DEF AttemptEnds, RunsOK
<1>1. CASE Call(r)
  <2>1. /\ pc[r] = "idle" /\ box' = box /\ session' = session
        /\ \A q \in After[r] : pc[q] = "done"
    BY <1>1 DEF Call
  <2>2. pc'[r] \in {"queued", "begin", "done"}
    BY <1>1, CallEffect
  <2> QED
    BY <2>1, <2>2
<1>2. CASE LockTurn(r)
  BY <1>2 DEF LockTurn, RunsOK
<1>3. CASE AttemptBegins(r)
  <2>1. pc[r] = "begin" /\ box' = box /\ session' = session
    BY <1>3 DEF AttemptBegins
  <2>2. pc'[r] \in {"acquire", "begin", "done"}
    BY <1>0, <1>3, BeginEffect
  <2> QED
    BY <2>1, <2>2
<1>4. CASE SandboxAcquired(r)
  BY <1>4 DEF SandboxAcquired, RunsOK
<1>5. ASSUME NEW e, AcquireFails(r, e) PROVE Moves(r)
  <2>1. pc[r] = "acquire" /\ box' = box /\ session' = session /\ AttemptEnds(r, e)
    BY <1>5 DEF AcquireFails
  <2> QED
    BY <1>0, <2>1
<1>6. CASE SessionCreated(r) \/ SessionTaken(r)
  <2>1. box' = box /\ session' = session \cup {r}
    BY <1>6 DEF SessionCreated, SessionTaken
  <2> QED
    BY <1>6, <2>1, SessionEffect
<1>7. ASSUME NEW e, CreateFails(r, e) PROVE Moves(r)
  BY <1>7 DEF CreateFails, RunsOK
<1>8. CASE Decide(r)
  <2>1. box' = box /\ session' = session
    BY <1>8 DEF Decide
  <2> QED
    BY <1>8, <2>1, DecideEffect DEF DecideEnds
<1>9. CASE Close(r)
  BY <1>9 DEF Close, RunsOK
<1>10. CASE Detach(r) \/ DetachFails(r) \/ DestroySession(r)
  <2>1. box' = box
    BY <1>10 DEF Detach, DetachFails, DestroySession
  <2> QED
    BY <1>10, <2>1, LeaveEffect
<1>12. CASE Capture(r)
  BY <1>12 DEF Capture, RunsOK
<1>13. CASE Dispose(r)
  <2>1. pc[r] = "dispose" /\ box' = box \ {r} /\ session' = session
        /\ AttemptEnds(r, attempt[r].end)
    BY <1>13 DEF Dispose
  <2>2. HandleOf[r] = None => \A k \in DOMAIN disk' : k[1] # Box(r)
    BY <1>13 DEF Dispose, Without
  <2> QED
    BY <1>0, <2>1, <2>2
<1>14. CASE Abort(r) \/ Reads(r) \/ ReadThrows(r) \/ EngineTool(r) \/ EngineSubmits(r)
             \/ EngineEnds(r)
  BY <1>14 DEF Abort, Reads, ReadThrows, EngineTool, EngineSubmits, EngineEnds
<1>15. ASSUME NEW e, EngineError(r, e) \/ StreamFails(r, e) \/ Denied(r, e) PROVE Moves(r)
  BY <1>15 DEF EngineError, StreamFails, Denied
<1> QED
  BY <1>1, <1>2, <1>3, <1>4, <1>5, <1>6, <1>7, <1>8, <1>9, <1>10, <1>12, <1>13, <1>14, <1>15 DEF StepOf, Advance

\* A run's step keeps what each run holds in order.
LEMMA HoldStep ==
  ASSUME RunsOK, NEW r \in Run, StepOf(r), \A q \in Run : RunInv(q) /\ HoldInv(q), NEW q \in Run
  PROVE  HoldInv(q)'
<1>0. Moves(r) /\ DiskChange(r) /\ RunInv(r) /\ HoldInv(r) /\ HoldInv(q)
  BY RunMoves, DiskEffect
<1>1. attempt[r].id \in Id
  BY DEF RunsOK, Attempt
<1>2. ASSUME HandleOf[q] = None, q \notin box', NEW k \in DOMAIN disk'
      PROVE  k[1] # Box(q)
  <2>0. Box(q) = <<"sandbox", q>>
    BY <1>2 DEF Box
  <2>1. CASE q \in box
    <3>1. q = r /\ pc[r] = "dispose"
      BY <1>0, <1>2, <2>1 DEF Moves
    <3> QED
      BY <1>0, <1>2, <3>1 DEF Moves, HoldInv
  <2>2. CASE q \notin box
    <3>1. k \in DOMAIN disk => k[1] # Box(q)
      BY <1>0, <1>2, <2>2 DEF HoldInv
    <3>2. ASSUME k = <<Box(r), attempt[r].file>>, pc[r] = "create" PROVE k[1] # Box(q)
      <4>1. Box(q) = Box(r) => q = r
        BY <1>2, Places
      <4>2. q # r
        BY <1>0, <1>2, <2>2, <3>2 DEF HoldInv
      <4> QED
        BY <3>2, <4>1, <4>2
    <3>3. ASSUME k = <<attempt[r].home, attempt[r].file>>,
                 NEW x \in box \cup (Handle \ destroyed), attempt[r].home = <<"sandbox", x>>
          PROVE  k[1] # Box(q)
      <4>1. x # q
        BY <2>2, RunAssumption
      <4> QED
        BY <2>0, <3>3, <4>1
    <3> QED
      BY <1>0, <1>1, <3>1, <3>2, <3>3, Places DEF DiskChange, Writes
  <2> QED
    BY <2>1, <2>2
<1>3. CASE q = r
  <2>1. pc'[q] \in {"idle", "queued", "begin", "acquire", "done"} => q \notin box'
    BY <1>0, <1>3 DEF Moves, HoldInv
  <2>2. pc'[q] \in {"turn", "closing", "detach", "destroy"} => q \in session'
    BY <1>0, <1>3 DEF Moves, HoldInv
  <2>3. HandleOf[q] = None /\ pc'[q] \notin {"idle", "queued", "begin", "acquire", "done"} =>
          q \in box'
    BY <1>0, <1>3 DEF Moves, HoldInv
  <2> QED
    BY <1>2, <2>1, <2>2, <2>3 DEF HoldInv, Box
<1>4. CASE q # r
  <2>1. pc'[q] = pc[q] /\ (q \in session' <=> q \in session)
    BY <1>4, Elsewhere DEF UnchangedAt
  <2>2. q \in box' <=> q \in box
    BY <1>0, <1>4 DEF Moves
  <2> QED
    BY <1>0, <1>2, <2>1, <2>2 DEF HoldInv, Box
<1> QED
  BY <1>3, <1>4

\* After a run's step a mirror that somebody had is somebody's, or is gone, or
\* could not be removed.
LEMMA AccountedStep ==
  ASSUME RunsOK, NEW r \in Run, StepOf(r), NEW i, Accounted(i)
  PROVE  AccountedNext(i) \/ \A k \in DOMAIN disk' : k[1] # Mirror(i)
<1>1. ASSUME UNCHANGED <<parked, stuck, litter>>, session \subseteq session' PROVE AccountedNext(i)
  BY <1>1 DEF Accounted, AccountedNext, Held
<1>2. CASE SessionCreated(r)
  BY <1>1, <1>2 DEF SessionCreated
<1>3. CASE SessionTaken(r)
  <2>1. PICK p \in Resumable(r) : parked' = parked \ {p}
    BY <1>3 DEF SessionTaken
  <2>2. session' = session \cup {r} /\ UNCHANGED <<stuck, litter>>
    BY <1>3 DEF SessionTaken
  <2>3. p.id = attempt[r].id
    BY DEF Resumable, Waiting
  <2> QED
    BY <2>1, <2>2, <2>3 DEF Accounted, AccountedNext, Held
<1>4. CASE Detach(r) \/ DetachFails(r) \/ DestroySession(r)
  <2>1. pc[r] \in {"detach", "destroy"}
    BY <1>4, LeaveEffect
  <2> QED
    BY <1>4, <2>1, EndsLeave, LeavesEffect
<1>5. CASE \/ Call(r) \/ Abort(r) \/ LockTurn(r) \/ AttemptBegins(r) \/ SandboxAcquired(r)
           \/ Reads(r) \/ ReadThrows(r) \/ Decide(r) \/ Close(r) \/ Capture(r) \/ Dispose(r)
           \/ EngineTool(r) \/ EngineSubmits(r) \/ EngineEnds(r)
  BY <1>1, <1>5
  DEF Call, Abort, LockTurn, AttemptBegins, SandboxAcquired, Reads, ReadThrows, Decide, Close,
      Capture, Dispose, EngineTool, EngineSubmits, EngineEnds
<1>6. ASSUME NEW e, AcquireFails(r, e) \/ CreateFails(r, e) \/ EngineError(r, e)
                    \/ StreamFails(r, e) \/ Denied(r, e)
      PROVE  AccountedNext(i)
  BY <1>1, <1>6 DEF AcquireFails, CreateFails, EngineError, StreamFails, Denied
<1> QED
  BY <1>2, <1>3, <1>4, <1>5, <1>6 DEF StepOf, Advance

\* A run's step leaves no mirror on the host that nobody has, unless removing
\* it fails.
LEMMA HostStep ==
  ASSUME RunsOK, NEW r \in Run, StepOf(r), \A q \in Run : PlaceInv(q), HostInv
  PROVE  HostInv'
<1> SUFFICES ASSUME NEW k \in DOMAIN disk', k[1][1] = "host"
             PROVE  \E i \in Id : k[1] = Mirror(i) /\ Accounted(i)'
  BY DEF HostInv, Mirror
<1>0. DiskChange(r) /\ Moves(r) /\ attempt[r].id \in Id /\ attempt[r].home \in Home
      /\ session \subseteq Run
  BY DiskEffect, RunMoves, Fields DEF RunsOK
<1>1. ASSUME NEW i \in Id, k[1] = Mirror(i), AccountedNext(i) PROVE Accounted(i)'
  <2>1. ASSUME NEW q \in session' PROVE attempt'[q].id = attempt[q].id
    <3>1. CASE q # r
      <4>1. q \in Run
        BY <1>0, <2>1, <3>1 DEF Moves
      <4> QED
        BY <3>1, <4>1, Elsewhere DEF UnchangedAt
    <3>2. CASE q = r
      <4>1. pc[r] \in {"create", "turn", "closing", "detach", "destroy"}
        BY <1>0, <2>1, <3>2 DEF Moves, PlaceInv
      <4> QED
        BY <3>2, <4>1, IdStays
    <3> QED
      BY <3>1, <3>2
  <2> QED
    BY <1>1, <2>1 DEF Accounted, AccountedNext, Held
<1>2. CASE k \in DOMAIN disk
  <2>1. PICK i \in Id : k[1] = Mirror(i) /\ Accounted(i)
    BY <1>2 DEF HostInv
  <2> QED
    BY <1>1, <2>1, AccountedStep
<1>3. CASE Writes(r, k)
  <2>1. k[1] = Mirror(attempt[r].id) /\ r \in session'
    <3>1. CASE k = <<Box(r), attempt[r].file>>
      BY <3>1, Places
    <3>2. ASSUME k = <<attempt[r].home, attempt[r].file>>, NEW x, attempt[r].home = <<"sandbox", x>>
          PROVE  FALSE
      BY <3>2
    <3> QED
      BY <1>3, <3>1, <3>2 DEF Writes
  <2>2. AccountedNext(attempt[r].id)
    BY <2>1 DEF AccountedNext, Held
  <2> QED
    BY <1>0, <1>1, <2>1, <2>2
<1> QED
  BY <1>0, <1>2, <1>3 DEF DiskChange

\* How a run's step changes what is parked.
Mine(r) ==
  [run |-> r, id |-> attempt[r].id, file |-> attempt[r].file,
   memory |-> attempt[r].memory, home |-> attempt[r].home]

ParkedMove(r) ==
  \/ parked' = parked
  \/ pc[r] \in {"detach", "destroy"} /\ parked' = parked \ SameKey(r)
  \/ /\ pc[r] = "detach" /\ pc'[r] = "capture" /\ attempt[r].live
     /\ parked' = (parked \ SameKey(r)) \cup {Mine(r)}
  \/ /\ pc[r] = "create" /\ pc'[r] = "turn"
     /\ \E p \in Resumable(r) :
          parked' = parked \ {p} /\ attempt'[r].memory = p.memory /\ attempt'[r].home = p.home

LEMMA ParkedMoves ==
  ASSUME RunsOK, NEW r \in Run, StepOf(r)
  PROVE  ParkedMove(r)
<1> USE DEF ParkedMove
<1>1. CASE Detach(r)
  <2>1. pc[r] = "detach" /\ pc'[r] = "capture"
    BY <1>1 DEF Detach, RunsOK
  <2>2. PICK d : IF attempt[r].live THEN Parks(r, d) ELSE SessionOver(r, d)
    BY <1>1 DEF Detach
  <2> QED
    BY <2>1, <2>2 DEF Parks, SessionOver, Mine
<1>2. CASE DetachFails(r)
  BY <1>2 DEF DetachFails, SessionRejects
<1>3. CASE DestroySession(r)
  BY <1>3 DEF DestroySession, SessionOver, SessionRejects
<1>4. CASE SessionCreated(r)
  BY <1>4 DEF SessionCreated
<1>5. CASE SessionTaken(r)
  <2>1. PICK p \in Resumable(r) :
          /\ parked' = parked \ {p}
          /\ attempt' = [attempt EXCEPT ![r].live = TRUE, ![r].home = p.home, ![r].memory = p.memory]
    BY <1>5 DEF SessionTaken
  <2>2. attempt'[r].memory = p.memory /\ attempt'[r].home = p.home
    BY <2>1 DEF RunsOK, Attempt
  <2>3. pc[r] = "create" /\ pc'[r] = "turn"
    BY <1>5, SessionEffect
  <2> QED
    BY <2>1, <2>2, <2>3
<1>6. CASE \/ Call(r) \/ Abort(r) \/ LockTurn(r) \/ AttemptBegins(r) \/ SandboxAcquired(r)
           \/ Reads(r) \/ ReadThrows(r) \/ Decide(r) \/ Close(r) \/ Capture(r) \/ Dispose(r)
           \/ EngineTool(r) \/ EngineSubmits(r) \/ EngineEnds(r)
  BY <1>6
  DEF Call, Abort, LockTurn, AttemptBegins, SandboxAcquired, Reads, ReadThrows, Decide, Close,
      Capture, Dispose, EngineTool, EngineSubmits, EngineEnds
<1>7. ASSUME NEW e, AcquireFails(r, e) \/ CreateFails(r, e) \/ EngineError(r, e)
                    \/ StreamFails(r, e) \/ Denied(r, e)
      PROVE  parked' = parked
  BY <1>7 DEF AcquireFails, CreateFails, EngineError, StreamFails, Denied
<1> QED
  BY <1>1, <1>2, <1>3, <1>4, <1>5, <1>6, <1>7 DEF StepOf, Advance

\* What came first for a run stays so.
LEMMA FirstStays ==
  ASSUME RunsOK, NEW r \in Run, StepOf(r), NEW q \in Run, first[q] # None
  PROVE  first'[q] = first[q]
<1>1. CASE q # r
  BY <1>1, Elsewhere DEF UnchangedAt
<1>2. CASE Abort(r) \/ EngineSubmits(r)
  BY <1>2 DEF Abort, EngineSubmits, RunsOK
<1>3. CASE \/ Call(r) \/ LockTurn(r) \/ AttemptBegins(r) \/ SandboxAcquired(r)
           \/ SessionCreated(r) \/ SessionTaken(r)
           \/ Reads(r) \/ ReadThrows(r) \/ Decide(r) \/ Close(r) \/ Capture(r) \/ Dispose(r)
           \/ Detach(r) \/ DetachFails(r) \/ DestroySession(r)
           \/ EngineTool(r) \/ EngineEnds(r)
  BY <1>3
  DEF Call, LockTurn, AttemptBegins, SandboxAcquired, SessionCreated, SessionTaken, Reads,
      ReadThrows, Decide, Close, Capture, Dispose, Detach, DetachFails, DestroySession,
      EngineTool, EngineEnds
<1>4. ASSUME NEW e, AcquireFails(r, e) \/ CreateFails(r, e) \/ EngineError(r, e)
                    \/ StreamFails(r, e) \/ Denied(r, e)
      PROVE  first' = first
  BY <1>4 DEF AcquireFails, CreateFails, EngineError, StreamFails, Denied
<1> QED
  BY <1>1, <1>2, <1>3, <1>4 DEF StepOf, Advance

\* A session is parked only by a run that has been given its result.
LEMMA ParkedStep ==
  ASSUME RunsOK, NEW r \in Run, StepOf(r), RunInv(r), ParkedInv
  PROVE  ParkedInv'
<1> SUFFICES ASSUME NEW p \in parked' PROVE p.run \in Schema /\ first'[p.run] = "submit"
  BY DEF ParkedInv
<1>1. CASE p \in parked
  <2>1. p.run \in Schema /\ first[p.run] = "submit"
    BY <1>1 DEF ParkedInv
  <2> QED
    BY <2>1, FirstStays, RunAssumption
<1>2. CASE p = Mine(r) /\ pc[r] = "detach" /\ attempt[r].live
  <2>1. attempt[r].end = "result" /\ outcome[r] = None
    BY <1>2 DEF RunInv, PlaceInv
  <2>2. r \in Schema /\ first[r] = "submit"
    BY <1>2, <2>1, RunAssumption DEF RunInv, FirstInv
  <2> QED
    BY <1>2, <2>2, FirstStays, RunAssumption DEF Mine
<1> QED
  BY <1>1, <1>2, ParkedMoves DEF ParkedMove

-----------------------------------------------------------------------------
(* Every step keeps the chains of the locks in order. *)

\* What a step of a run does to the chain it is in.
ChainMove(r) ==
  LET h == HandleOf[r] IN
  \/ /\ lockQueue' = lockQueue
     /\ pc'[r] = pc[r] \/ pc'[r] \notin {"idle", "queued"}
     /\ r \in Locked => (pc'[r] = "done" <=> pc[r] = "done") /\ (pc'[r] = "idle" <=> pc[r] = "idle")
     /\ pc[r] = "queued" /\ pc'[r] # "queued" => Head(lockQueue[h]) = r
  \/ /\ r \in Locked /\ pc[r] = "idle" /\ pc'[r] = "queued"
     /\ lockQueue' = [lockQueue EXCEPT ![h] = Append(@, r)]
  \/ /\ r \in Locked /\ pc[r] \notin {"idle", "done"} /\ pc'[r] = "done"
     /\ pc[r] = "queued" => Head(lockQueue[h]) = r
     /\ lockQueue' = [lockQueue EXCEPT ![h] = Tail(@)]

LEMMA ChainMoves == ASSUME RunsOK, NEW r \in Run, StepOf(r) PROVE ChainMove(r)
<1> USE DEF ChainMove
<1>0. ASSUME Unlock(r), pc[r] \notin {"idle", "queued", "done"}, pc'[r] \notin {"idle", "queued"}
      PROVE  ChainMove(r)
  BY <1>0 DEF Unlock
<1>1. ASSUME lockQueue' = lockQueue, pc[r] \notin {"idle", "queued", "done"},
             pc'[r] \notin {"idle", "queued", "done"}
      PROVE  ChainMove(r)
  BY <1>1
<1>2. Moves(r)
  BY RunMoves
<1>3. CASE Call(r)
  <2>1. CASE r \in Locked
    BY <1>3, <2>1 DEF Call, RunsOK
  <2>2. CASE r \notin Locked
    <3>1. pc[r] = "idle" /\ lockQueue' = lockQueue
      BY <1>3, <2>2 DEF Call
    <3>2. pc'[r] \in {"begin", "done"}
      BY <1>3, <2>2 DEF Call, RunsOK
    <3> QED
      BY <2>2, <3>1, <3>2
  <2> QED
    BY <2>1, <2>2
<1>4. CASE LockTurn(r)
  <2>1. /\ pc[r] = "queued" /\ Head(lockQueue[HandleOf[r]]) = r /\ Unlock(r)
        /\ pc'[r] \in {"begin", "done"}
    BY <1>4 DEF LockTurn, RunsOK
  <2> QED
    BY <2>1 DEF Unlock
<1>5. CASE AttemptBegins(r)
  BY <1>0, <1>2, <1>5 DEF AttemptBegins, Moves
<1>6. ASSUME NEW e, AcquireFails(r, e) PROVE ChainMove(r)
  BY <1>0, <1>2, <1>6 DEF AcquireFails, Moves
<1>7. CASE Dispose(r)
  BY <1>0, <1>2, <1>7 DEF Dispose, Moves
<1>8. CASE SandboxAcquired(r) \/ SessionCreated(r) \/ SessionTaken(r) \/ Decide(r) \/ Close(r)
            \/ Detach(r) \/ Capture(r) \/ DetachFails(r) \/ DestroySession(r)
  <2>1. lockQueue' = lockQueue
    BY <1>8 DEF SandboxAcquired, SessionCreated, SessionTaken, Decide, Close, Detach, Capture,
                DetachFails, DestroySession
  <2>2. pc[r] \notin {"idle", "queued", "done"} /\ pc'[r] \notin {"idle", "queued", "done"}
    BY <1>8, SessionEffect, LeaveEffect, DecideEffect
    DEF SandboxAcquired, DecideEnds, Close, Capture, RunsOK
  <2> QED
    BY <1>1, <2>1, <2>2
<1>9. ASSUME NEW e, CreateFails(r, e) PROVE ChainMove(r)
  BY <1>1, <1>9 DEF CreateFails, RunsOK
<1>10. CASE Abort(r) \/ Reads(r) \/ ReadThrows(r) \/ EngineTool(r) \/ EngineSubmits(r)
             \/ EngineEnds(r)
  BY <1>10 DEF Abort, Reads, ReadThrows, EngineTool, EngineSubmits, EngineEnds
<1>11. ASSUME NEW e, EngineError(r, e) \/ StreamFails(r, e) \/ Denied(r, e) PROVE ChainMove(r)
  BY <1>11 DEF EngineError, StreamFails, Denied
<1> QED
  BY <1>3, <1>4, <1>5, <1>6, <1>7, <1>8, <1>9, <1>10, <1>11 DEF StepOf, Advance

\* A run's step keeps the chains.
LEMMA LocksStep ==
  ASSUME RunsOK, NEW r \in Run, StepOf(r), LocksInv
  PROVE  LocksInv'
<1> DEFINE h == HandleOf[r]
           chain == lockQueue[h]
<1>0. /\ ChainMove(r)
      /\ r \in Locked => h \in Handle
      /\ \A q \in Run \ {r} : pc'[q] = pc[q]
      /\ \A q \in Locked : q \in Run /\ HandleOf[q] \in Handle
  BY ChainMoves, Elsewhere, RunAssumption DEF UnchangedAt
<1>t. lockQueue \in [Handle -> Seq(Run)]
  BY DEF LocksInv
<1>1. CASE lockQueue' = lockQueue
  <2>1. /\ pc'[r] = pc[r] \/ pc'[r] \notin {"idle", "queued"}
        /\ r \in Locked => (pc'[r] = "done" <=> pc[r] = "done") /\ (pc'[r] = "idle" <=> pc[r] = "idle")
        /\ pc[r] = "queued" /\ pc'[r] # "queued" => Head(chain) = r
    <3>1. \A s \in Seq(Run) : s # Append(s, r)
      OBVIOUS
    <3>2. ASSUME r \in Locked, lockQueue' = [lockQueue EXCEPT ![h] = Append(@, r)] PROVE FALSE
      BY <1>0, <1>1, <1>t, <3>1, <3>2
    <3>3. ASSUME r \in Locked, pc[r] \notin {"idle", "done"},
                 pc[r] = "queued" => Head(chain) = r,
                 lockQueue' = [lockQueue EXCEPT ![h] = Tail(@)] PROVE FALSE
      <4>1. PICK i \in 1..Len(chain) : chain[i] = r
        BY <1>0, <3>3 DEF LocksInv, LockInv
      <4>2. chain \in Seq(Run) /\ chain # <<>>
        BY <1>0, <1>t, <3>3, <4>1
      <4>3. Len(Tail(chain)) = Len(chain) - 1 /\ Len(chain) \in Nat
        BY <4>2
      <4>4. [lockQueue EXCEPT ![h] = Tail(@)][h] = Tail(chain)
        BY <1>0, <1>t, <3>3
      <4>5. Tail(chain) = chain
        BY <1>1, <3>3, <4>4
      <4> HIDE DEF chain
      <4>6. Len(chain) = Len(chain) - 1
        BY <4>3, <4>5
      <4> QED
        BY <4>3, <4>6
    <3> QED
      BY <1>0, <3>2, <3>3 DEF ChainMove
  <2>2. ASSUME NEW q \in Run PROVE LockInv(q)'
    <3>1. CASE q = r
      <4>1. ASSUME r \in Locked, pc'[r] \notin {"idle", "done"}
            PROVE  \E i \in 1..Len(chain) : chain[i] = r /\ (pc'[r] # "queued" => i = 1)
        <5>1. PICK i \in 1..Len(chain) : chain[i] = r /\ (pc[r] # "queued" => i = 1)
          BY <2>1, <4>1 DEF LocksInv, LockInv
        <5>2. chain \in Seq(Run) /\ 1 \in 1..Len(chain) /\ Head(chain) = chain[1]
          BY <1>0, <1>t, <4>1, <5>1
        <5> QED
          BY <2>1, <5>1, <5>2
      <4> QED
        BY <1>1, <2>1, <3>1, <4>1 DEF LocksInv, LockInv
    <3>2. CASE q # r
      BY <1>0, <1>1, <3>2 DEF LocksInv, LockInv
    <3> QED
      BY <3>1, <3>2
  <2>3. ASSUME NEW g \in Handle PROVE ChainInv(g)'
    <3>1. \A q \in Locked : pc[q] \notin {"idle", "done"} => pc'[q] \notin {"idle", "done"}
      BY <1>0, <2>1
    <3> QED
      BY <1>1, <3>1 DEF LocksInv, ChainInv
  <2> QED
    BY <1>1, <2>2, <2>3 DEF LocksInv
<1>2. CASE /\ r \in Locked /\ pc[r] = "idle" /\ pc'[r] = "queued"
           /\ lockQueue' = [lockQueue EXCEPT ![h] = Append(@, r)]
  <2>1. /\ chain \in Seq(Run) /\ h \in Handle /\ Len(chain) \in Nat
        /\ lockQueue'[h] = Append(chain, r)
        /\ \A g \in Handle \ {h} : lockQueue'[g] = lockQueue[g]
        /\ Len(Append(chain, r)) = Len(chain) + 1
        /\ Append(chain, r)[Len(chain) + 1] = r
        /\ \A i \in 1..Len(chain) : Append(chain, r)[i] = chain[i]
        /\ Append(chain, r) \in Seq(Run)
    BY <1>0, <1>2, <1>t
  <2>2. \A i \in 1..Len(chain) : chain[i] # r
    BY <1>2, <2>1 DEF LocksInv, ChainInv
  <2>3. \A q \in Locked : pc[q] \notin {"idle", "done"} => pc'[q] \notin {"idle", "done"}
    BY <1>0, <1>2
  <2> HIDE DEF h
  <2>4. ASSUME NEW q \in Run PROVE LockInv(q)'
    <3>1. CASE q = r
      BY <1>2, <2>1, <3>1 DEF LockInv, h
    <3>2. CASE q # r
      <4>1. ASSUME q \in Locked, pc[q] \notin {"idle", "done"}
            PROVE  \E i \in 1..Len(lockQueue'[HandleOf[q]]) :
                      lockQueue'[HandleOf[q]][i] = q /\ (pc[q] # "queued" => i = 1)
        <5>1. PICK i \in 1..Len(lockQueue[HandleOf[q]]) :
                     lockQueue[HandleOf[q]][i] = q /\ (pc[q] # "queued" => i = 1)
          BY <4>1 DEF LocksInv, LockInv
        <5>2. CASE HandleOf[q] = h
          BY <2>1, <5>1, <5>2
        <5>3. CASE HandleOf[q] # h
          BY <1>0, <2>1, <4>1, <5>1, <5>3
        <5> QED
          BY <5>2, <5>3
      <4> QED
        BY <1>0, <3>2, <4>1 DEF LocksInv, LockInv
    <3> QED
      BY <3>1, <3>2
  <2>5. ASSUME NEW g \in Handle PROVE ChainInv(g)'
    <3>1. CASE g = h
      <4>1. \A i \in 1..Len(chain) + 1 : i \in 1..Len(chain) \/ i = Len(chain) + 1
        BY <2>1
      <4> QED
        BY <1>2, <2>1, <2>2, <2>3, <3>1, <4>1 DEF LocksInv, ChainInv, h
    <3>2. CASE g # h
      BY <2>1, <2>3, <3>2 DEF LocksInv, ChainInv
    <3> QED
      BY <3>1, <3>2
  <2>6. lockQueue' \in [Handle -> Seq(Run)]
    BY <1>2, <1>t, <2>1 DEF h
  <2> QED
    BY <2>4, <2>5, <2>6 DEF LocksInv
<1>3. CASE /\ r \in Locked /\ pc[r] \notin {"idle", "done"} /\ pc'[r] = "done"
           /\ pc[r] = "queued" => Head(chain) = r
           /\ lockQueue' = [lockQueue EXCEPT ![h] = Tail(@)]
  <2>0. chain \in Seq(Run) /\ h \in Handle
    BY <1>0, <1>3, <1>t
  <2>1. PICK n \in 1..Len(chain) : chain[n] = r /\ (pc[r] # "queued" => n = 1)
    BY <1>3 DEF LocksInv, LockInv
  <2>2. chain # <<>> /\ Head(chain) = chain[1] /\ 1 \in 1..Len(chain) /\ chain[1] = r
    BY <1>3, <2>0, <2>1
  <2>3. /\ Len(Tail(chain)) = Len(chain) - 1 /\ Len(chain) \in Nat
        /\ \A i \in 1..Len(Tail(chain)) : Tail(chain)[i] = chain[i + 1] /\ i + 1 \in 1..Len(chain)
        /\ Tail(chain) \in Seq(Run)
    BY <2>0, <2>2
  <2>4. /\ lockQueue'[h] = Tail(chain)
        /\ \A g \in Handle \ {h} : lockQueue'[g] = lockQueue[g]
        /\ lockQueue' \in [Handle -> Seq(Run)]
    BY <1>3, <1>t, <2>0, <2>3
  <2>5. \A i \in 1..Len(chain) : chain[i] = r => i = 1
    BY <2>0, <2>2 DEF LocksInv, ChainInv
  <2> HIDE DEF h
  <2>6. ASSUME NEW q \in Run PROVE LockInv(q)'
    <3>1. CASE q = r
      BY <1>3, <3>1 DEF LockInv
    <3>2. CASE q # r
      <4>1. ASSUME q \in Locked, pc[q] \notin {"idle", "done"}
            PROVE  \E i \in 1..Len(lockQueue'[HandleOf[q]]) :
                      lockQueue'[HandleOf[q]][i] = q /\ (pc[q] # "queued" => i = 1)
        <5>1. PICK i \in 1..Len(lockQueue[HandleOf[q]]) :
                     lockQueue[HandleOf[q]][i] = q /\ (pc[q] # "queued" => i = 1)
          BY <4>1 DEF LocksInv, LockInv
        <5>2. CASE HandleOf[q] = h
          <6>1. i # 1 /\ i \in 1..Len(chain)
            BY <2>2, <3>2, <5>1, <5>2
          <6>2. i - 1 \in 1..Len(Tail(chain)) /\ (i - 1) + 1 = i
            BY <2>3, <6>1
          <6>3. Tail(chain)[i - 1] = q
            BY <2>3, <5>1, <5>2, <6>2
          <6> QED
            BY <2>4, <5>1, <5>2, <6>1, <6>2, <6>3
        <5>3. CASE HandleOf[q] # h
          BY <1>0, <2>4, <4>1, <5>1, <5>3
        <5> QED
          BY <5>2, <5>3
      <4> QED
        BY <1>0, <3>2, <4>1 DEF LocksInv, LockInv
    <3> QED
      BY <3>1, <3>2
  <2>7. ASSUME NEW g \in Handle PROVE ChainInv(g)'
    <3>1. CASE g = h
      <4>1. \A i \in 1..Len(Tail(chain)) : Tail(chain)[i] # r
        BY <2>3, <2>5
      <4>2. \A i \in 1..Len(chain) : /\ chain[i] \in Locked /\ HandleOf[chain[i]] = h
                                     /\ pc[chain[i]] \notin {"idle", "done"}
        BY <2>0 DEF LocksInv, ChainInv
      <4>3. \A i \in 1..Len(Tail(chain)) :
              /\ Tail(chain)[i] \in Locked /\ HandleOf[Tail(chain)[i]] = h
              /\ pc'[Tail(chain)[i]] \notin {"idle", "done"}
        BY <1>0, <2>3, <4>1, <4>2
      <4>4. \A i, j \in 1..Len(Tail(chain)) : Tail(chain)[i] = Tail(chain)[j] => i = j
        <5>1. \A i, j \in 1..Len(chain) : chain[i] = chain[j] => i = j
          BY <2>0 DEF LocksInv, ChainInv
        <5> QED
          BY <2>3, <5>1
      <4> QED
        BY <2>4, <3>1, <4>3, <4>4 DEF ChainInv
    <3>2. CASE g # h
      <4>1. \A i \in 1..Len(lockQueue[g]) : lockQueue[g][i] # r
        BY <3>2 DEF LocksInv, ChainInv, h
      <4>2. \A i \in 1..Len(lockQueue[g]) :
               pc'[lockQueue[g][i]] = pc[lockQueue[g][i]]
        BY <1>0, <4>1 DEF LocksInv, ChainInv
      <4>3. lockQueue'[g] = lockQueue[g] /\ ChainInv(g)
        BY <2>4, <3>2 DEF LocksInv
      <4> QED
        BY <4>2, <4>3 DEF ChainInv
    <3> QED
      BY <3>1, <3>2
  <2> QED
    BY <2>4, <2>6, <2>7 DEF LocksInv
<1> QED
  BY <1>0, <1>1, <1>2, <1>3 DEF ChainMove

-----------------------------------------------------------------------------
\* What runs hold is in order at first, and stays so.
LEMMA HoldingInit == Init => HoldingInv
<1> SUFFICES ASSUME Init PROVE (\A r \in Run : HoldInv(r)) /\ HostInv /\ ParkedInv /\ LocksInv
  BY InitLifecycle DEF HoldingInv
<1>1. \A r \in Run : pc[r] = "idle"
  BY DEF Init
<1>2. DOMAIN disk = {}
  BY DEF Init
<1>3. \A r \in Run : HoldInv(r)
  BY <1>1, <1>2 DEF Init, HoldInv
<1>4. lockQueue \in [Handle -> Seq(Run)] /\ \A h \in Handle : Len(lockQueue[h]) = 0
  BY DEF Init
<1> QED
  BY <1>1, <1>2, <1>3, <1>4 DEF Init, HostInv, ParkedInv, LocksInv, LockInv, ChainInv

LEMMA HoldingStep == HoldingInv /\ [Next]_vars => HoldingInv'
<1> SUFFICES ASSUME HoldingInv, [Next]_vars PROVE HoldingInv'
  OBVIOUS
<1>0. LifecycleInv' /\ RunsOK /\ \A r \in Run : RunInv(r) /\ HoldInv(r)
  BY LifecycleStep DEF HoldingInv, LifecycleInv, TypeOK
<1>1. ASSUME NEW r \in Run, StepOf(r) PROVE HoldingInv'
  <2>1. \A q \in Run : HoldInv(q)'
    BY <1>0, <1>1, HoldStep
  <2>2. HostInv'
    BY <1>0, <1>1, HostStep DEF HoldingInv, RunInv
  <2>3. ParkedInv'
    BY <1>0, <1>1, ParkedStep DEF HoldingInv
  <2>4. LocksInv'
    BY <1>0, <1>1, LocksStep DEF HoldingInv
  <2> QED
    BY <1>0, <2>1, <2>2, <2>3, <2>4 DEF HoldingInv
<1>2. ASSUME NEW h \in Handle, Destroy(h) PROVE HoldingInv'
  <2>1. UNCHANGED <<pc, attempt, first, box, sessionVars, lockQueue>>
    BY <1>2 DEF Destroy
  <2>2. \A k \in DOMAIN disk' : k \in DOMAIN disk
    BY <1>2 DEF Destroy, Without
  <2>3. ASSUME NEW r \in Run PROVE HoldInv(r)'
    BY <2>1, <2>2 DEF HoldingInv, HoldInv, Box
  <2>4. HostInv'
    BY <2>1, <2>2 DEF HoldingInv, HostInv, Mirror, Accounted
  <2>5. LocksInv'
    BY <2>1 DEF HoldingInv, LocksInv, LockInv, ChainInv
  <2>6. ParkedInv'
    BY <2>1 DEF HoldingInv, ParkedInv
  <2> QED
    BY <1>0, <2>3, <2>4, <2>5, <2>6 DEF HoldingInv
<1>3. CASE UNCHANGED vars
  <2>1. UNCHANGED <<pc, attempt, first, box, sessionVars, lockQueue, disk>>
    BY <1>3 DEF vars
  <2>2. (\A r \in Run : HoldInv(r)') /\ HostInv' /\ ParkedInv'
    BY <2>1 DEF HoldingInv, HoldInv, HostInv, Accounted, ParkedInv, Box, Mirror
  <2>3. LocksInv'
    BY <2>1 DEF HoldingInv, LocksInv, LockInv, ChainInv
  <2> QED
    BY <1>0, <2>2, <2>3 DEF HoldingInv
<1>4. ASSUME NEW p \in parked, Evicted(p) PROVE HoldingInv'
  <2>1. UNCHANGED <<pc, attempt, first, box, session, lockQueue>> /\ parked' \subseteq parked
    BY <1>4 DEF Evicted
  <2>2. /\ \A k \in DOMAIN disk' : k \in DOMAIN disk
        /\ \A i : Accounted(i) =>
             AccountedNext(i) \/ \A k \in DOMAIN disk' : k[1] # Mirror(i)
    BY <1>0, <1>4, EvictedEffect
  <2>3. ASSUME NEW r \in Run PROVE HoldInv(r)'
    BY <2>1, <2>2 DEF HoldingInv, HoldInv, Box
  <2>4. \A i : AccountedNext(i) => Accounted(i)'
    BY <2>1 DEF AccountedNext, Accounted, Held
  <2>5. HostInv'
    BY <2>2, <2>4 DEF HoldingInv, HostInv, Mirror
  <2>6. ParkedInv'
    BY <2>1 DEF HoldingInv, ParkedInv
  <2>7. LocksInv'
    BY <2>1 DEF HoldingInv, LocksInv, LockInv, ChainInv
  <2> QED
    BY <1>0, <2>3, <2>5, <2>6, <2>7 DEF HoldingInv
<1> QED
  BY <1>1, <1>2, <1>3, <1>4 DEF Next, StepOf

LEMMA HoldingInvariant == Spec => []HoldingInv
  BY HoldingInit, HoldingStep, PTL DEF Spec

\* Whatever fails, before another attempt and when a run has settled its
\* sandbox is disposed of and its session is over or parked; every mirror on the
\* host is accounted for; and the lock of a handle lets one run through at a
\* time.
THEOREM NothingIsLeaked == Spec => []NothingLeaks
<1>1. HoldingInv => NothingLeaks
  <2> SUFFICES ASSUME HoldingInv PROVE NothingLeaks
    OBVIOUS
  <2>1. ASSUME NEW r \in Run, pc[r] \in {"idle", "queued", "begin", "done"}
        PROVE  /\ r \notin box /\ r \notin session
               /\ HandleOf[r] = None => \A k \in DOMAIN disk : k[1] # Box(r)
    <3>1. HoldInv(r) /\ PlaceInv(r)
      BY DEF HoldingInv, LifecycleInv, RunInv
    <3> QED
      BY <2>1, <3>1 DEF HoldInv, PlaceInv
  <2>3. ASSUME NEW k \in DOMAIN disk, k[1][1] = "host"
        PROVE  k[1][2] \in stuck \cup litter \cup {attempt[q].id : q \in session}
                           \cup {p.id : p \in parked}
    <3>1. PICK i \in Id : k[1] = Mirror(i) /\ Accounted(i)
      BY <2>3 DEF HoldingInv, HostInv
    <3>2. k[1][2] = i
      BY <3>1 DEF Mirror
    <3> QED
      BY <3>1, <3>2 DEF Accounted
  <2>2. ASSUME NEW r \in Locked, NEW q \in Locked, HandleOf[r] = HandleOf[q],
               {pc[r], pc[q]} \cap {"idle", "queued", "done"} = {}
        PROVE  r = q
    <3>1. r \in Run /\ q \in Run
      BY RunAssumption
    <3>2. lockQueue[HandleOf[r]][1] = r /\ lockQueue[HandleOf[q]][1] = q
      BY <2>2, <3>1 DEF HoldingInv, LocksInv, LockInv
    <3> QED
      BY <2>2, <3>2
  <2> QED
    BY <2>1, <2>2, <2>3 DEF NothingLeaks, HoldingInv, ParkedInv
<1> QED
  BY <1>1, HoldingInvariant, PTL

=============================================================================
