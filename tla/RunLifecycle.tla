---------------------------- MODULE RunLifecycle -----------------------------
(***************************************************************************)
(* One agent.run from the call to its outcome: defaultRuntime.run,         *)
(* runCredentialAttempts and runAttemptWithHarness (packages/agent/src/    *)
(* runtime.ts), with the thread (thread.ts) and the caller's sandbox       *)
(* handle and its lock (sandbox-handle.ts) that runs may share.            *)
(*                                                                         *)
(* The harness session, the model and the sandbox backend are external.    *)
(* Conversations are sequences of the runs whose turns they hold: that is  *)
(* what a thread's messages, its continuation and a journal file hold.     *)
(***************************************************************************)
EXTENDS Sequences, Integers

CONSTANTS
  Run,        \* calls of agent.run
  Thread,     \* threads of the application
  ThreadOf,   \* the thread of each run, or None
  Handle,     \* sandboxes made with createSandbox
  HandleOf,   \* the handle that a run is given, or None for a sandbox of its own
  Locked,     \* runs that the caller makes inside handle.lock(key, ...)
  Schema,     \* runs with a schema
  After,      \* runs that the caller starts when another has settled
  Clones,     \* runs before which their thread is cloned from another one
  Sources,    \* length of the credentials chain
  MaxRepairs,
  MaxParts,   \* bound: stream parts per turn
  Raises,     \* bound: what may happen to each run: errors of sandbox, session
              \* or stream ("credential", "other"), its abort, a denied slot, a
              \* journal that is not copied out, a session that does not end
  None

\* How a run can fail.
Error == {"credential", "other", "aborted", "timeout", "lost", "incomplete", "destroyed"}

ASSUME RunAssumption ==
  /\ ThreadOf \in [Run -> Thread \cup {None}]
  /\ HandleOf \in [Run -> Handle \cup {None}]
  /\ Locked \subseteq {r \in Run : HandleOf[r] # None}
  /\ Schema \subseteq Run
  /\ After \in [Run -> SUBSET Run]
  /\ Clones \in [Run -> Thread \cup {None}]
  /\ Sources \in Nat \ {0} /\ MaxRepairs \in Nat /\ MaxParts \in Nat
  /\ Raises \in [Run -> SUBSET {"credential", "other", "aborted", "timeout", "lost",
                               "copy", "teardown"}]
  /\ Run \cap Handle = {}
  /\ None \notin Run \cup Thread \cup Handle \cup Error \cup {"result", "abort", "submit"}

VARIABLES
  pc,         \* where each run stands
  attempt,    \* what the current attempt of a run knows, see Fresh
  outcome,    \* how the run has settled: "result" or its error
  aborted,    \* runs whose signal is aborted
  first,      \* ghost: what came first, "abort" or "submit"
  effects,    \* ghost: the sources on which the run under way has run a tool
  box,        \* the run holds a sandbox of its own
  session,    \* the run's harness session is open
  parked,     \* parkedPiSessions: [run, id, file, memory, home], the run that parked
  stuck,      \* session ids that a session which can no longer end has a lease on
  litter,     \* session ids whose mirror could not be removed
  messages,   \* of each thread: its turns
  continuation, \* of each thread: [dir, file, turns] or None
  unsaved,    \* ghost: runs whose journal was not copied to where they read it
  disk,       \* the journal files: <<directory, file>> :> turns
  lockQueue,  \* of each handle: its chain of lock calls
  destroyed   \* handles that are destroyed

runVars == <<pc, attempt, outcome, aborted, first, effects>>
sessionVars == <<session, parked, stuck, litter>>
threadVars == <<messages, continuation, unsaved>>
handleVars == <<lockQueue, destroyed>>
vars == <<runVars, box, sessionVars, threadVars, disk, handleVars>>

\* The errors of calls on sandbox, session and stream; a destroyed handle
\* answers with one.
Kind(r) ==
  (Raises[r] \cap {"credential", "other"})
  \cup (IF HandleOf[r] \in destroyed THEN {"other"} ELSE {})

\* An attempt on source s: the turn, whether the engine is at work on it, the
\* parts it has streamed and the loop has not read; what the loop knows; how
\* the attempt ends; session id, journal file, memory and sandbox of the session.
Fresh(s) ==
  [source |-> s, turn |-> 0, live |-> FALSE, parts |-> <<>>,
   submitted |-> FALSE, executed |-> FALSE, streamError |-> None,
   thrown |-> None, denial |-> None, end |-> None,
   id |-> None, file |-> None, memory |-> <<>>, home |-> None]

Init ==
  /\ pc = [r \in Run |-> "idle"]
  /\ attempt = [r \in Run |-> Fresh(1)]
  /\ outcome = [r \in Run |-> None]
  /\ aborted = {}
  /\ first = [r \in Run |-> None]
  /\ effects = [r \in Run |-> {}]
  /\ box = {} /\ session = {} /\ parked = {} /\ stuck = {} /\ litter = {}
  /\ messages = [t \in Thread |-> <<>>]
  /\ continuation = [t \in Thread |-> None]
  /\ unsaved = {} /\ disk = <<>>
  /\ lockQueue = [h \in Handle |-> <<>>]
  /\ destroyed = {}

-----------------------------------------------------------------------------
Put(d, k, v) == [x \in DOMAIN d \cup {k} |-> IF x = k THEN v ELSE d[x]]

Without(d, place) == [x \in {k \in DOMAIN d : k[1] # place} |-> d[x]]

\* The sandbox of r: the caller's, or its own; the mirror of a session id.
Box(r) == <<"sandbox", IF HandleOf[r] # None THEN HandleOf[r] ELSE r>>
Mirror(id) == <<"host", id>>

\* readPiContinuation, of the run's thread.
Continuation(r) == IF ThreadOf[r] = None THEN None ELSE continuation[ThreadOf[r]]

\* The id is the handle's, the continuation's, or new.
SessionId(r) ==
  IF HandleOf[r] # None THEN HandleOf[r]
  ELSE IF Continuation(r) # None THEN Continuation(r).id ELSE r

\* What the model is told of the thread when there is no continuation.
Replay(r) == IF ThreadOf[r] = None THEN <<>> ELSE messages[ThreadOf[r]]

\* journalPath
JournalFile(r) == <<Box(r), attempt[r].file>>

\* The attempt loop: the next source after a credential failure, if no real
\* tool has run; otherwise the run settles with the attempt's end.
AttemptEnds(r, end) ==
  /\ IF end = "credential" /\ attempt[r].source < Sources /\ ~attempt[r].executed
       THEN /\ attempt' = [attempt EXCEPT ![r] = Fresh(@.source + 1)]
            /\ pc' = [pc EXCEPT ![r] = "begin"]
            /\ UNCHANGED <<outcome, effects>>
       ELSE /\ attempt' = [attempt EXCEPT ![r] = Fresh(1)]
            /\ effects' = [effects EXCEPT ![r] = {}]
            /\ pc' = [pc EXCEPT ![r] = "done"]
            /\ outcome' = [outcome EXCEPT ![r] = end]

\* A chain in which the rejection of one call keeps the next ones from running.
Unlock_OnSuccess(r) ==
  IF r \in Locked /\ pc'[r] = "done" /\ outcome'[r] = "result"
    THEN lockQueue' = [lockQueue EXCEPT ![HandleOf[r]] = Tail(@)]
    ELSE UNCHANGED lockQueue

\* The lock of the handle is passed on when its function has settled, with
\* whatever outcome.
Unlock(r) ==
  IF r \in Locked /\ pc'[r] = "done"
    THEN lockQueue' = [lockQueue EXCEPT ![HandleOf[r]] = Tail(@)]
    ELSE UNCHANGED lockQueue

-----------------------------------------------------------------------------
(* The caller. *)

\* clone(): threadFromJSON of toJSON.
Clone(t, copy) ==
  /\ messages' = [messages EXCEPT ![copy] = messages[t]]
  /\ continuation' = [continuation EXCEPT ![copy] = continuation[t]]
  /\ UNCHANGED unsaved

\* agent.run is called, inside lock if the caller uses it; Clones: on a clone
\* of another thread.  A destroyed handle is refused by validateRunOptions.
Call(r) ==
  /\ pc[r] = "idle" /\ \A q \in After[r] : pc[q] = "done"
  /\ IF r \in Locked
       THEN /\ lockQueue' = [lockQueue EXCEPT ![HandleOf[r]] = Append(@, r)]
            /\ pc' = [pc EXCEPT ![r] = "queued"] /\ UNCHANGED outcome
       ELSE /\ UNCHANGED lockQueue
            /\ IF HandleOf[r] \in destroyed
                 THEN /\ pc' = [pc EXCEPT ![r] = "done"]
                      /\ outcome' = [outcome EXCEPT ![r] = "destroyed"]
                 ELSE pc' = [pc EXCEPT ![r] = "begin"] /\ UNCHANGED outcome
  /\ IF Clones[r] # None THEN Clone(Clones[r], ThreadOf[r]) ELSE UNCHANGED threadVars
  /\ UNCHANGED <<attempt, aborted, first, effects, box, sessionVars, disk, destroyed>>

\* The lock call of r comes to the head of the chain; assertActive again.
LockTurn(r) ==
  /\ pc[r] = "queued" /\ Head(lockQueue[HandleOf[r]]) = r
  /\ IF HandleOf[r] \in destroyed
       THEN /\ pc' = [pc EXCEPT ![r] = "done"]
            /\ outcome' = [outcome EXCEPT ![r] = "destroyed"]
       ELSE pc' = [pc EXCEPT ![r] = "begin"] /\ UNCHANGED outcome
  /\ Unlock(r)
  /\ UNCHANGED <<attempt, aborted, first, effects, box, sessionVars, threadVars, disk, destroyed>>

\* Sandbox.destroy: the registry forgets the handle, the files are gone.
\* Bound: only while it can matter.
Destroy(h) ==
  /\ h \notin destroyed
  /\ \E r \in Run : HandleOf[r] = h /\ pc[r] # "done"
  /\ destroyed' = destroyed \cup {h}
  /\ disk' = Without(disk, <<"sandbox", h>>)
  /\ UNCHANGED <<runVars, box, sessionVars, threadVars, lockQueue>>

\* The caller, the parent run or the deadline aborts the run's signal.  Bound:
\* only while it can matter.
Abort(r) ==
  /\ pc[r] \notin {"idle", "queued", "done"} /\ attempt[r].end = None
  /\ "aborted" \in Raises[r]
  /\ r \notin aborted /\ aborted' = aborted \cup {r}
  /\ first' = [first EXCEPT ![r] = IF @ = None THEN "abort" ELSE @]
  /\ UNCHANGED <<pc, attempt, outcome, effects, box, sessionVars, threadVars, disk, handleVars>>

-----------------------------------------------------------------------------
(* An attempt: set-up. *)

\* assertFileCredentialsPresent: no file and no keys in the environment.
MayLackCredentials(r) == "credential" \in Raises[r]

\* assertFileCredentialsPresent, resolveRunSandbox, the thread's continuation
\* or else its replay, the session id.
AttemptBegins(r) ==
  LET c == Continuation(r) IN
  /\ pc[r] = "begin"
  /\ \/ /\ MayLackCredentials(r)
        /\ AttemptEnds(r, "credential")
     \/ /\ HandleOf[r] \in destroyed
        /\ AttemptEnds(r, "other")
     \/ /\ HandleOf[r] \notin destroyed
        /\ attempt' = [attempt EXCEPT
             ![r].id = SessionId(r),
             ![r].file = IF c # None THEN c.file ELSE None,
             ![r].memory = IF c # None THEN c.turns ELSE Replay(r)]
        /\ pc' = [pc EXCEPT ![r] = "acquire"]
        /\ UNCHANGED <<outcome, effects>>
  /\ Unlock(r)
  /\ UNCHANGED <<aborted, first, box, sessionVars, threadVars, disk, destroyed>>

SandboxAcquired(r) ==
  /\ pc[r] = "acquire"
  /\ pc' = [pc EXCEPT ![r] = "create"]
  /\ box' = IF HandleOf[r] = None THEN box \cup {r} ELSE box
  /\ UNCHANGED <<attempt, outcome, aborted, first, effects, sessionVars, threadVars, disk, handleVars>>

\* acquireSandboxSession rejects, before anything is there to undo.  A handle's
\* provider does not reject.
AcquireFails(r, e) ==
  /\ pc[r] = "acquire" /\ HandleOf[r] = None
  /\ AttemptEnds(r, e)
  /\ Unlock(r)
  /\ UNCHANGED <<aborted, first, box, sessionVars, threadVars, disk, destroyed>>

\* writeJournal
WithJournal(r) == Put(disk, JournalFile(r), attempt[r].memory)

\* The session p is parked under the key of r.
Waiting(r, p) == p.id = attempt[r].id /\ p.file = attempt[r].file

\* createPiSession, which looks for a parked session only to resume one.
Resumable(r) == {p \in parked : attempt[r].file # None /\ Waiting(r, p)}

\* createSession: onSession puts the journal into the sandbox, Pi pulls it from
\* there into its mirror; without one it starts a file of its own.  The first
\* turn is streamed.
SessionCreated(r) ==
  /\ pc[r] = "create" /\ HandleOf[r] \notin destroyed
  /\ Resumable(r) = {}
  /\ session' = session \cup {r}
  /\ pc' = [pc EXCEPT ![r] = "turn"]
  /\ attempt' = [attempt EXCEPT ![r].live = TRUE, ![r].home = Box(r),
       ![r].file = IF @ = None THEN r ELSE @]
  /\ disk' = IF attempt[r].file = None THEN disk
             ELSE Put(WithJournal(r), <<Mirror(attempt[r].id), attempt[r].file>>,
                      attempt[r].memory)
  /\ UNCHANGED <<outcome, aborted, first, effects, box, parked, stuck, litter,
                 threadVars, handleVars>>

\* The parked session is taken over: it goes on with what it has in memory and
\* in its mirror, and with the sandbox it was made with.
SessionTaken(r) ==
  /\ pc[r] = "create" /\ HandleOf[r] \notin destroyed
  /\ session' = session \cup {r}
  /\ pc' = [pc EXCEPT ![r] = "turn"]
  /\ disk' = WithJournal(r)
  /\ \E p \in Resumable(r) :
       /\ parked' = parked \ {p}
       /\ attempt' = [attempt EXCEPT ![r].live = TRUE, ![r].home = p.home,
                                    ![r].memory = p.memory]
  /\ UNCHANGED <<outcome, aborted, first, effects, box, stuck, litter, threadVars,
                 handleVars>>

\* A failed createSession that leaves the sandbox to the harness.
CreateFails_LeavesSandbox(r, e) ==
  /\ pc[r] = "create"
  /\ AttemptEnds(r, e)
  /\ Unlock(r)
  /\ UNCHANGED <<aborted, first, box, sessionVars, threadVars, disk, destroyed>>

\* createSession rejects: the run's own sandbox is disposed of.
CreateFails(r, e) ==
  /\ pc[r] = "create"
  /\ pc' = [pc EXCEPT ![r] = "dispose"]
  /\ attempt' = [attempt EXCEPT ![r].end = e]
  /\ UNCHANGED <<outcome, aborted, first, effects, box, sessionVars, threadVars, disk, handleVars>>

-----------------------------------------------------------------------------
(* An attempt: the engine at work.  Pi writes a message of the conversation *)
(* to its journal file when the message is complete; the last one written   *)
(* is where the file's conversation ends.                                   *)

Engine(r) == r \in session /\ attempt[r].live

Journalled(r) ==
  IF r \in {attempt[r].memory[i] : i \in DOMAIN attempt[r].memory}
    THEN attempt[r].memory ELSE Append(attempt[r].memory, r)

Journal(r) == disk' = Put(disk, <<Mirror(attempt[r].id), attempt[r].file>>, Journalled(r))

\* A tool other than submitResult runs, and its call is streamed.
EngineTool(r) ==
  /\ Engine(r) /\ Len(attempt[r].parts) < MaxParts
  /\ "tool" \notin {attempt[r].parts[i] : i \in DOMAIN attempt[r].parts}
  /\ effects' = [effects EXCEPT ![r] = @ \cup {attempt[r].source}]
  /\ attempt' = [attempt EXCEPT ![r].parts = Append(@, "tool"), ![r].memory = Journalled(r)]
  /\ Journal(r)
  /\ UNCHANGED <<pc, outcome, aborted, first, box, sessionVars, threadVars, handleVars>>

\* onSubmit that does not look at the run's signal.
EngineSubmits_AfterAbort(r) ==
  /\ Engine(r) /\ r \in Schema
  /\ ~attempt[r].submitted
  /\ attempt' = [attempt EXCEPT ![r].submitted = TRUE, ![r].memory = Journalled(r)]
  /\ first' = [first EXCEPT ![r] =
       IF @ = None /\ attempt[r].end = None THEN "submit" ELSE @]
  /\ Journal(r)
  /\ UNCHANGED <<pc, outcome, aborted, effects, box, sessionVars, threadVars, handleVars>>

\* submitResult gets a valid value.  onSubmit takes the first one, unless the
\* run is cancelled, and aborts the turn, which then ends by itself.
EngineSubmits(r) ==
  /\ Engine(r) /\ r \in Schema
  /\ r \notin aborted /\ ~attempt[r].submitted
  /\ attempt' = [attempt EXCEPT ![r].submitted = TRUE, ![r].memory = Journalled(r)]
  /\ first' = [first EXCEPT ![r] =
       IF @ = None /\ attempt[r].end = None THEN "submit" ELSE @]
  /\ Journal(r)
  /\ UNCHANGED <<pc, outcome, aborted, effects, box, sessionVars, threadVars, handleVars>>

\* The turn reports an error, in its stream.
EngineError(r, e) ==
  /\ Engine(r) /\ Len(attempt[r].parts) < MaxParts
  /\ attempt' = [attempt EXCEPT ![r].parts = Append(@, e)]
  /\ UNCHANGED <<pc, outcome, aborted, first, effects, box, sessionVars, threadVars, disk, handleVars>>

\* A request of the turn is denied a slot or loses its lease.
Denied(r, e) ==
  /\ Engine(r) /\ attempt[r].denial = None
  /\ attempt' = [attempt EXCEPT ![r].denial = e]
  /\ UNCHANGED <<pc, outcome, aborted, first, effects, box, sessionVars, threadVars, disk, handleVars>>

\* The turn is over and its stream closes.
EngineEnds(r) ==
  /\ Engine(r)
  /\ attempt' = [attempt EXCEPT ![r].live = FALSE, ![r].memory = Journalled(r)]
  /\ Journal(r)
  /\ UNCHANGED <<pc, outcome, aborted, first, effects, box, sessionVars, threadVars, handleVars>>

-----------------------------------------------------------------------------
(* An attempt: the loop over the turns. *)

\* A loop that does not mark the attempt when a tool was called.
Reads_Unmarked(r) ==
  /\ pc[r] = "turn" /\ attempt[r].thrown = None /\ attempt[r].parts # <<>>
  /\ LET part == Head(attempt[r].parts) IN
     attempt' = [attempt EXCEPT
       ![r].parts = Tail(@),
       ![r].streamError = IF part # "tool" /\ @ = None THEN part ELSE @]
  /\ UNCHANGED <<pc, outcome, aborted, first, effects, box, sessionVars, threadVars, disk, handleVars>>

\* handleStreamPart of the next part.
Reads(r) ==
  /\ pc[r] = "turn" /\ attempt[r].thrown = None /\ attempt[r].parts # <<>>
  /\ LET part == Head(attempt[r].parts) IN
     attempt' = [attempt EXCEPT
       ![r].parts = Tail(@),
       ![r].executed = @ \/ part = "tool",
       ![r].streamError = IF part # "tool" /\ @ = None THEN part ELSE @]
  /\ UNCHANGED <<pc, outcome, aborted, first, effects, box, sessionVars, threadVars, disk, handleVars>>

\* The turn cannot be started, or its stream rejects after its last part.  A
\* stream that rejects for itself (an aborted read) leaves the engine at work.
StreamFails(r, e) ==
  /\ pc[r] = "turn" /\ attempt[r].thrown = None /\ attempt[r].parts = <<>>
  /\ \E still \in {FALSE, attempt[r].live /\ e = "other"} :
       attempt' = [attempt EXCEPT ![r].thrown = e, ![r].live = still]
  /\ UNCHANGED <<pc, outcome, aborted, first, effects, box, sessionVars, threadVars, disk, handleVars>>

\* A part cannot be handled (a callback throws, a changed file cannot be read):
\* the loop stops reading while the engine may go on.
ReadThrows(r) ==
  /\ pc[r] = "turn" /\ attempt[r].thrown = None /\ attempt[r].parts # <<>>
  /\ "other" \in Raises[r]
  /\ attempt' = [attempt EXCEPT ![r].thrown = "other", ![r].parts = <<>>]
  /\ UNCHANGED <<pc, outcome, aborted, first, effects, box, sessionVars, threadVars, disk, handleVars>>

\* What the turn throws, if anything.
Raised(r) ==
  IF attempt[r].thrown # None THEN attempt[r].thrown
  ELSE IF attempt[r].denial # None THEN attempt[r].denial
  ELSE IF r \in aborted THEN "aborted"
  ELSE attempt[r].streamError

\* What the catch makes of it: cancellation is authoritative, a denied slot
\* outranks the rest, a slot timeout even cancellation.
Failure(r, e) ==
  IF attempt[r].denial # None /\ (r \notin aborted \/ attempt[r].denial = "timeout")
    THEN attempt[r].denial
  ELSE IF r \in aborted THEN "aborted"
  ELSE e

\* The turn's stream has ended, or will not be read further.
TurnOver(r) ==
  pc[r] = "turn" /\ (attempt[r].thrown # None \/ (~attempt[r].live /\ attempt[r].parts = <<>>))

\* appendThreadMessage, of the prompt and of the result.
AppendThreadMessage(r) == messages' = [messages EXCEPT ![ThreadOf[r]] = Append(@, r)]

Ends(r, end) ==
  /\ pc' = [pc EXCEPT ![r] = "closing"]
  /\ attempt' = [attempt EXCEPT ![r].end = end]
  /\ IF end = "result" /\ ThreadOf[r] # None
       THEN AppendThreadMessage(r) ELSE UNCHANGED messages

Accepted(r) == r \in Schema /\ attempt[r].submitted

\* The loop comes to its end with a result, which the thread records, or a
\* failure, or goes on with a repair turn.
Decide(r) ==
  /\ TurnOver(r)
  /\ \/ /\ Accepted(r)
        /\ Ends(r, "result")
     \/ /\ ~Accepted(r) /\ Raised(r) # None
        /\ Ends(r, Failure(r, Raised(r)))
     \/ /\ ~Accepted(r) /\ Raised(r) = None /\ r \notin Schema
        /\ Ends(r, "result")
     \/ /\ ~Accepted(r) /\ Raised(r) = None /\ r \in Schema
        /\ attempt[r].turn = MaxRepairs
        /\ Ends(r, Failure(r, "incomplete"))
     \/ /\ ~Accepted(r) /\ Raised(r) = None /\ r \in Schema
        /\ attempt[r].turn < MaxRepairs
        /\ attempt' = [attempt EXCEPT ![r].turn = @ + 1, ![r].live = TRUE]
        /\ UNCHANGED <<pc, messages>>
  /\ UNCHANGED <<outcome, aborted, first, effects, box, sessionVars, continuation, unsaved, disk, handleVars>>

-----------------------------------------------------------------------------
(* An attempt: the finally block. *)

\* A continuation that is only replaced when the capture succeeds.
Close_KeepsContinuation(r) ==
  /\ pc[r] = "closing"
  /\ pc' = [pc EXCEPT ![r] =
       IF attempt[r].end = "result" /\ ThreadOf[r] # None THEN "detach" ELSE "destroy"]
  /\ UNCHANGED <<attempt, outcome, aborted, first, effects, box, sessionVars, threadVars, disk, handleVars>>

\* concurrency.dispose() is over; a thread's continuation is cleared up front.
Close(r) ==
  /\ pc[r] = "closing"
  /\ IF attempt[r].end = "result" /\ ThreadOf[r] # None
       THEN /\ pc' = [pc EXCEPT ![r] = "detach"]
            /\ continuation' = [continuation EXCEPT ![ThreadOf[r]] = None]
       ELSE /\ pc' = [pc EXCEPT ![r] = "destroy"]
            /\ UNCHANGED continuation
  /\ UNCHANGED <<attempt, outcome, aborted, first, effects, box, sessionVars, messages, unsaved, disk, handleVars>>

\* Under the key of r another session may be parked, which is forgotten when r
\* ends or is parked: nothing ends it any more.
SameKey(r) == {p \in parked : Waiting(r, p)}
Forgotten(r) == IF SameKey(r) # {} THEN {attempt[r].id} ELSE {}

Held(id) ==
  \/ id \in stuck'
  \/ \E q \in session' : attempt[q].id = id
  \/ \E p \in parked' : p.id = id

\* A lease on the mirror of an id is given back, after d; the mirror goes with
\* the last one.
LeaseBack(id, d) ==
  /\ disk' = IF Held(id) THEN d ELSE Without(d, Mirror(id))
  /\ litter' = IF Held(id) THEN litter ELSE litter \ {id}

\* The last lease is given back, but the mirror cannot be removed.
MirrorKept(id, d) == ~Held(id) /\ disk' = d /\ litter' = litter \cup {id}

\* Pi's dispose throws and the lease stays.
LeaseKept(id, d) == stuck' = stuck \cup {id} /\ disk' = d /\ UNCHANGED litter

\* The session of r is over.
SessionOver(r, d) ==
  /\ session' = session \ {r}
  /\ parked' = parked \ SameKey(r)
  /\ stuck' = stuck \cup Forgotten(r)
  /\ LeaseBack(attempt[r].id, d)

\* The call that ends the session of r rejects.  Its turn is over all the same:
\* what was pending is settled first.
SessionRejects(r, d) ==
  /\ "teardown" \in Raises[r]
  /\ session' = session \ {r}
  /\ parked' = parked \ SameKey(r)
  /\ \/ LeaseKept(attempt[r].id, d)
     \/ stuck' = stuck \cup Forgotten(r) /\ MirrorKept(attempt[r].id, d)

\* parkPiSession
Parks(r, d) ==
  /\ session' = session \ {r}
  /\ parked' = (parked \ SameKey(r)) \cup
       {[run |-> r, id |-> attempt[r].id, file |-> attempt[r].file,
         memory |-> attempt[r].memory, home |-> attempt[r].home]}
  /\ stuck' = stuck \cup Forgotten(r)
  /\ disk' = d /\ UNCHANGED litter

\* persistSessionFile gives d: Pi's journal file is copied into the sandbox that
\* the session was made with, if both are there, or it is not, which is ignored.
Persisted(r, d) ==
  LET from == <<Mirror(attempt[r].id), attempt[r].file>>
      there == \E x \in box \cup (Handle \ destroyed) : attempt[r].home = <<"sandbox", x>>
  IN \/ /\ from \in DOMAIN disk /\ there
        /\ d = Put(disk, <<attempt[r].home, attempt[r].file>>, disk[from])
        /\ unsaved' = IF attempt[r].home = Box(r) THEN unsaved ELSE unsaved \cup {r}
     \/ /\ from \notin DOMAIN disk \/ ~there \/ "copy" \in Raises[r]
        /\ d = disk
        /\ unsaved' = unsaved \cup {r}

\* What persistSessionFile can give.
Copies(r) ==
  LET from == <<Mirror(attempt[r].id), attempt[r].file>> IN
  {disk} \cup (IF from \in DOMAIN disk
               THEN {Put(disk, <<attempt[r].home, attempt[r].file>>, disk[from])} ELSE {})

\* session.detach(): the journal is copied, and the session is over; with its
\* turn still under way it is parked.
Detach(r) ==
  /\ pc[r] = "detach"
  /\ pc' = [pc EXCEPT ![r] = "capture"]
  /\ \E d \in Copies(r) :
       /\ Persisted(r, d)
       /\ IF attempt[r].live THEN Parks(r, d) ELSE SessionOver(r, d)
  /\ attempt' = [attempt EXCEPT ![r].live = FALSE]
  /\ UNCHANGED <<outcome, aborted, first, effects, box, messages, continuation, handleVars>>

\* detach of a session whose turn is over rejects, which is ignored.
DetachFails(r) ==
  /\ pc[r] = "detach" /\ ~attempt[r].live
  /\ pc' = [pc EXCEPT ![r] = "dispose"]
  /\ \E d \in Copies(r) : Persisted(r, d) /\ SessionRejects(r, d)
  /\ UNCHANGED <<attempt, outcome, aborted, first, effects, box, messages, continuation,
                 handleVars>>

\* readJournal: what the sandbox holds becomes the thread's continuation, unless
\* it cannot be read.
Capture(r) ==
  LET file == JournalFile(r) IN
  /\ pc[r] = "capture"
  /\ pc' = [pc EXCEPT ![r] = "dispose"]
  /\ \/ /\ file \in DOMAIN disk
        /\ continuation' = [continuation EXCEPT ![ThreadOf[r]] =
             [id |-> attempt[r].id, file |-> attempt[r].file, turns |-> disk[file]]]
     \/ UNCHANGED continuation
  /\ UNCHANGED <<attempt, outcome, aborted, first, effects, box, sessionVars, messages, unsaved, disk, handleVars>>

\* session.destroy(); that it rejects is ignored.
DestroySession(r) ==
  /\ pc[r] = "destroy"
  /\ pc' = [pc EXCEPT ![r] = "dispose"]
  /\ SessionOver(r, disk) \/ SessionRejects(r, disk)
  /\ attempt' = [attempt EXCEPT ![r].live = FALSE]
  /\ UNCHANGED <<outcome, aborted, first, effects, box, threadVars, handleVars>>

\* A parked session is destroyed: newer ones push it out, or a run with slots
\* resumes it and it was built without.
Evicted(p) ==
  /\ p \in parked /\ parked' = parked \ {p} /\ UNCHANGED session
  /\ \/ UNCHANGED stuck /\ LeaseBack(p.id, disk)
     \/ "teardown" \in Raises[p.run] /\ LeaseKept(p.id, disk)
     \/ "teardown" \in Raises[p.run] /\ UNCHANGED stuck /\ MirrorKept(p.id, disk)
  /\ UNCHANGED <<runVars, box, threadVars, handleVars>>

\* disposeOwnedSandbox, the end of the attempt.
Dispose(r) ==
  /\ pc[r] = "dispose"
  /\ box' = box \ {r}
  /\ disk' = IF HandleOf[r] = None THEN Without(disk, Box(r)) ELSE disk
  /\ AttemptEnds(r, attempt[r].end)
  /\ Unlock(r)
  /\ UNCHANGED <<aborted, first, sessionVars, threadVars, destroyed>>

-----------------------------------------------------------------------------
\* What comes by itself, given that models, sandboxes and the database answer.
Advance(r) ==
  \/ LockTurn(r) \/ AttemptBegins(r) \/ SandboxAcquired(r) \/ SessionCreated(r) \/ SessionTaken(r)
  \/ \E e \in Kind(r) : AcquireFails(r, e) \/ CreateFails(r, e)
  \/ Reads(r) \/ Decide(r)
  \/ Close(r) \/ Detach(r) \/ DetachFails(r) \/ Capture(r)
  \/ DestroySession(r) \/ Dispose(r)

Next ==
  \/ \E r \in Run :
       \/ Call(r) \/ Abort(r) \/ Advance(r)
       \/ EngineTool(r) \/ EngineSubmits(r) \/ EngineEnds(r)
       \/ ReadThrows(r)
       \/ \E e \in Kind(r) : EngineError(r, e) \/ StreamFails(r, e)
       \/ \E e \in Raises[r] \cap {"timeout", "lost"} : Denied(r, e)
  \/ \E h \in Handle : Destroy(h)
  \/ \E p \in parked : Evicted(p)

Spec == Init /\ [][Next]_vars

\* Every request, sandbox call and turn of the engine is answered.
FairSpec == Spec /\ \A r \in Run : WF_vars(Advance(r)) /\ WF_vars(EngineEnds(r))

-----------------------------------------------------------------------------
(* Properties. *)

\* What was first decides the run: a cancelled run never yields a result, a
\* run with a schema yields one only if a submission was accepted, and an
\* accepted submission is not lost to a later cancellation, denial, timeout or
\* broken stream.  A run is refused for a destroyed handle only if it is.
OutcomeJustified ==
  \A r \in Run : LET ends == {outcome[r], attempt[r].end} \ {None} IN
    /\ "result" \in ends => first[r] # "abort"
    /\ "result" \in ends /\ r \in Schema => first[r] = "submit"
    /\ ends # {} /\ first[r] = "submit" => ends = {"result"}
    /\ outcome[r] = "destroyed" => HandleOf[r] \in destroyed

\* The credentials chain never runs a tool of the model on two sources: the
\* attempt that is given up has had no side effect.
EffectsOnce ==
  \A r \in Run : \A s1, s2 \in effects[r] : s1 = s2

\* Before the next attempt begins and when the run settles, its sandbox is
\* disposed of with all files in it and its session is over, but for one that
\* is parked, which has been given its result while its turn went on.  A mirror
\* is on the host only for a session that is open, parked or could not be
\* ended, or where removing it failed.  Of runs that take the lock of a handle
\* one is under way at a time.
NothingLeaks ==
  /\ \A r \in Run : pc[r] \in {"idle", "queued", "begin", "done"} =>
       /\ r \notin box /\ r \notin session
       /\ HandleOf[r] = None => \A k \in DOMAIN disk : k[1] # Box(r)
  /\ \A p \in parked : p.run \in Schema /\ first[p.run] = "submit"
  /\ \A k \in DOMAIN disk : k[1][1] = "host" =>
       k[1][2] \in stuck \cup litter \cup {attempt[q].id : q \in session} \cup {p.id : p \in parked}
  /\ \A r, q \in Locked :
       /\ HandleOf[r] = HandleOf[q]
       /\ {pc[r], pc[q]} \cap {"idle", "queued", "done"} = {}
       => r = q

UnderWay(t) ==
  \E r \in Run : ThreadOf[r] = t /\ pc[r] \notin {"idle", "queued", "done"}

Holds(turns, r) == \E i \in DOMAIN turns : turns[i] = r

\* Some turns of a thread, in the thread's order, without those that are missing.
Excerpt(turns, all, missing) ==
  /\ \A i, j \in DOMAIN turns : i < j =>
       \E k, l \in DOMAIN all : k < l /\ all[k] = turns[i] /\ all[l] = turns[j]
  /\ \A i \in DOMAIN turns : Holds(all, turns[i])
  /\ \A k \in DOMAIN all : Holds(turns, all[k]) \/ all[k] \in missing

\* Between runs a thread holds the turns of exactly the runs that succeeded on
\* it, and if it has a continuation, the journal in it holds turns of the
\* thread, in their order, and lacks only those of runs whose own journal was
\* not copied out: a failed capture, an aborted or a failed run in between, a
\* parked session or a foreign journal takes nothing away and adds nothing.
ThreadExact ==
  \A t \in Thread : ~UnderWay(t) =>
    /\ \A r \in Run : ThreadOf[r] = t =>
         (outcome[r] = "result" <=> Holds(messages[t], r))
    /\ continuation[t] # None => Excerpt(continuation[t].turns, messages[t], unsaved)

\* Every call settles: no failure, cancellation, repair, fallback, destroyed
\* handle or rejected predecessor in the lock's chain leaves one waiting.
EveryRunSettles ==
  \A r \in Run : (pc[r] # "idle") ~> (pc[r] = "done")
=============================================================================
