------------------------------ MODULE PiSession ------------------------------
(***************************************************************************)
(* The harness sessions of one public session id in one process:           *)
(* createPiSession with what it acquires and gives back, the parking of    *)
(* sessions with a turn under way, and their turns (packages/              *)
(* harness-pi-raw/src/pi-session.ts, pi-workspace-vfs.ts,                  *)
(* pi-resume-state.ts).  The sessions of an id share one directory tree on  *)
(* the host, counted by leases, and one mount of it, counted as well.      *)
(*                                                                         *)
(* A run starts one session, fresh or from a resume state, and drives that *)
(* session or a parked one it was handed; a session is named by the run    *)
(* that created it, a journal file by the run that started it.  The        *)
(* application, the harness framework and Pi itself are external.           *)
(***************************************************************************)
EXTENDS Sequences, FiniteSets, Integers

CONSTANTS
  Run,        \* the runs on this session id
  Gated,      \* runs with a gate for provider requests
  ToolsOf,    \* the tool set of each run
  MaxParked,  \* MAX_PARKED_PI_SESSIONS
  Kinds,      \* bound: calls to the host that each run's turn makes, at most
              \* one of a kind: "result", "approval"
  After,      \* bound: runs that start when others have left
  MaxTurns,   \* bound: turns of a run
  None

ASSUME SessionAssumption ==
  /\ IsFiniteSet(Run) /\ Gated \subseteq Run
  /\ Kinds \in [Run -> SUBSET {"result", "approval"}]
  /\ After \in [Run -> SUBSET Run]
  /\ MaxParked \in Nat /\ MaxTurns \in Nat
  /\ None \notin Run /\ \A r \in Run : ToolsOf[r] # None

VARIABLES
  pc,        \* where each run stands
  obj,       \* the session a run drives, waits for or has driven
  started,   \* number of turns a run has prompted
  resume,    \* resume states the application holds: journal files
  phase,     \* of each session: how far its set-up or teardown has come
  want,      \* of each session: the journal file it resumes, or None
  pulled,    \* sessions that found that file in the sandbox
  file,      \* sessionFileName
  built,     \* the tool set the Pi session was built with, None without one
  gate,      \* gateHolder.current: the run whose gate admits the requests
  turns,     \* turns under way, named by the run that prompted them
  active,    \* activeTurn
  emit,      \* currentEmit: the run whose stream gets the parts
  pending,   \* pendingToolResults, pendingToolApprovals: <<turn, kind>>
  calls,     \* bound: the kinds of call that each run's turn has made
  late,      \* ghost: sessions in which Pi made a call after they were stopped
  parked,    \* parkedPiSessions, oldest first: <<key, session>>
  leases,    \* hostRootLeases of the id
  tree,      \* the directory tree of the id is on disk
  mounts,    \* mountedRoots: references to the mount
  mounted,   \* sessions whose PiWorkspaceVfs is mounted
  saved      \* journal files in the sandbox

driver == <<pc, obj, started, resume>>
identity == <<want, pulled>>
engine == <<file, built, gate, turns, active, emit, pending, calls, late>>
shared == <<parked, leases, tree, mounts, mounted>>
vars == <<driver, phase, identity, engine, shared, saved>>

Init ==
  /\ pc = [r \in Run |-> "idle"]
  /\ obj = [r \in Run |-> None]
  /\ started = [r \in Run |-> 0]
  /\ resume = {}
  /\ phase = [s \in Run |-> "none"]
  /\ want = [s \in Run |-> None]
  /\ pulled = {}
  /\ file = [s \in Run |-> None]
  /\ built = [s \in Run |-> None]
  /\ gate = [s \in Run |-> None]
  /\ turns = [s \in Run |-> {}]
  /\ active = [s \in Run |-> None]
  /\ emit = [s \in Run |-> None]
  /\ pending = [s \in Run |-> {}]
  /\ calls = [r \in Run |-> {}]
  /\ late = {}
  /\ parked = <<>>
  /\ leases = 0
  /\ tree = FALSE
  /\ mounts = 0
  /\ mounted = {}
  /\ saved = {}

-----------------------------------------------------------------------------
(* Giving back and taking over. *)

Drives(r) == pc[r] \in {"driving", "preparing", "aborting"}

\* PiWorkspaceVfs.unmount and releaseHostRoot; the last lease removes the tree.
Release(s) ==
  /\ mounted' = mounted \ {s}
  /\ mounts' = IF s \in mounted THEN mounts - 1 ELSE mounts
  /\ leases' = leases - 1
  /\ phase' = [phase EXCEPT ![s] = IF leases = 1 THEN "removing" ELSE "closed"]

\* parkedPiSessions.delete: the map has one entry of a key at most.
Unparked(key) ==
  IF \E i \in DOMAIN parked : parked[i][1] = key
    THEN LET i == CHOOSE i \in DOMAIN parked : parked[i][1] = key
         IN SubSeq(parked, 1, i - 1) \o SubSeq(parked, i + 1, Len(parked))
    ELSE parked

\* A stop that leaves the calls on the host as they are.
Stopped_Unsettled(Q, next) ==
  /\ phase' = [s \in Run |-> IF s \in Q THEN next ELSE phase[s]]
  /\ UNCHANGED pending

\* Sessions Q are stopped by doDestroy, doStop or doSuspendTurn: their calls on
\* the host are settled, with an error; next is where the teardown goes on.
Stopped(Q, next) ==
  /\ phase' = [s \in Run |-> IF s \in Q THEN next ELSE phase[s]]
  /\ pending' = [s \in Run |-> IF s \in Q THEN {} ELSE pending[s]]

\* parkPiSession: under its key, last; the oldest ones beyond the limit are
\* destroyed.
Park(s) ==
  LET all == Append(Unparked(file[s]), <<file[s], s>>)
      over == IF Len(all) > MaxParked THEN Len(all) - MaxParked ELSE 0
  IN /\ parked' = SubSeq(all, over + 1, Len(all))
     /\ Stopped({all[i][2] : i \in 1..over}, "shutdown")

-----------------------------------------------------------------------------
(* createPiSession. *)

CanStart(r) == pc[r] = "idle" /\ \A q \in After[r] : pc[q] = "done"

\* No session is parked under the key: a lease on the tree, a new session.
Acquire(r, f) ==
  /\ leases' = leases + 1
  /\ phase' = [phase EXCEPT ![r] = "dirs"]
  /\ want' = [want EXCEPT ![r] = f]
  /\ gate' = [gate EXCEPT ![r] = IF r \in Gated THEN r ELSE None]
  /\ obj' = [obj EXCEPT ![r] = r]
  /\ pc' = [pc EXCEPT ![r] = "starting"]

StartCold(r, f) ==
  /\ CanStart(r) /\ f \in resume \cup {None}
  /\ \A i \in DOMAIN parked : parked[i][1] # f
  /\ resume' = resume \ {f}
  /\ Acquire(r, f)
  /\ UNCHANGED <<started, pulled, file, built, turns, active, emit, pending, calls,
                 late, parked, tree, mounts, mounted, saved>>

\* A parked session that is handed over with the gate of its former run.
TakeParked_KeepsGate(r, i) ==
  LET s == parked[i][2] IN
  /\ CanStart(r) /\ parked[i][1] \in resume
  /\ r \in Gated => s \in Gated
  /\ resume' = resume \ {parked[i][1]}
  /\ parked' = Unparked(parked[i][1])
  /\ obj' = [obj EXCEPT ![r] = s]
  /\ pc' = [pc EXCEPT ![r] = "driving"]
  /\ UNCHANGED <<started, phase, identity, file, built, gate, turns, active, emit, pending,
                 calls, late, leases, tree, mounts, mounted, saved>>

\* The parked session is handed to the run, with the run's gate.
TakeParked(r, i) ==
  LET s == parked[i][2] IN
  /\ CanStart(r) /\ parked[i][1] \in resume
  /\ r \in Gated => s \in Gated
  /\ resume' = resume \ {parked[i][1]}
  /\ parked' = Unparked(parked[i][1])
  /\ gate' = [gate EXCEPT ![s] = IF r \in Gated THEN r ELSE None]
  /\ obj' = [obj EXCEPT ![r] = s]
  /\ pc' = [pc EXCEPT ![r] = "driving"]
  /\ UNCHANGED <<started, phase, identity, file, built, turns, active, emit, pending,
                 calls, late, leases, tree, mounts, mounted, saved>>

\* The parked session was built without a gate and cannot admit this run's
\* requests: it is destroyed first.
Displace(r, i) ==
  LET s == parked[i][2] IN
  /\ CanStart(r) /\ parked[i][1] \in resume
  /\ r \in Gated /\ s \notin Gated
  /\ resume' = resume \ {parked[i][1]}
  /\ parked' = Unparked(parked[i][1])
  /\ Stopped({s}, "shutdown")
  /\ want' = [want EXCEPT ![r] = parked[i][1]]
  /\ obj' = [obj EXCEPT ![r] = s]
  /\ pc' = [pc EXCEPT ![r] = "displacing"]
  /\ UNCHANGED <<started, pulled, file, built, gate, turns, active, emit, calls, late,
                 leases, tree, mounts, mounted, saved>>

Displaced(r) ==
  /\ pc[r] = "displacing" /\ phase[obj[r]] = "closed"
  /\ Acquire(r, want[r])
  /\ UNCHANGED <<started, resume, pulled, file, built, turns, active, emit, pending,
                 calls, late, parked, tree, mounts, mounted, saved>>

\* The directories exist; skills; the journal is pulled from the sandbox, if
\* it is there; the mirror is filled.  The mount of the tree is next.
Mount(r) ==
  /\ phase[r] = "dirs"
  /\ phase' = [phase EXCEPT ![r] = "load"]
  /\ pulled' = IF want[r] \in saved THEN pulled \cup {r} ELSE pulled
  /\ mounted' = mounted \cup {r}
  /\ mounts' = mounts + 1
  /\ tree' = TRUE
  /\ UNCHANGED <<driver, want, engine, parked, leases, saved>>

\* Runtime, gate, credentials, resources and model are there.
Loaded(r) ==
  /\ phase[r] = "load"
  /\ phase' = [phase EXCEPT ![r] = "live"]
  /\ pc' = [pc EXCEPT ![r] = "driving"]
  /\ UNCHANGED <<obj, started, resume, identity, engine, shared, saved>>

\* A failed set-up that gives back the lease and leaves the mount.
SetupFails_KeepsMount(r) ==
  /\ phase[r] \in {"dirs", "load"}
  /\ leases' = leases - 1
  /\ phase' = [phase EXCEPT ![r] = IF leases = 1 THEN "removing" ELSE "closed"]
  /\ pc' = [pc EXCEPT ![r] = "leaving"]
  /\ UNCHANGED <<obj, started, resume, identity, engine, parked, tree, mounts, mounted, saved>>

\* Any step of the set-up rejects: what has been acquired is given back.
SetupFails(r) ==
  /\ phase[r] \in {"dirs", "load"}
  /\ Release(r)
  /\ pc' = [pc EXCEPT ![r] = "leaving"]
  /\ UNCHANGED <<obj, started, resume, identity, engine, parked, tree, saved>>

-----------------------------------------------------------------------------
(* Turns. *)

\* doPromptTurn, or doContinueTurn without a turn under way: a Pi session with
\* other tools is disposed of first.
Prompt(r) ==
  LET s == obj[r] IN
  /\ pc[r] = "driving" /\ started[r] < MaxTurns
  /\ r \notin turns[s]
  /\ started' = [started EXCEPT ![r] = @ + 1]
  /\ pc' = [pc EXCEPT ![r] = "preparing"]
  /\ UNCHANGED <<obj, resume, phase, identity, engine, shared, saved>>

\* rebuildPiSession; then resources and mirror are read again and the turn
\* starts.  The first build opens the journal that was pulled, a later one
\* starts a new journal.
Starts(r) ==
  LET s == obj[r]
      rebuild == built[s] # ToolsOf[r]
  IN
  /\ pc[r] = "preparing"
  /\ pc' = [pc EXCEPT ![r] = "driving"]
  /\ IF rebuild
       THEN /\ built' = [built EXCEPT ![s] = ToolsOf[r]]
            /\ file' = [file EXCEPT ![s] =
                 IF built[s] = None /\ s \in pulled THEN want[s] ELSE r]
       ELSE UNCHANGED <<built, file>>
  /\ turns' = [turns EXCEPT ![s] = @ \cup {r}]
  /\ active' = [active EXCEPT ![s] = r]
  /\ emit' = [emit EXCEPT ![s] = r]
  /\ calls' = [calls EXCEPT ![r] = {}]
  /\ UNCHANGED <<obj, started, resume, phase, identity, gate, pending, late, shared, saved>>

\* A tool of an extension has the name of one of the run's, or the mirror
\* cannot be read: the prompt rejects.  A disposed Pi session is not replaced.
StartFails(r) ==
  LET s == obj[r] IN
  /\ pc[r] = "preparing"
  /\ pc' = [pc EXCEPT ![r] = "driving"]
  /\ \/ UNCHANGED <<built, file>>
     \/ /\ built[s] # ToolsOf[r]
        /\ built' = [built EXCEPT ![s] = None] /\ UNCHANGED file
  /\ UNCHANGED <<obj, started, resume, phase, identity, gate, turns, active, emit,
                 pending, calls, late, shared, saved>>

\* doContinueTurn attaches the run's stream to the turn under way.
Continue(r) ==
  /\ pc[r] = "driving" /\ active[obj[r]] # None
  /\ emit[obj[r]] # r
  /\ emit' = [emit EXCEPT ![obj[r]] = r]
  /\ UNCHANGED <<driver, phase, identity, file, built, gate, turns, active, pending,
                 calls, late, shared, saved>>

\* Pi runs a tool of the host, or a builtin that wants an approval.
Calls(s, t, kind) ==
  /\ t \in turns[s] /\ kind \in Kinds[t] \ calls[t]
  /\ phase[s] \in {"live", "persist", "shutdown"}
  /\ \A r \in Run : pc[r] = "aborting" => obj[r] # s
  /\ calls' = [calls EXCEPT ![t] = @ \cup {kind}]
  /\ pending' = [pending EXCEPT ![s] = @ \cup {<<t, kind>>}]
  /\ late' = IF phase[s] = "live" THEN late ELSE late \cup {s}
  /\ UNCHANGED <<driver, phase, identity, file, built, gate, turns, active, emit,
                 shared, saved>>

\* submitToolResult, submitToolApproval.
Answers(r, c) ==
  /\ pc[r] = "driving" /\ c \in pending[obj[r]]
  /\ pending' = [pending EXCEPT ![obj[r]] = @ \ {c}]
  /\ UNCHANGED <<driver, phase, identity, file, built, gate, turns, active, emit,
                 calls, late, shared, saved>>

\* Pi's prompt settles, when no call of the turn is open.  Whichever turn it
\* is, the emit channel is cleared.
TurnEnds(s, t) ==
  /\ t \in turns[s] /\ \A c \in pending[s] : c[1] # t
  /\ turns' = [turns EXCEPT ![s] = @ \ {t}]
  /\ active' = [active EXCEPT ![s] = IF @ = t THEN None ELSE @]
  /\ emit' = [emit EXCEPT ![s] = None]
  /\ UNCHANGED <<driver, phase, identity, file, built, gate, pending, calls, late,
                 shared, saved>>

-----------------------------------------------------------------------------
(* The driver leaves the session. *)

Live(s) == active[s] # None

Waits(s, kinds) == \E c \in pending[s] : c[2] \in kinds

\* doDetach of a session with a live turn or an open call, doSuspendTurn of a
\* turn that waits for the host: the session is parked.
Parks(r) ==
  LET s == obj[r] IN
  /\ pc[r] = "driving" /\ (Live(s) \/ Waits(s, {"result"}))
  /\ Park(s)
  /\ pc' = [pc EXCEPT ![r] = "persisting"]
  /\ UNCHANGED <<obj, started, resume, identity, file, built, gate, turns, active, emit,
                 calls, late, leases, tree, mounts, mounted, saved>>

\* persistSessionFile after parking, as well as it can; the resume state goes
\* to the application.
ParkPersisted(r) ==
  /\ pc[r] = "persisting"
  /\ pc' = [pc EXCEPT ![r] = "done"]
  /\ resume' = resume \cup ({file[obj[r]]} \ {None})
  /\ \/ saved' = saved \cup ({file[obj[r]]} \ {None})
     \/ UNCHANGED saved
  /\ UNCHANGED <<obj, started, phase, identity, engine, shared>>

\* doStop, directly or by doDetach without a live turn.
Stops(r) ==
  LET s == obj[r] IN
  /\ pc[r] = "driving"
  /\ parked' = Unparked(file[s])
  /\ Stopped({s}, "persist")
  /\ pc' = [pc EXCEPT ![r] = "stopping"]
  /\ UNCHANGED <<obj, started, resume, identity, file, built, gate, turns, active, emit,
                 calls, late, leases, tree, mounts, mounted, saved>>

\* doDestroy.
Destroys(r) ==
  LET s == obj[r] IN
  /\ pc[r] = "driving"
  /\ parked' = Unparked(file[s])
  /\ Stopped({s}, "shutdown")
  /\ pc' = [pc EXCEPT ![r] = "leaving"]
  /\ UNCHANGED <<obj, started, resume, identity, file, built, gate, turns, active, emit,
                 calls, late, leases, tree, mounts, mounted, saved>>

\* doSuspendTurn of a turn that does not wait for the host: Pi is told to
\* abort it ...
Suspends(r) ==
  LET s == obj[r] IN
  /\ pc[r] = "driving" /\ ~(Live(s) /\ Waits(s, {"result", "approval"}))
  /\ pc' = [pc EXCEPT ![r] = "aborting"]
  /\ UNCHANGED <<obj, started, resume, phase, identity, engine, shared, saved>>

\* ... when Pi is idle the journal is copied, and then the session is stopped.
Suspended(r) ==
  LET s == obj[r] IN
  /\ pc[r] = "aborting" /\ turns[s] = {}
  /\ \/ saved' = saved \cup ({file[s]} \ {None})
     \/ UNCHANGED saved
  /\ parked' = Unparked(file[s])
  /\ Stopped({s}, "shutdown")
  /\ pc' = [pc EXCEPT ![r] = "stopping"]
  /\ UNCHANGED <<obj, started, resume, identity, file, built, gate, turns, active, emit,
                 calls, late, leases, tree, mounts, mounted>>

Persisted(s) ==
  /\ phase[s] = "persist"
  /\ phase' = [phase EXCEPT ![s] = "shutdown"]
  /\ \/ saved' = saved \cup ({file[s]} \ {None})
     \/ UNCHANGED saved
  /\ UNCHANGED <<driver, identity, engine, shared>>

\* The extensions have heard of the end; the Pi session is disposed of.
ShutDown(s) ==
  /\ phase[s] = "shutdown"
  /\ Release(s)
  /\ built' = [built EXCEPT ![s] = None]
  /\ UNCHANGED <<driver, identity, file, gate, turns, active, emit, pending, calls,
                 late, parked, tree, saved>>

\* The tree has been removed.
RootRemoved(s) ==
  /\ phase[s] = "removing"
  /\ phase' = [phase EXCEPT ![s] = "closed"]
  /\ tree' = FALSE
  /\ UNCHANGED <<driver, identity, engine, parked, leases, mounts, mounted, saved>>

\* doStop and doSuspendTurn return a resume state, doDestroy returns nothing
\* and a failed set-up rejects.
Leaves(r) ==
  /\ pc[r] \in {"stopping", "leaving"} /\ phase[obj[r]] = "closed"
  /\ pc' = [pc EXCEPT ![r] = "done"]
  /\ resume' = IF pc[r] = "stopping" THEN resume \cup ({file[obj[r]]} \ {None})
               ELSE resume
  /\ UNCHANGED <<obj, started, phase, identity, engine, shared, saved>>

-----------------------------------------------------------------------------
\* What comes by itself, given that sandbox, disk, extensions and Pi's
\* requests answer.
Advance(r) ==
  \/ Displaced(r) \/ Mount(r) \/ Loaded(r) \/ Starts(r)
  \/ ParkPersisted(r) \/ Suspended(r) \/ Leaves(r)
  \/ Persisted(r) \/ ShutDown(r) \/ RootRemoved(r)

Next == \E r \in Run :
  \/ Advance(r) \/ SetupFails(r) \/ StartFails(r)
  \/ \E f \in Run \cup {None} : StartCold(r, f)
  \/ \E i \in DOMAIN parked : TakeParked(r, i) \/ Displace(r, i)
  \/ Prompt(r) \/ Continue(r)
  \/ \E t \in Run : TurnEnds(r, t)
  \/ \E t \in Run, kind \in {"result", "approval"} : Calls(r, t, kind)
  \/ \E t \in Run, kind \in {"result", "approval"} : Answers(r, <<t, kind>>)
  \/ Parks(r) \/ Stops(r) \/ Destroys(r) \/ Suspends(r)

Spec == Init /\ [][Next]_vars

FairSpec == Spec /\ \A r \in Run :
  /\ WF_vars(Advance(r))
  /\ WF_vars(\E t \in Run : TurnEnds(r, t))

-----------------------------------------------------------------------------
(* Properties. *)

Holding(s) == phase[s] \in {"dirs", "load", "live", "persist", "shutdown"}

\* The counts agree with the sessions: a lease for each one between the start
\* of its set-up and the end of its teardown, a reference to the mount for each
\* one that has come so far, and nothing for a closed one, however it ended;
\* when all are closed the tree is gone.
\* A live session is driven by exactly one run or else parked, so that
\* somebody can still destroy it.
HeldIffLive ==
  /\ leases = Cardinality({s \in Run : Holding(s)})
  /\ mounts = Cardinality(mounted)
  /\ \A s \in Run : s \in mounted <=> phase[s] \in {"load", "live", "persist", "shutdown"}
  /\ tree => \E s \in Run : Holding(s) \/ phase[s] = "removing"
  /\ Len(parked) <= MaxParked
  /\ \A s \in Run : phase[s] = "live" =>
       Cardinality({r \in Run : Drives(r) /\ obj[r] = s}
                   \cup {i \in DOMAIN parked : parked[i][2] = s}) = 1
  /\ \A i \in DOMAIN parked : phase[parked[i][2]] = "live" /\ file[parked[i][2]] = parked[i][1]

\* A session that is set up has its tree on disk until it is torn down: no
\* other session's end deletes it out from under this one.
TreeKept ==
  \A s \in Run : phase[s] \in {"load", "live"} => tree

\* A run's requests are admitted by its own gate and no one else's: neither a
\* session without a gate nor the gate of a run that has ended serves it.
OwnGate ==
  \A r \in Run : Drives(r) =>
    gate[obj[r]] = (IF r \in Gated THEN r ELSE None)

\* A session that is torn down gives back what it holds and its turns settle,
\* unless Pi has called the host after the teardown began.
EveryTeardownEnds ==
  \A s \in Run : phase[s] \in {"persist", "shutdown"} ~>
    phase[s] = "closed" /\ (turns[s] = {} \/ s \in late)
=============================================================================
