------------------------------ MODULE Workspace ------------------------------
(***************************************************************************)
(* The files of one sandbox and the three things RunCell derives from them *)
(* while they change: the mirror of Pi's configuration on the host, which  *)
(* Pi reads through a patched fs (packages/harness-pi-raw/src/             *)
(* pi-workspace-mirror.ts, pi-workspace-vfs.ts), the files a run's result  *)
(* names as changed (pi-remote-ops.ts, and runtime.ts of packages/agent),  *)
(* and the snapshot of a sandbox handle (sandbox-handle.ts).               *)
(*                                                                         *)
(* Runs that share a handle, or a root directory on the host, share the    *)
(* sandbox.  Every request to it is a step; what a caller does between two *)
(* requests is part of a step.  The content of a file is a set of tokens,  *)
(* of which an edit replaces one by another.                               *)
(***************************************************************************)
EXTENDS Sequences, FiniteSets, Integers

CONSTANTS
  Run,         \* the runs in this sandbox
  IdOf,        \* the session id of each run; sessions of an id share a mirror
  Path,        \* the paths of the workspace
  Above,       \* the proper ancestors of each path
  ConfigDir,   \* PI_CONFIG_DIRS
  ContextFile, \* PI_CONTEXT_FILENAMES
  AgentState,  \* what lies in AGENT_STATE_DIR
  Awkward,     \* names that assertSafeWorkspacePath refuses
  ListedAs,    \* what the lines of find's output name for each file: itself, or
               \* something else if its name has line breaks or outer blanks
  Seed,        \* the file a run brings along, or None
  Token,       \* what the contents of files are made of
  Call, Does,  \* tool calls; each one's run, op, path, spelling, text and old
  MaxTurns,    \* bound: turns of a run
  MaxCalls,    \* bound: calls that are made
  AppPath,     \* bound: what the application writes or removes
  MaxApp,      \* bound: changes the application makes
  Beside,      \* bound: the runs there are next to a snapshot
  InitTree,    \* trees the sandbox may start with
  InitMirror,  \* what earlier sessions of the id may have left on the host
  None, Dir    \* what a tree has at a path that is not a file

Op == {"write", "edit", "look", "bash"}
Spelling == {"relative", "sandbox", "host", "skill", "outside"}

ASSUME WorkspaceAssumption ==
  /\ IsFiniteSet(Run) /\ IsFiniteSet(Path) /\ IsFiniteSet(Call)
  /\ Above \in [Path -> SUBSET Path]
  /\ \A p \in Path : p \notin Above[p] /\ \A q \in Above[p] : Above[q] \subseteq Above[p]
  /\ ListedAs \in [Path -> SUBSET Path]
  /\ ConfigDir \cup ContextFile \cup AgentState \cup Awkward \subseteq Path
  /\ Seed \in [Run -> (Path \ Awkward) \cup {None}]
  /\ Run \subseteq Token /\ None # Dir /\ None \notin Run \cup Path
  /\ \A b \in SUBSET Token : b \notin {None, Dir}
  /\ \A k \in {"create", "modify"}, b \in SUBSET Token : [change |-> k, bytes |-> b] # None
  /\ \A c \in Call : /\ Does[c].run \in Run /\ Does[c].op \in Op
                     /\ Does[c].path \in Path /\ Does[c].spelling \in Spelling
                     /\ Does[c].text \in SUBSET Token
  /\ \A t \in InitTree \cup InitMirror :
       /\ t \in [Path -> (SUBSET Token) \cup {None, Dir}]
       /\ \A p \in Path : t[p] # None => \A q \in Above[p] : t[q] = Dir
  /\ AppPath \subseteq Path \ (AgentState \cup Awkward)
  /\ MaxTurns \in Nat /\ MaxCalls \in Nat /\ MaxApp \in Nat /\ Beside \subseteq Run

VARIABLES
  fs,       \* the tree in the sandbox
  mirror,   \* hostWorkDir of each id: a tree
  refs,     \* mountedRoots of each id
  patched,  \* fs is patched
  mounted,  \* runs whose session has its mirror mounted
  pc,       \* where each run stands
  turns,    \* turns begun
  stage,    \* of each run: the next step of its sync, or "off"
  listed,   \* of each run: the files and directories its sync has listed, and
            \* the files it has yet to copy
  at,       \* of each call: its next step
  prior,    \* of each call: whether the file it writes was there
  text,     \* of each call: what it writes
  events,   \* file changes of a run that its stream's reader has not handled
  changed,  \* changedFiles
  snap,     \* the application's snapshot: paths to read, files read; ghost:
            \* whether the listing was whole
  restored, \* the tree of the sandbox restored from it, or None
  appOps,   \* bound: changes so far
  clean,    \* ghost: runs that nobody has disturbed since their sync's listing
  existed,  \* ghost: the files there were when a run's first turn began
  landed,   \* ghost: paths the run's tools have written
  foreign,  \* ghost: paths others, or shells, have changed since then
  had       \* ghost: what has been at each path while the snapshot was taken

sandbox == <<fs, clean, foreign, had>>
host == <<mirror, refs, patched, mounted>>
syncs == <<stage, listed>>
tools == <<at, prior, text, landed>>
report == <<events, changed, existed>>
handle == <<snap, restored, appOps>>
vars == <<sandbox, host, pc, turns, syncs, tools, report, handle>>

-----------------------------------------------------------------------------
(* Trees. *)

IsFile(t, p) == t[p] \notin {None, Dir}
Files(t) == {p \in Path : IsFile(t, p)}

\* What assertSafeWorkspacePath lets through.
Allowed == Path \ Awkward

\* A file can be read or written there: the path is not a directory and leads
\* through none that is a file.  Reading what is not there gives nothing.
Accessible(t, p) == t[p] # Dir /\ \A q \in Above[p] : ~IsFile(t, q)

\* mkdir -p of the directory a path is in, which may fail.
WithDirs(t, p) ==
  IF \E q \in Above[p] : IsFile(t, q) THEN t
  ELSE [q \in Path |-> IF q \in Above[p] THEN Dir ELSE t[q]]

\* A file is written; missing directories are made.
Written(t, p, content) == [WithDirs(t, p) EXCEPT ![p] = content]

\* rm -rf
Removed(t, p) == [q \in Path |-> IF q = p \/ p \in Above[q] THEN None ELSE t[q]]

\* What Pi's resource loader looks at: the configuration directories with all
\* that is in them, and the context files.
InScope(p) == p \in ConfigDir \cup ContextFile \/ Above[p] \cap ConfigDir # {}
ConfigFiles(t) == {p \in Files(t) : InScope(p) /\ p \notin ConfigDir}
ConfigDirs(t) == {p \in Path : t[p] = Dir /\ InScope(p) /\ p \notin ContextFile}
Config(t) == [p \in ConfigFiles(t) \cup ConfigDirs(t) |-> t[p]]

\* The sandbox becomes tree t.  Own is the run whose tool writes it, or None.
Becomes(t, own) ==
  LET diff == {p \in Path : t[p] # fs[p]} IN
  /\ fs' = t
  /\ clean' = IF Config(t) = Config(fs) THEN clean ELSE {}
  /\ foreign' = [r \in Run |-> IF r = own THEN foreign[r] ELSE foreign[r] \cup diff]
  /\ had' = IF snap.stage = "reading" THEN [p \in Path |-> had[p] \cup {t[p]}] ELSE had

Init ==
  /\ fs \in InitTree
  /\ mirror \in [{IdOf[r] : r \in Run} -> InitMirror]
  /\ refs = [i \in {IdOf[r] : r \in Run} |-> 0]
  /\ patched = FALSE /\ mounted = {}
  /\ pc = [r \in Run |-> "idle"] /\ turns = [r \in Run |-> 0]
  /\ stage = [r \in Run |-> "off"]
  /\ listed = [r \in Run |-> [files |-> {}, dirs |-> {}, left |-> {}]]
  /\ at = [c \in Call |-> "new"]
  /\ prior = [c \in Call |-> FALSE]
  /\ text = [c \in Call |-> {}]
  /\ events = [r \in Run |-> <<>>]
  /\ changed = [r \in Run |-> [p \in Path |-> None]]
  /\ snap = [stage |-> "none", left |-> {}, files |-> [p \in Path |-> None],
             whole |-> FALSE]
  /\ restored = None
  /\ appOps = 0
  /\ clean = {} /\ had = [p \in Path |-> {}]
  /\ existed = [r \in Run |-> {}]
  /\ landed = [r \in Run |-> {}]
  /\ foreign = [r \in Run |-> {}]

-----------------------------------------------------------------------------
(* A run's session: seeds, the mirror, the mount. *)

Mirror(r) == mirror[IdOf[r]]

\* The mirror changes under the sync of run r.
MirrorBecomes(r, t) ==
  /\ mirror' = [mirror EXCEPT ![IdOf[r]] = t]
  /\ clean' = IF t = Mirror(r) THEN clean
              ELSE {q \in clean : q = r \/ IdOf[q] # IdOf[r]}
  /\ UNCHANGED <<fs, foreign, had, refs, patched, mounted>>

\* createSession: onSession seeds the run's file, if it has one; then the
\* adapter sets the session up.
Starts(r) ==
  /\ pc[r] = "idle" /\ (r \in Beside \/ snap.stage = "none")
  /\ IF Seed[r] = None
       THEN /\ pc' = [pc EXCEPT ![r] = "setup"]
            /\ stage' = [stage EXCEPT ![r] = "list"]
       ELSE pc' = [pc EXCEPT ![r] = "seeding"] /\ UNCHANGED stage
  /\ UNCHANGED <<sandbox, host, turns, listed, tools, report, handle>>

\* seedFiles: mkdir and write; a path in the way fails the run.
Seeds(r) ==
  /\ pc[r] = "seeding"
  /\ IF Accessible(fs, Seed[r])
       THEN /\ Becomes(Written(fs, Seed[r], {r}), None)
            /\ pc' = [pc EXCEPT ![r] = "setup"]
            /\ stage' = [stage EXCEPT ![r] = "list"]
       ELSE /\ pc' = [pc EXCEPT ![r] = "failed"]
            /\ UNCHANGED <<sandbox, stage>>
  /\ UNCHANGED <<host, turns, listed, tools, report, handle>>

\* listRemoteWorkspaceEntries: one command in the sandbox.
Lists(r) ==
  /\ stage[r] = "list"
  /\ stage' = [stage EXCEPT ![r] = "prune"]
  /\ listed' = [listed EXCEPT ![r] = [files |-> ConfigFiles(fs), dirs |-> ConfigDirs(fs),
                                      left |-> ConfigFiles(fs)]]
  /\ clean' = clean \cup {r}
  /\ UNCHANGED <<fs, foreign, had, host, pc, turns, tools, report, handle>>

\* buildRequiredDirectories
Required(l) == l.dirs \cup UNION {Above[p] : p \in l.files}

\* Only stale files are removed; what has become a file stays a directory.
Prunes_FilesOnly(r) ==
  LET m == Mirror(r) IN
  /\ stage[r] = "prune"
  /\ stage' = [stage EXCEPT ![r] = "dirs"]
  /\ MirrorBecomes(r, [p \in Path |->
       IF p \in ConfigFiles(m) \ listed[r].files THEN None ELSE m[p]])
  /\ UNCHANGED <<pc, turns, listed, tools, report, handle>>

\* collectHostScopedEntries; files, then directories that are not in the
\* sandbox any more are removed, the latter with all that is in them.
Prunes(r) ==
  LET m == Mirror(r)
      gone == (ConfigFiles(m) \ listed[r].files)
              \cup (ConfigDirs(m) \ Required(listed[r]))
  IN /\ stage[r] = "prune"
     /\ stage' = [stage EXCEPT ![r] = "dirs"]
     /\ MirrorBecomes(r, [p \in Path |->
          IF p \in gone \/ Above[p] \cap gone # {} THEN None ELSE m[p]])
     /\ UNCHANGED <<pc, turns, listed, tools, report, handle>>

\* mkdir of what is required, which a file in its place makes fail.
MakesHostDirs(r) ==
  LET m == Mirror(r) IN
  /\ stage[r] = "dirs"
  /\ \A d \in Required(listed[r]) : ~IsFile(m, d)
  /\ stage' = [stage EXCEPT ![r] = "copy"]
  /\ MirrorBecomes(r, [p \in Path |-> IF p \in Required(listed[r]) THEN Dir ELSE m[p]])
  /\ UNCHANGED <<pc, turns, listed, tools, report, handle>>

\* One listed file after the other is read from the sandbox and written.
Copies(r) ==
  LET l == listed[r]
      p == CHOOSE q \in l.left : TRUE
  IN /\ stage[r] = "copy" /\ l.left # {}
     /\ IsFile(fs, p) /\ Accessible(Mirror(r), p)
     /\ listed' = [listed EXCEPT ![r].left = @ \ {p}]
     /\ MirrorBecomes(r, Written(Mirror(r), p, fs[p]))
     /\ UNCHANGED <<pc, turns, stage, tools, report, handle>>

\* A request fails, a file has disappeared, or something is in the way on the
\* host: the sync rejects, and with it the set-up or the prompt.
SyncFails(r) ==
  /\ stage[r] # "off"
  /\ stage' = [stage EXCEPT ![r] = "off"]
  /\ pc' = [pc EXCEPT ![r] = "failed"]
  /\ UNCHANGED <<sandbox, host, turns, listed, tools, report, handle>>

Synced(r) == stage[r] = "copy" /\ listed[r].left = {}

\* Exported fs is replaced by the wrapped one while anything is mounted.
InstallPatches == patched' = TRUE
RestorePatches == patched' = (\E i \in DOMAIN refs : refs'[i] > 0)

\* The set-up's sync is complete: the mirror is mounted at the work directory.
Mounts(r) ==
  /\ pc[r] = "setup" /\ Synced(r)
  /\ pc' = [pc EXCEPT ![r] = "ready"]
  /\ stage' = [stage EXCEPT ![r] = "off"]
  /\ refs' = [refs EXCEPT ![IdOf[r]] = @ + 1]
  /\ InstallPatches
  /\ mounted' = mounted \cup {r}
  /\ UNCHANGED <<sandbox, mirror, turns, listed, tools, report, handle>>

\* The session of a run that is over: the last one takes the entry out, and
\* the last entry the patches.
Unmounts(r) ==
  /\ pc[r] \in {"done", "cut", "failed"} /\ r \in mounted
  /\ mounted' = mounted \ {r}
  /\ refs' = [refs EXCEPT ![IdOf[r]] = @ - 1]
  /\ RestorePatches
  /\ UNCHANGED <<sandbox, mirror, pc, turns, syncs, tools, report, handle>>

\* findMountedRoot, of the work directory of a run.
MountedRoot(r) == refs[IdOf[r]] > 0

\* mapToBackingPath: without a mount the path is one of the host, where the
\* work directory of a sandbox does not exist.
Backing(r) == IF MountedRoot(r) THEN Mirror(r) ELSE [p \in Path |-> None]

\* What Pi finds under the work directory of run r, by any call of fs.
PiReads(r) == Config(IF patched THEN Backing(r) ELSE [p \in Path |-> None])

-----------------------------------------------------------------------------
(* Turns. *)

\* runTurn: the mirror is brought up to date first.
Prompts(r) ==
  /\ pc[r] = "ready" /\ turns[r] < MaxTurns
  /\ pc' = [pc EXCEPT ![r] = "preparing"]
  /\ stage' = [stage EXCEPT ![r] = "list"]
  /\ turns' = [turns EXCEPT ![r] = @ + 1]
  /\ UNCHANGED <<sandbox, host, listed, tools, report, handle>>

TurnStarts(r) ==
  /\ pc[r] = "preparing" /\ Synced(r)
  /\ pc' = [pc EXCEPT ![r] = "turn"]
  /\ stage' = [stage EXCEPT ![r] = "off"]
  /\ IF turns[r] = 1
       THEN /\ existed' = [existed EXCEPT ![r] = Files(fs)]
            /\ foreign' = [foreign EXCEPT ![r] = {}]
       ELSE UNCHANGED <<existed, foreign>>
  /\ UNCHANGED <<fs, clean, had, host, turns, listed, tools, events, changed, handle>>

Busy(r) == \E c \in Call : Does[c].run = r /\ at[c] \notin {"new", "done", "failed"}

\* Pi has settled its tools, and the stream is read to its end: the run makes
\* another turn, or returns its result.
TurnEnds(r) ==
  /\ pc[r] = "turn" /\ ~Busy(r) /\ events[r] = <<>>
  /\ pc' \in {[pc EXCEPT ![r] = next] : next \in {"ready", "done"}}
  /\ UNCHANGED <<sandbox, host, turns, syncs, tools, report, handle>>

\* The loop over the stream throws: what the stream still holds is not handled,
\* and tools of Pi that have begun go on.  The run fails, or, if a submission has
\* been accepted, returns its result with the changes handled so far.
LoopThrows(r) == pc' \in {[pc EXCEPT ![r] = next] : next \in {"failed", "cut"}}

\* The stream is broken off, by the caller's signal or an error.
BreaksOff(r) ==
  /\ pc[r] = "turn"
  /\ LoopThrows(r)
  /\ UNCHANGED <<sandbox, host, turns, syncs, tools, report, handle>>

-----------------------------------------------------------------------------
(* The builtin tools. *)

\* createPiPathMapper: toSandboxPath, and toReadableSandboxPath for the tools
\* that only read; anything else is refused.
Reaches(c) ==
  Does[c].spelling \in {"relative", "sandbox", "host"}
                       \cup (IF Does[c].op = "look" THEN {"skill"} ELSE {})

FirstStep == [write |-> "prior", edit |-> "edit", look |-> "look", bash |-> "bash"]

Goes(c, next) == at' = [at EXCEPT ![c] = next]

\* Pi runs a tool; in a run of RunCell no builtin asks for an approval.
Begins(c) ==
  /\ at[c] = "new" /\ pc[Does[c].run] = "turn"
  /\ Cardinality({d \in Call : at[d] # "new"}) < MaxCalls
  /\ Goes(c, IF Does[c].op = "bash" \/ Reaches(c) THEN FirstStep[Does[c].op] ELSE "failed")
  /\ text' = [text EXCEPT ![c] = Does[c].text]
  /\ UNCHANGED <<sandbox, host, pc, turns, syncs, prior, landed, report, handle>>

\* editFile: the text is replaced in what was read, if it is there.
EditReads(c) ==
  LET p == Does[c].path
      old == Does[c].old
  IN /\ at[c] = "edit"
     /\ IF IsFile(fs, p) /\ old \subseteq fs[p]
          THEN /\ Goes(c, "prior")
               /\ text' = [text EXCEPT ![c] = (fs[p] \ old) \cup Does[c].text]
          ELSE Goes(c, "failed") /\ UNCHANGED text
     /\ UNCHANGED <<sandbox, host, pc, turns, syncs, prior, landed, report, handle>>

\* writeFile: is there a file already?
ReadsPrior(c) ==
  /\ at[c] = "prior"
  /\ Goes(c, IF Accessible(fs, Does[c].path) THEN "dirs" ELSE "failed")
  /\ prior' = [prior EXCEPT ![c] = IsFile(fs, Does[c].path)]
  /\ UNCHANGED <<sandbox, host, pc, turns, syncs, text, landed, report, handle>>

\* mkdir -p, whose exit code nobody reads.
MakesDirs(c) ==
  /\ at[c] = "dirs"
  /\ Goes(c, "put")
  /\ Becomes(WithDirs(fs, Does[c].path), None)
  /\ UNCHANGED <<host, pc, turns, syncs, prior, text, landed, report, handle>>

\* The file is written; the answer may be lost.
Puts(c) ==
  LET p == Does[c].path
      r == Does[c].run
  IN /\ at[c] = "put" /\ Accessible(fs, p)
     /\ \/ /\ Becomes(Written(fs, p, text[c]), r)
           /\ Goes(c, "tell")
           /\ landed' = [landed EXCEPT ![r] = @ \cup {p}]
        \/ /\ Becomes(Written(fs, p, text[c]), None)
           /\ Goes(c, "failed") /\ UNCHANGED landed
     /\ UNCHANGED <<host, pc, turns, syncs, prior, text, report, handle>>

\* onFileChange: a part of the run's stream, whether somebody reads it or not.
Tells(c) ==
  LET r == Does[c].run
      e == [kind |-> IF prior[c] THEN "modify" ELSE "create", path |-> Does[c].path]
  IN /\ at[c] = "tell"
     /\ Goes(c, "done")
     /\ events' = [events EXCEPT ![r] = Append(@, e)]
     /\ UNCHANGED <<sandbox, host, pc, turns, syncs, prior, text, landed, changed, existed, handle>>

\* read, ls, find, grep: what is not there is an error.
Looks(c) ==
  /\ at[c] = "look"
  /\ Goes(c, IF fs[Does[c].path] # None \/ Does[c].spelling = "skill"
             THEN "done" ELSE "failed")
  /\ UNCHANGED <<sandbox, host, pc, turns, syncs, prior, text, landed, report, handle>>

\* The sandbox runs a command: it writes a file, removes what is at a path, or
\* is killed before.
Command(p, content) ==
  \/ Accessible(fs, p) /\ Becomes(Written(fs, p, content), None)
  \/ Becomes(Removed(fs, p), None)
  \/ UNCHANGED sandbox

\* exec, which its timeout or the turn's signal stop.  It reports no change.
RunsShell(c) ==
  /\ at[c] = "bash"
  /\ Goes(c, "done")
  /\ Command(Does[c].path, text[c])
  /\ UNCHANGED <<host, pc, turns, syncs, prior, text, landed, report, handle>>

\* A request to the sandbox fails, or a directory is in the way.
CallFails(c) ==
  /\ at[c] \in {"edit", "prior", "dirs", "put", "look", "bash"}
  /\ Goes(c, "failed")
  /\ UNCHANGED <<sandbox, host, pc, turns, syncs, prior, text, landed, report, handle>>

-----------------------------------------------------------------------------
(* The run's stream. *)

\* recordFileChange that takes the last event's kind.
Records_LastKind(r) ==
  LET e == Head(events[r]) IN
  /\ pc[r] = "turn" /\ events[r] # <<>>
  /\ IF e.path \in Allowed /\ Accessible(fs, e.path)
       THEN /\ events' = [events EXCEPT ![r] = Tail(@)]
            /\ changed' = IF ~IsFile(fs, e.path) THEN changed
                          ELSE [changed EXCEPT ![r][e.path] =
                                 [change |-> e.kind, bytes |-> fs[e.path]]]
            /\ UNCHANGED pc
       ELSE LoopThrows(r) /\ UNCHANGED <<events, changed>>
  /\ UNCHANGED <<sandbox, host, turns, syncs, tools, existed, handle>>

\* recordFileChange: the file is read as it is now; a created file stays one.
\* A name the workspace does not allow, or a path that cannot be read, throws.
Records(r) ==
  LET e == Head(events[r])
      old == changed[r][e.path]
      created == e.kind = "create" \/ (old # None /\ old.change = "create")
  IN /\ pc[r] = "turn" /\ events[r] # <<>>
     /\ IF e.path \in Allowed /\ Accessible(fs, e.path)
          THEN /\ events' = [events EXCEPT ![r] = Tail(@)]
               /\ changed' = IF ~IsFile(fs, e.path) THEN changed
                             ELSE [changed EXCEPT ![r][e.path] =
                                    [change |-> IF created THEN "create" ELSE "modify",
                                     bytes |-> fs[e.path]]]
               /\ UNCHANGED pc
          ELSE LoopThrows(r) /\ UNCHANGED <<events, changed>>
     /\ UNCHANGED <<sandbox, host, turns, syncs, tools, existed, handle>>

-----------------------------------------------------------------------------
(* The handle, in the hands of the application. *)

\* writeFile, remove and exec.
AppChanges(p) ==
  /\ appOps < MaxApp
  /\ appOps' = appOps + 1
  /\ Command(p, {})
  /\ UNCHANGED <<host, pc, turns, syncs, tools, report, snap, restored>>

\* The names in the output of find, without the agent's own state.
Lines == (UNION {ListedAs[p] : p \in Files(fs)}) \ AgentState

\* snapshot: find, whose exit code nobody reads.  A command that is broken off or
\* fails gives some of the lines, the last one perhaps cut to another name ...
SnapLists ==
  /\ snap.stage = "none" /\ \A r \in Run \ Beside : pc[r] = "idle"
  /\ \E left \in SUBSET (Path \ AgentState) :
       /\ Cardinality(left \ Lines) <= 1
       /\ snap' = [snap EXCEPT !.stage = "reading", !.left = left,
                               !.whole = (Lines \subseteq left)]
  /\ had' = [p \in Path |-> {fs[p]}]
  /\ UNCHANGED <<fs, clean, foreign, host, pc, turns, syncs, tools, report, restored, appOps>>

\* A file that is gone by now ends up in the snapshot as an empty one.
SnapReads_Empty ==
  LET p == CHOOSE q \in snap.left : TRUE IN
  /\ snap.stage = "reading" /\ snap.left # {}
  /\ snap' = [snap EXCEPT !.left = @ \ {p},
                          !.files[p] = IF IsFile(fs, p) THEN fs[p] ELSE {}]
  /\ UNCHANGED <<sandbox, host, pc, turns, syncs, tools, report, restored, appOps>>

\* ... and then one file after the other.  One that is gone is left out; what
\* has become unreadable makes the snapshot reject.
SnapReads ==
  LET p == CHOOSE q \in snap.left : TRUE IN
  /\ snap.stage = "reading" /\ snap.left # {}
  /\ snap' = IF Accessible(fs, p)
               THEN [snap EXCEPT !.left = @ \ {p},
                                 !.files[p] = IF IsFile(fs, p) THEN fs[p] ELSE None]
               ELSE [snap EXCEPT !.stage = "failed"]
  /\ UNCHANGED <<sandbox, host, pc, turns, syncs, tools, report, restored, appOps>>

Taken == snap.stage \in {"reading", "kept"} /\ snap.left = {}

\* restoreSandbox: every name is validated before a sandbox is created.  The
\* files are written in turn; two that exclude each other make it reject.
Restores ==
  LET kept == {p \in Path : snap.files[p] # None} IN
  /\ snap.stage = "reading" /\ Taken
  /\ snap' = [snap EXCEPT !.stage = "kept"]
  /\ restored' =
       IF kept \subseteq Allowed /\ \A p \in kept : Above[p] \cap kept = {}
         THEN [p \in Path |-> IF p \in kept THEN snap.files[p]
                              ELSE IF \E q \in kept : p \in Above[q] THEN Dir ELSE None]
         ELSE None
  /\ UNCHANGED <<sandbox, host, pc, turns, syncs, tools, report, appOps>>

-----------------------------------------------------------------------------
Next ==
  \/ \E r \in Run :
       \/ Starts(r) \/ Seeds(r) \/ Prompts(r)
       \/ Lists(r) \/ Prunes(r) \/ MakesHostDirs(r) \/ Copies(r) \/ SyncFails(r)
       \/ Mounts(r) \/ Unmounts(r)
       \/ TurnStarts(r) \/ TurnEnds(r) \/ BreaksOff(r) \/ Records(r)
  \/ \E c \in Call :
       \/ Begins(c) \/ EditReads(c) \/ ReadsPrior(c) \/ MakesDirs(c) \/ Puts(c)
       \/ Tells(c) \/ Looks(c) \/ RunsShell(c) \/ CallFails(c)
  \/ \E p \in AppPath : AppChanges(p)
  \/ SnapLists \/ SnapReads \/ Restores

Spec == Init /\ [][Next]_vars

-----------------------------------------------------------------------------
(* Properties. *)

\* After a sync that nobody has disturbed, and until somebody changes Pi's
\* configuration in the sandbox or another session of the id writes to the
\* mirror, Pi finds on the host exactly the configuration that is in the
\* sandbox: whatever an earlier session or a broken-off sync has left in the
\* mirror is gone, and the ends of the other sessions have not unmounted it.
MirrorExact ==
  \A r \in Run : pc[r] = "turn" /\ r \in clean => PiReads(r) = Config(fs)

\* The changes of a run that nobody has read, or will.
Unread(r) ==
  {events[r][i].path : i \in DOMAIN events[r]}
  \cup {Does[c].path : c \in {d \in Call : Does[d].run = r /\ at[d] = "tell"}}

\* The result of a run names exactly the files its tools have written, those
\* that were not there before the run as created and the others as modified,
\* with the bytes they have in the end, however tool calls, their reports and
\* the reading of the stream interleave.  It says nothing of the paths that
\* somebody else, or a shell command, has changed meanwhile.  A result that is
\* returned although the stream broke off is as exact, but for the files with a
\* change that was not read: these the run's tools have written all the same,
\* and none that was there before is named as created.
ReportExact ==
  \A r \in Run : pc[r] \in {"done", "cut"} =>
    \A p \in Path \ foreign[r] :
      \/ changed[r][p] =
           IF p \notin landed[r] THEN None
           ELSE [change |-> IF p \in existed[r] THEN "modify" ELSE "create",
                 bytes |-> fs[p]]
      \/ /\ pc[r] = "cut" /\ p \in Unread(r) \cap landed[r]
         /\ changed[r][p] # None /\ p \in existed[r] => changed[r][p].change = "modify"

\* A snapshot has at a path the bytes of a file that was there at some moment
\* while it was taken, whatever runs and commands do meanwhile.  If the listing
\* was whole, a file with an ordinary name is missing only if for a moment there
\* was none.  It never has the agent's own state, and the sandbox restored from
\* it has just its files.
SnapshotExact ==
  Taken =>
    /\ \A p \in Path : snap.files[p] # None =>
         p \notin AgentState /\ snap.files[p] \in had[p]
    /\ snap.whole => \A p \in Path \ AgentState :
         p \in ListedAs[p] /\ snap.files[p] = None => had[p] \cap {None, Dir} # {}
    /\ restored # None =>
         \A p \in Path : IsFile(restored, p) <=> snap.files[p] # None
=============================================================================
