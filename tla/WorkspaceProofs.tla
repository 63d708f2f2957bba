---------------------------- MODULE WorkspaceProofs ----------------------------
(***************************************************************************)
(* Proofs about Workspace, for any tree of paths, any runs, tool calls and *)
(* interference: what Pi finds on the host, what a result names as changed *)
(* and what a snapshot has in it.                                          *)
(***************************************************************************)
EXTENDS Workspace, TLAPS, FiniteSetTheorems

-----------------------------------------------------------------------------
(* Types. *)

Content == SUBSET Token
Tree == [Path -> Content \cup {None, Dir}]
Ids == {IdOf[r] : r \in Run}
Place == {"idle", "seeding", "setup", "ready", "preparing", "turn", "done", "cut", "failed"}
Stage == {"off", "list", "prune", "dirs", "copy"}
At == {"new", "edit", "prior", "dirs", "put", "tell", "look", "bash", "done", "failed"}
Change == [change : {"create", "modify"}, bytes : Content]
Event == [kind : {"create", "modify"}, path : Path]

TypeOK ==
  /\ fs \in Tree
  /\ mirror \in [Ids -> Tree] /\ refs \in [Ids -> Int]
  /\ patched \in BOOLEAN /\ mounted \subseteq Run
  /\ pc \in [Run -> Place] /\ turns \in [Run -> Nat]
  /\ stage \in [Run -> Stage]
  /\ listed \in [Run -> [files : SUBSET Path, dirs : SUBSET Path, left : SUBSET Path]]
  /\ at \in [Call -> At] /\ prior \in [Call -> BOOLEAN] /\ text \in [Call -> Content]
  /\ events \in [Run -> Seq(Event)]
  /\ changed \in [Run -> [Path -> Change \cup {None}]]
  /\ snap \in [stage : {"none", "reading", "kept", "failed"}, left : SUBSET Path,
               files : [Path -> Content \cup {None}], whole : BOOLEAN]
  /\ restored \in Tree \cup {None}
  /\ clean \subseteq Run
  /\ existed \in [Run -> SUBSET Path] /\ landed \in [Run -> SUBSET Path]
  /\ foreign \in [Run -> SUBSET Path]
  /\ had \in [Path -> SUBSET (Content \cup {None, Dir})]

\* What is there has a directory above it.
WellFormed(t) == \A p \in Path : t[p] # None => \A q \in Above[p] : t[q] = Dir

-----------------------------------------------------------------------------
(* The snapshot. *)

SnapInv ==
  /\ snap.stage = "none" => \A p \in Path : snap.files[p] = None
  /\ snap.stage = "reading" => \A p \in Path : fs[p] \in had[p]
  /\ snap.stage \in {"reading", "kept"} =>
       /\ \A p \in Path : snap.files[p] # None => p \notin AgentState /\ snap.files[p] \in had[p]
       /\ \A p \in snap.left : p \notin AgentState
       /\ snap.whole => \A p \in Path \ (AgentState \cup snap.left) :
            p \in ListedAs[p] /\ snap.files[p] = None => had[p] \cap {None, Dir} # {}
  /\ snap.stage # "kept" => restored = None
  /\ restored # None => \A p \in Path : IsFile(restored, p) <=> snap.files[p] # None

-----------------------------------------------------------------------------
(* The mirror. *)

\* Where a run stands in its sync and whether its mirror is mounted.
PlaceInv(r) ==
  /\ stage[r] # "off" <=> pc[r] \in {"setup", "preparing"}
  /\ pc[r] = "seeding" => Seed[r] # None
  /\ r \in mounted => pc[r] \notin {"idle", "seeding", "setup"}
  /\ pc[r] \in {"ready", "preparing", "turn"} => r \in mounted

MountInv ==
  /\ \A i \in Ids : refs[i] = Cardinality({r \in mounted : IdOf[r] = i})
  /\ patched <=> \E i \in Ids : refs[i] > 0

\* The stages of a sync that nobody has disturbed.
SyncInv(r) ==
  LET l == listed[r]
      m == Mirror(r)
  IN r \in clean =>
     /\ stage[r] \in {"prune", "dirs", "copy"} =>
          l.files = ConfigFiles(fs) /\ l.dirs = ConfigDirs(fs) /\ l.left \subseteq l.files
     /\ stage[r] \in {"prune", "dirs"} => l.left = l.files
     /\ stage[r] \in {"dirs", "copy"} =>
          ConfigFiles(m) \subseteq l.files /\ ConfigDirs(m) \subseteq Required(l)
     /\ stage[r] = "copy" =>
          /\ \A d \in Required(l) : m[d] = Dir
          /\ \A p \in l.files \ l.left : m[p] = fs[p]
     /\ pc[r] = "turn" => Config(m) = Config(fs)

-----------------------------------------------------------------------------
(* The report. *)

\* The first turn of a run has not begun.
Unbegun(r) ==
  \/ pc[r] \in {"idle", "seeding", "setup"}
  \/ pc[r] = "ready" /\ turns[r] = 0
  \/ pc[r] = "preparing" /\ turns[r] = 1

Begun(r) ==
  \/ pc[r] \in {"turn", "done", "cut"}
  \/ pc[r] = "ready" /\ turns[r] > 0
  \/ pc[r] = "preparing" /\ turns[r] > 1

Mine(r, p) == {c \in Call : Does[c].run = r /\ Does[c].path = p}

\* The reports of changes that a run's stream holds.
Reports(r) == {events[r][i] : i \in DOMAIN events[r]}
Told(r, p) == \E e \in Reports(r) : e.path = p
ToldCreated(r, p) == [kind |-> "create", path |-> p] \in Reports(r)

TurnInv(r) ==
  /\ pc[r] \in {"idle", "seeding", "setup"} => turns[r] = 0
  /\ pc[r] \in {"preparing", "turn"} => turns[r] > 0
  /\ Unbegun(r) =>
       /\ \A c \in Call : Does[c].run = r => at[c] = "new"
       /\ events[r] = <<>> /\ landed[r] = {}
       /\ \A p \in Path : changed[r][p] = None
  /\ Begun(r) /\ pc[r] \notin {"turn", "cut"} => ~Busy(r) /\ events[r] = <<>>

\* What is known of a path that nobody but the run's tools has changed.
PathInv(r, p) ==
  LET new == p \notin existed[r] IN
  /\ p \notin landed[r] =>
       /\ IsFile(fs, p) <=> ~new
       /\ changed[r][p] = None /\ ~Told(r, p)
       /\ \A c \in Mine(r, p) : at[c] # "tell"
       /\ \A c \in Mine(r, p) : at[c] \in {"dirs", "put"} => (prior[c] <=> ~new)
  /\ p \in landed[r] =>
       /\ IsFile(fs, p)
       /\ \/ \E c \in Mine(r, p) : at[c] = "tell"
          \/ Told(r, p)
          \/ changed[r][p] # None /\ changed[r][p].bytes = fs[p]
       /\ new => \/ \E c \in Mine(r, p) : at[c] = "tell" /\ ~prior[c]
                 \/ ToldCreated(r, p)
                 \/ changed[r][p] # None /\ changed[r][p].change = "create"
  /\ ~new =>
       /\ \A c \in Mine(r, p) : at[c] \in {"dirs", "put", "tell"} => prior[c]
       /\ ~ToldCreated(r, p)
       /\ changed[r][p] # None => changed[r][p].change = "modify"

ReportInv(r) == Begun(r) => \A p \in Path \ foreign[r] : PathInv(r, p)

WorkspaceInv ==
  /\ TypeOK /\ WellFormed(fs) /\ SnapInv /\ MountInv
  /\ \A r \in Run : PlaceInv(r) /\ SyncInv(r) /\ TurnInv(r) /\ ReportInv(r)

-----------------------------------------------------------------------------
(* Trees. *)

USE DEF sandbox, host, syncs, tools, report, handle

LEMMA PathsAbove ==
  ASSUME NEW p \in Path
  PROVE  p \notin Above[p] /\ \A q \in Above[p] : q \in Path /\ Above[q] \subseteq Above[p]
  BY WorkspaceAssumption

LEMMA ContentIsFile == \A b \in Content : b # None /\ b # Dir
  BY WorkspaceAssumption DEF Content

\* mkdir -p keeps the tree one, and the files.
LEMMA WithDirsEffect ==
  ASSUME NEW t \in Tree, NEW p \in Path, WellFormed(t)
  PROVE  /\ WithDirs(t, p) \in Tree /\ WellFormed(WithDirs(t, p))
         /\ \A q \in Path : \/ WithDirs(t, p)[q] = t[q]
                            \/ t[q] = None /\ WithDirs(t, p)[q] = Dir
<1>1. CASE \E q \in Above[p] : IsFile(t, q)
  BY <1>1 DEF WithDirs
<1>2. CASE ~\E q \in Above[p] : IsFile(t, q)
  <2> DEFINE u == [q \in Path |-> IF q \in Above[p] THEN Dir ELSE t[q]]
  <2>1. WithDirs(t, p) = u
    BY <1>2 DEF WithDirs
  <2>2. u \in Tree
    BY DEF Tree
  <2>3. \A q \in Path : u[q] = t[q] \/ (t[q] = None /\ u[q] = Dir)
    BY <1>2 DEF IsFile
  <2>4. WellFormed(u)
    <3> SUFFICES ASSUME NEW q \in Path, u[q] # None, NEW a \in Above[q] PROVE u[a] = Dir
      BY DEF WellFormed
    <3>1. a \in Path
      BY PathsAbove
    <3>2. CASE q \in Above[p]
      BY <3>1, <3>2, PathsAbove
    <3>3. CASE q \notin Above[p]
      BY <3>1, <3>3 DEF WellFormed
    <3> QED
      BY <3>2, <3>3
  <2> QED
    BY <2>1, <2>2, <2>3, <2>4
<1> QED
  BY <1>1, <1>2

\* A file that can be written is written, below directories.
LEMMA WrittenEffect ==
  ASSUME NEW t \in Tree, NEW p \in Path, Accessible(t, p), NEW content \in Content
  PROVE  LET u == Written(t, p, content) IN
         /\ u \in Tree /\ u[p] = content
         /\ \A q \in Above[p] : u[q] = Dir
         /\ \A q \in Path : \/ q = p \/ u[q] = t[q]
                            \/ q \in Above[p] /\ t[q] = None /\ u[q] = Dir
         /\ WellFormed(t) => WellFormed(u)
<1> DEFINE v == [q \in Path |-> IF q \in Above[p] THEN Dir ELSE t[q]]
           u == Written(t, p, content)
<1>1. WithDirs(t, p) = v
  BY DEF WithDirs, Accessible
<1>2. u = [q \in Path |-> IF q = p THEN content ELSE IF q \in Above[p] THEN Dir ELSE t[q]]
  BY <1>1 DEF Written
<1> HIDE DEF u
<1>3. u \in Tree /\ u[p] = content
  BY <1>2 DEF Tree
<1>4. \A q \in Above[p] : u[q] = Dir /\ q # p
  BY <1>2, PathsAbove
<1>5. \A q \in Path : \/ q = p \/ u[q] = t[q]
                      \/ q \in Above[p] /\ t[q] = None /\ u[q] = Dir
  BY <1>2 DEF Accessible, IsFile
<1>6. ASSUME WellFormed(t) PROVE WellFormed(u)
  <2> SUFFICES ASSUME NEW q \in Path, u[q] # None, NEW a \in Above[q] PROVE u[a] = Dir
    BY DEF WellFormed
  <2>1. a \in Path
    BY PathsAbove
  <2>2. CASE q = p
    BY <1>4, <2>2
  <2>3. CASE q \in Above[p]
    BY <1>4, <2>3, PathsAbove
  <2>4. CASE q # p /\ q \notin Above[p]
    <3>1. t[q] # None
      BY <1>2, <2>4
    <3>2. t[a] = Dir
      BY <1>6, <3>1 DEF WellFormed
    <3> QED
      BY <1>2, <2>1, <3>2 DEF Accessible
  <2> QED
    BY <2>2, <2>3, <2>4
<1> QED
  BY <1>3, <1>4, <1>5, <1>6 DEF u

LEMMA RemovedEffect ==
  ASSUME NEW t \in Tree, NEW p \in Path, WellFormed(t)
  PROVE  Removed(t, p) \in Tree /\ WellFormed(Removed(t, p))
<1>1. Removed(t, p) \in Tree
  BY DEF Removed, Tree
<1>2. WellFormed(Removed(t, p))
  <2> SUFFICES ASSUME NEW q \in Path, Removed(t, p)[q] # None, NEW a \in Above[q]
               PROVE  Removed(t, p)[a] = Dir
    BY DEF WellFormed
  <2>1. q # p /\ p \notin Above[q] /\ t[q] # None
    BY DEF Removed
  <2>2. t[a] = Dir /\ a \in Path /\ a # p /\ p \notin Above[a]
    BY <2>1, PathsAbove DEF WellFormed
  <2> QED
    BY <2>2 DEF Removed
<1> QED
  BY <1>1, <1>2

-----------------------------------------------------------------------------
(* Steps, and how they change the tree in the sandbox. *)

RunStep(r) ==
  \/ Starts(r) \/ Seeds(r) \/ Prompts(r)
  \/ Lists(r) \/ Prunes(r) \/ MakesHostDirs(r) \/ Copies(r) \/ SyncFails(r)
  \/ Mounts(r) \/ Unmounts(r)
  \/ TurnStarts(r) \/ TurnEnds(r) \/ BreaksOff(r) \/ Records(r)

CallStep(c) ==
  \/ Begins(c) \/ EditReads(c) \/ ReadsPrior(c) \/ MakesDirs(c) \/ Puts(c)
  \/ Tells(c) \/ Looks(c) \/ RunsShell(c) \/ CallFails(c)

AppStep == (\E p \in AppPath : AppChanges(p)) \/ SnapLists \/ SnapReads \/ Restores

\* The tree becomes another one, by a tool of run own or otherwise.
Moves(own) == \E t \in Tree : WellFormed(t) /\ Becomes(t, own)

LEMMA CommandEffect ==
  ASSUME TypeOK, WellFormed(fs), NEW p \in Path, NEW content \in Content, Command(p, content)
  PROVE  Moves(None) \/ UNCHANGED sandbox
<1>1. fs \in Tree
  BY DEF TypeOK
<1> QED
  BY <1>1, WrittenEffect, RemovedEffect DEF Command, Moves

LEMMA BecomesEffect ==
  ASSUME TypeOK, NEW t \in Tree, NEW own, Becomes(t, own)
  PROVE  /\ fs' = t /\ clean' \subseteq clean
         /\ foreign' \in [Run -> SUBSET Path]
         /\ had' \in [Path -> SUBSET (Content \cup {None, Dir})]
         /\ \A r \in Run : foreign[r] \subseteq foreign'[r]
         /\ \A r \in Run, p \in Path : r # own /\ p \notin foreign'[r] => t[p] = fs[p]
  BY DEF TypeOK, Becomes, Tree

-----------------------------------------------------------------------------
(* Types. *)

SandboxType ==
  /\ fs \in Tree /\ clean \subseteq Run /\ foreign \in [Run -> SUBSET Path]
  /\ had \in [Path -> SUBSET (Content \cup {None, Dir})]

LEMMA MovesType ==
  ASSUME TypeOK, NEW own, Moves(own)
  PROVE  SandboxType' /\ WellFormed(fs)'
<1>1. PICK t \in Tree : WellFormed(t) /\ Becomes(t, own)
  BY DEF Moves
<1>2. fs' = t /\ clean' \subseteq clean /\ foreign' \in [Run -> SUBSET Path]
      /\ had' \in [Path -> SUBSET (Content \cup {None, Dir})]
  BY <1>1, BecomesEffect
<1> QED
  BY <1>1, <1>2 DEF SandboxType, TypeOK, WellFormed

LEMMA MirrorType ==
  ASSUME TypeOK, NEW r \in Run, NEW t \in Tree, MirrorBecomes(r, t)
  PROVE  /\ mirror' \in [Ids -> Tree] /\ clean' \subseteq clean
         /\ UNCHANGED <<fs, foreign, had, refs, patched, mounted>>
  BY DEF MirrorBecomes, TypeOK, Ids

LEMMA RunTypes ==
  ASSUME TypeOK, WellFormed(fs), NEW r \in Run, PlaceInv(r), RunStep(r)
  PROVE  TypeOK' /\ WellFormed(fs)'
<1> USE DEF Place, Stage
<1>0. /\ fs \in Tree /\ Mirror(r) \in Tree /\ IdOf[r] \in Ids
      /\ listed[r].files \subseteq Path /\ listed[r].dirs \subseteq Path /\ listed[r].left \subseteq Path
  BY DEF TypeOK, Mirror, Ids
<1>1. CASE Starts(r)
  BY <1>1 DEF Starts, TypeOK, WellFormed
<1>2. CASE Seeds(r)
  <2>1. CASE Accessible(fs, Seed[r])
    <3>1. /\ Seed[r] \in Path /\ {r} \in Content
      BY <1>2, WorkspaceAssumption DEF Seeds, PlaceInv, Content
    <3>2. Written(fs, Seed[r], {r}) \in Tree /\ WellFormed(Written(fs, Seed[r], {r}))
      BY <1>0, <2>1, <3>1, WrittenEffect
    <3>3. Moves(None)
      BY <1>2, <2>1, <3>2 DEF Seeds, Moves
    <3>4. SandboxType' /\ WellFormed(fs)'
      BY <3>3, MovesType
    <3> QED
      BY <1>2, <2>1, <3>4 DEF Seeds, SandboxType, TypeOK
  <2>2. CASE ~Accessible(fs, Seed[r])
    BY <1>2, <2>2 DEF Seeds, TypeOK, WellFormed
  <2> QED
    BY <2>1, <2>2
<1>3. CASE Prompts(r)
  BY <1>3 DEF Prompts, TypeOK, WellFormed
<1>4. CASE Lists(r)
  BY <1>4 DEF Lists, TypeOK, WellFormed, ConfigFiles, ConfigDirs, Files
<1>5. CASE Prunes(r)
  <2>1. \E t \in Tree : MirrorBecomes(r, t)
    BY <1>0, <1>5 DEF Prunes, Tree
  <2>2. /\ mirror' \in [Ids -> Tree] /\ clean' \subseteq clean
        /\ UNCHANGED <<fs, foreign, had, refs, patched, mounted>>
    BY <2>1, MirrorType
  <2> QED
    BY <1>5, <2>2 DEF Prunes, TypeOK, WellFormed
<1>6. CASE MakesHostDirs(r)
  <2>1. \E t \in Tree : MirrorBecomes(r, t)
    BY <1>0, <1>6 DEF MakesHostDirs, Tree
  <2>2. /\ mirror' \in [Ids -> Tree] /\ clean' \subseteq clean
        /\ UNCHANGED <<fs, foreign, had, refs, patched, mounted>>
    BY <2>1, MirrorType
  <2> QED
    BY <1>6, <2>2 DEF MakesHostDirs, TypeOK, WellFormed
<1>7. CASE Copies(r)
  <2>1. PICK p \in Path :
          /\ IsFile(fs, p) /\ Accessible(Mirror(r), p) /\ MirrorBecomes(r, Written(Mirror(r), p, fs[p]))
          /\ listed' = [listed EXCEPT ![r].left = @ \ {p}]
          /\ UNCHANGED <<pc, turns, stage, tools, report, handle>>
    BY <1>0, <1>7 DEF Copies
  <2>2. fs[p] \in Content
    BY <1>0, <2>1 DEF IsFile, Tree
  <2>3. Written(Mirror(r), p, fs[p]) \in Tree
    BY <1>0, <2>1, <2>2, WrittenEffect
  <2>4. /\ mirror' \in [Ids -> Tree] /\ clean' \subseteq clean
        /\ UNCHANGED <<fs, foreign, had, refs, patched, mounted>>
    BY <2>1, <2>3, MirrorType
  <2>5. listed' \in [Run -> [files : SUBSET Path, dirs : SUBSET Path, left : SUBSET Path]]
    <3> DEFINE Listing == [files : SUBSET Path, dirs : SUBSET Path, left : SUBSET Path]
               l == [listed[r] EXCEPT !.left = @ \ {p}]
    <3>1. listed \in [Run -> Listing]
      BY DEF TypeOK
    <3>4. l \in Listing
      <4>1. \A x \in Listing : [x EXCEPT !.left = @ \ {p}] \in Listing
        OBVIOUS
      <4>2. listed[r] \in Listing
        BY <3>1
      <4> HIDE DEF Listing
      <4> QED
        BY <4>1, <4>2
    <3>2. listed' = [listed EXCEPT ![r] = l]
      BY <2>1
    <3> HIDE DEF l, Listing
    <3>3. listed' \in [Run -> Listing]
      BY <3>1, <3>2, <3>4
    <3> QED
      BY <3>3 DEF Listing
  <2> QED
    BY <2>1, <2>4, <2>5 DEF TypeOK, WellFormed
<1>8. CASE SyncFails(r)
  BY <1>8 DEF SyncFails, TypeOK, WellFormed
<1>9. CASE Mounts(r)
  BY <1>0, <1>9 DEF Mounts, InstallPatches, TypeOK, WellFormed
<1>10. CASE Unmounts(r)
  BY <1>0, <1>10 DEF Unmounts, RestorePatches, TypeOK, WellFormed
<1>11. CASE TurnStarts(r)
  <2>1. /\ pc' = [pc EXCEPT ![r] = "turn"] /\ stage' = [stage EXCEPT ![r] = "off"]
        /\ UNCHANGED <<fs, clean, had, host, turns, listed, tools, events, changed, handle>>
    BY <1>11 DEF TurnStarts
  <2>2. existed' \in [Run -> SUBSET Path] /\ foreign' \in [Run -> SUBSET Path]
    <3> DEFINE here == Files(fs)
    <3>1. here \in SUBSET Path /\ {} \in SUBSET Path
      BY DEF Files
    <3>2. \/ existed' = [existed EXCEPT ![r] = here] /\ foreign' = [foreign EXCEPT ![r] = {}]
          \/ existed' = existed /\ foreign' = foreign
      BY <1>11 DEF TurnStarts
    <3>3. existed \in [Run -> SUBSET Path] /\ foreign \in [Run -> SUBSET Path]
      BY DEF TypeOK
    <3> HIDE DEF here
    <3> QED
      BY <3>1, <3>2, <3>3
  <2> QED
    BY <2>1, <2>2 DEF TypeOK, WellFormed
<1>12. CASE TurnEnds(r)
  BY <1>12 DEF TurnEnds, TypeOK, WellFormed
<1>13. CASE BreaksOff(r)
  BY <1>13 DEF BreaksOff, LoopThrows, TypeOK, WellFormed
<1>14. CASE Records(r)
  <2> DEFINE e == Head(events[r])
  <2>1. /\ events[r] \in Seq(Event) /\ events[r] # <<>>
        /\ events' = events \/ events' = [events EXCEPT ![r] = Tail(events[r])]
        /\ UNCHANGED <<fs, sandbox, host, turns, syncs, tools, existed, handle>>
        /\ \/ pc' = pc
           \/ pc' = [pc EXCEPT ![r] = "failed"]
           \/ pc' = [pc EXCEPT ![r] = "cut"]
        /\ \/ changed' = changed
           \/ /\ IsFile(fs, e.path)
              /\ \E k \in {"create", "modify"} :
                   changed' = [changed EXCEPT ![r][e.path] = [change |-> k, bytes |-> fs[e.path]]]
    BY <1>14 DEF Records, LoopThrows, TypeOK
  <2>2. e \in Event /\ Tail(events[r]) \in Seq(Event)
    BY <2>1
  <2>3. e.path \in Path
    BY <2>2 DEF Event
  <2>4. changed' \in [Run -> [Path -> Change \cup {None}]]
    <3>1. CASE changed' = changed
      BY <3>1 DEF TypeOK
    <3>2. CASE changed' # changed
      <4>1. fs[e.path] \in Content
        BY <1>0, <2>1, <2>3, <3>2 DEF IsFile, Tree
      <4>2. \A k \in {"create", "modify"} : [change |-> k, bytes |-> fs[e.path]] \in Change
        BY <4>1 DEF Change
      <4> DEFINE p == e.path
      <4>3. PICK k \in {"create", "modify"} :
              changed' = [changed EXCEPT ![r][p] = [change |-> k, bytes |-> fs[p]]]
        BY <2>1, <3>2
      <4> DEFINE v == [change |-> k, bytes |-> fs[p]]
      <4>4. v \in Change /\ p \in Path
        BY <2>3, <4>2
      <4> HIDE DEF e, p, v
      <4>5. changed' = [changed EXCEPT ![r] = [changed[r] EXCEPT ![p] = v]]
        BY <4>3 DEF v
      <4>6. [changed[r] EXCEPT ![p] = v] \in [Path -> Change \cup {None}]
        BY <4>4 DEF TypeOK
      <4> QED
        BY <4>5, <4>6 DEF TypeOK
    <3> QED
      BY <3>1, <3>2
  <2> DEFINE rest == Tail(events[r])
  <2>5. events' = events \/ events' = [events EXCEPT ![r] = rest]
    BY <2>1
  <2>6. rest \in Seq(Event)
    BY <2>2
  <2> HIDE DEF rest, e
  <2>7. events' \in [Run -> Seq(Event)]
    BY <2>5, <2>6 DEF TypeOK
  <2>8. pc' \in [Run -> Place]
    BY <2>1 DEF TypeOK
  <2> QED
    BY <2>1, <2>4, <2>7, <2>8 DEF TypeOK, WellFormed
<1> QED
  BY <1>1, <1>2, <1>3, <1>4, <1>5, <1>6, <1>7, <1>8, <1>9, <1>10, <1>11, <1>12, <1>13, <1>14
  DEF RunStep

LEMMA CallTypes ==
  ASSUME TypeOK, WellFormed(fs), NEW c \in Call, CallStep(c)
  PROVE  TypeOK' /\ WellFormed(fs)'
<1> USE DEF At
<1>0. /\ fs \in Tree /\ Does[c].run \in Run /\ Does[c].path \in Path /\ Does[c].op \in Op
      /\ Does[c].text \in Content /\ text[c] \in Content
  BY WorkspaceAssumption DEF TypeOK, Content
<1>1. CASE Begins(c)
  BY <1>0, <1>1 DEF Begins, Goes, FirstStep, Op, TypeOK, WellFormed
<1>2. CASE EditReads(c)
  <2>1. CASE IsFile(fs, Does[c].path) /\ Does[c].old \subseteq fs[Does[c].path]
    <3>1. (fs[Does[c].path] \ Does[c].old) \cup Does[c].text \in Content
      BY <1>0, <2>1 DEF IsFile, Tree, Content
    <3>2. /\ at' = [at EXCEPT ![c] = "prior"]
          /\ text' = [text EXCEPT ![c] = (fs[Does[c].path] \ Does[c].old) \cup Does[c].text]
          /\ UNCHANGED <<sandbox, host, pc, turns, syncs, prior, landed, report, handle>>
      BY <1>2, <2>1 DEF EditReads, Goes
    <3>3. at' \in [Call -> At] /\ text' \in [Call -> Content]
      BY <3>1, <3>2 DEF TypeOK
    <3> QED
      BY <3>2, <3>3 DEF TypeOK, WellFormed
  <2>2. CASE ~(IsFile(fs, Does[c].path) /\ Does[c].old \subseteq fs[Does[c].path])
    BY <1>0, <1>2, <2>2 DEF EditReads, Goes, TypeOK, WellFormed
  <2> QED
    BY <2>1, <2>2
<1>3. CASE ReadsPrior(c)
  BY <1>0, <1>3 DEF ReadsPrior, Goes, IsFile, TypeOK, WellFormed
<1>4. CASE MakesDirs(c)
  <2>1. Moves(None)
    BY <1>0, <1>4, WithDirsEffect DEF MakesDirs, Moves
  <2>2. SandboxType' /\ WellFormed(fs)'
    BY <2>1, MovesType
  <2> QED
    BY <1>4, <2>2 DEF MakesDirs, Goes, SandboxType, TypeOK
<1>5. CASE Puts(c)
  <2>1. \E own : Moves(own)
    BY <1>0, <1>5, WrittenEffect DEF Puts, Moves
  <2>2. SandboxType' /\ WellFormed(fs)'
    BY <2>1, MovesType
  <2> QED
    <3> DEFINE q == Does[c].run
               p == Does[c].path
    <3>3. \/ at' = [at EXCEPT ![c] = "tell"] /\ landed' = [landed EXCEPT ![q] = landed[q] \cup {p}]
          \/ at' = [at EXCEPT ![c] = "failed"] /\ landed' = landed
      BY <1>5 DEF Puts, Goes
    <3>4. q \in Run /\ p \in Path /\ at \in [Call -> At] /\ landed \in [Run -> SUBSET Path]
      BY <1>0 DEF TypeOK
    <3>1. at' \in [Call -> At] /\ landed' \in [Run -> SUBSET Path]
      <4> HIDE DEF p, q
      <4> QED
        BY <3>3, <3>4
    <3>2. UNCHANGED <<host, pc, turns, syncs, prior, text, report, handle>>
      BY <1>5 DEF Puts
    <3> QED
      BY <2>2, <3>1, <3>2 DEF SandboxType, TypeOK
<1>6. CASE Tells(c)
  <2>1. PICK e \in Event : events' = [events EXCEPT ![Does[c].run] = Append(@, e)]
    <3> DEFINE e == [kind |-> IF prior[c] THEN "modify" ELSE "create", path |-> Does[c].path]
    <3>1. e \in Event
      BY <1>0 DEF Event
    <3>2. events' = [events EXCEPT ![Does[c].run] = Append(@, e)]
      BY <1>6 DEF Tells
    <3> HIDE DEF e
    <3> QED
      BY <3>1, <3>2
  <2>2. events' \in [Run -> Seq(Event)]
    BY <1>0, <2>1 DEF TypeOK
  <2> QED
    BY <1>6, <2>2 DEF Tells, Goes, TypeOK, WellFormed
<1>7. CASE Looks(c)
  BY <1>7 DEF Looks, Goes, TypeOK, WellFormed
<1>8. CASE RunsShell(c)
  <2>1. Moves(None) \/ UNCHANGED sandbox
    BY <1>0, <1>8, CommandEffect DEF RunsShell
  <2>2. SandboxType' /\ WellFormed(fs)'
    <3>1. CASE Moves(None)
      BY <3>1, MovesType
    <3>2. CASE UNCHANGED sandbox
      BY <3>2 DEF SandboxType, TypeOK, WellFormed
    <3> QED
      BY <2>1, <3>1, <3>2
  <2> QED
    BY <1>8, <2>2 DEF RunsShell, Goes, SandboxType, TypeOK
<1>9. CASE CallFails(c)
  BY <1>9 DEF CallFails, Goes, TypeOK, WellFormed
<1> QED
  BY <1>1, <1>2, <1>3, <1>4, <1>5, <1>6, <1>7, <1>8, <1>9 DEF CallStep

LEMMA AppTypes ==
  ASSUME TypeOK, WellFormed(fs), AppStep
  PROVE  TypeOK' /\ WellFormed(fs)'
<1>0. fs \in Tree /\ {} \in Content /\ AppPath \subseteq Path
  BY WorkspaceAssumption DEF TypeOK, Content
<1>1. ASSUME NEW p \in AppPath, AppChanges(p) PROVE TypeOK' /\ WellFormed(fs)'
  <2>1. Moves(None) \/ UNCHANGED sandbox
    BY <1>0, <1>1, CommandEffect DEF AppChanges
  <2>2. SandboxType' /\ WellFormed(fs)'
    <3>1. CASE Moves(None)
      BY <3>1, MovesType
    <3>2. CASE UNCHANGED sandbox
      BY <3>2 DEF SandboxType, TypeOK, WellFormed
    <3> QED
      BY <2>1, <3>1, <3>2
  <2> QED
    BY <1>1, <2>2 DEF AppChanges, SandboxType, TypeOK
<1>2. CASE SnapLists
  <2>1. had' \in [Path -> SUBSET (Content \cup {None, Dir})]
    BY <1>0, <1>2 DEF SnapLists, Tree
  <2> QED
    BY <1>0, <1>2, <2>1 DEF SnapLists, Files, TypeOK, WellFormed
<1>3. CASE SnapReads
  <2>1. PICK p \in snap.left :
          /\ snap' = IF Accessible(fs, p)
               THEN [snap EXCEPT !.left = @ \ {p},
                                 !.files[p] = IF IsFile(fs, p) THEN fs[p] ELSE None]
               ELSE [snap EXCEPT !.stage = "failed"]
          /\ UNCHANGED <<sandbox, host, pc, turns, syncs, tools, report, restored, appOps>>
    BY <1>3 DEF SnapReads
  <2>2. p \in Path /\ (IF IsFile(fs, p) THEN fs[p] ELSE None) \in Content \cup {None}
    BY <1>0, <2>1 DEF TypeOK, IsFile, Tree
  <2> QED
    BY <2>1, <2>2 DEF TypeOK, WellFormed
<1>4. CASE Restores
  <2>1. restored' \in Tree \cup {None}
    BY <1>4 DEF Restores, Tree, TypeOK
  <2> QED
    BY <1>4, <2>1 DEF Restores, TypeOK, WellFormed
<1> QED
  BY <1>1, <1>2, <1>3, <1>4 DEF AppStep

-----------------------------------------------------------------------------
(* Which steps change the tree in the sandbox, and how. *)

LEMMA RunTree ==
  ASSUME TypeOK, WellFormed(fs), NEW r \in Run, PlaceInv(r), RunStep(r)
  PROVE  /\ UNCHANGED handle
         /\ Seeds(r) => Moves(None) \/ UNCHANGED sandbox
         /\ ~Seeds(r) => UNCHANGED <<fs, had>>
<1>1. CASE Seeds(r)
  <2>1. CASE Accessible(fs, Seed[r])
    <3>1. fs \in Tree /\ Seed[r] \in Path /\ {r} \in Content
      BY <1>1, WorkspaceAssumption DEF Seeds, PlaceInv, Content, TypeOK
    <3>2. Written(fs, Seed[r], {r}) \in Tree /\ WellFormed(Written(fs, Seed[r], {r}))
      BY <2>1, <3>1, WrittenEffect
    <3> QED
      BY <1>1, <2>1, <3>2 DEF Seeds, Moves
  <2>2. CASE ~Accessible(fs, Seed[r])
    BY <1>1, <2>2 DEF Seeds
  <2> QED
    BY <2>1, <2>2
<1>2. CASE ~Seeds(r)
  BY <1>2 DEF RunStep, Starts, Prompts, Lists, Prunes, MakesHostDirs, Copies, SyncFails, Mounts,
              Unmounts, TurnStarts, TurnEnds, BreaksOff, Records, MirrorBecomes
<1> QED
  BY <1>1, <1>2

LEMMA CallTree ==
  ASSUME TypeOK, WellFormed(fs), NEW c \in Call, CallStep(c)
  PROVE  /\ UNCHANGED handle
         /\ \/ UNCHANGED sandbox
            \/ ~Puts(c) /\ Moves(None)
            \/ Puts(c) /\ (Moves(None) \/ Moves(Does[c].run))
<1>0. /\ fs \in Tree /\ Does[c].path \in Path /\ text[c] \in Content
  BY WorkspaceAssumption DEF TypeOK
<1>1. CASE MakesDirs(c)
  BY <1>0, <1>1, WithDirsEffect DEF MakesDirs, Moves
<1>2. CASE Puts(c)
  <2>1. Written(fs, Does[c].path, text[c]) \in Tree /\ WellFormed(Written(fs, Does[c].path, text[c]))
    BY <1>0, <1>2, WrittenEffect DEF Puts
  <2> QED
    BY <1>2, <2>1 DEF Puts, Moves
<1>3. CASE RunsShell(c)
  <2>1. UNCHANGED handle /\ Command(Does[c].path, text[c])
    BY <1>3 DEF RunsShell
  <2>2. Moves(None) \/ UNCHANGED sandbox
    BY <1>0, <2>1, CommandEffect
  <2> QED
    BY <2>1, <2>2
<1>4. CASE ~MakesDirs(c) /\ ~Puts(c) /\ ~RunsShell(c)
  BY <1>4 DEF CallStep, Begins, EditReads, ReadsPrior, Tells, Looks, CallFails
<1> QED
  BY <1>1, <1>2, <1>3, <1>4

LEMMA AppTree ==
  ASSUME TypeOK, WellFormed(fs), AppStep
  PROVE  \/ UNCHANGED <<sandbox, snap, restored>>
         \/ Moves(None) /\ UNCHANGED <<snap, restored>>
         \/ SnapLists \/ SnapReads \/ Restores
<1>1. ASSUME NEW p \in AppPath, AppChanges(p)
      PROVE  UNCHANGED <<snap, restored>> /\ (Moves(None) \/ UNCHANGED sandbox)
  <2>1. p \in Path /\ {} \in Content /\ Command(p, {}) /\ UNCHANGED <<snap, restored>>
    BY <1>1, WorkspaceAssumption DEF AppChanges, Content
  <2> QED
    BY <2>1, CommandEffect
<1> QED
  BY <1>1 DEF AppStep

-----------------------------------------------------------------------------
(* What a snapshot has in it. *)

\* Whatever changes the tree while it is taken, the snapshot stays one of
\* things that have been there.
LEMMA SnapMoves ==
  ASSUME TypeOK, SnapInv, NEW own, UNCHANGED <<fs, had>> \/ Moves(own), UNCHANGED <<snap, restored>>
  PROVE  SnapInv'
<1>1. CASE UNCHANGED <<fs, had>>
  BY <1>1 DEF SnapInv, IsFile
<1>2. CASE Moves(own)
  <2>1. PICK t \in Tree : Becomes(t, own)
    BY <1>2 DEF Moves
  <2>2. fs' = t /\ (snap.stage = "reading" => \A p \in Path : had'[p] = had[p] \cup {t[p]})
        /\ (snap.stage # "reading" => had' = had)
    BY <2>1 DEF Becomes
  <2>3. \A p \in Path : had[p] \subseteq had'[p]
    BY <2>2
  <2>5. snap.stage = "reading" => \A p \in Path : fs'[p] \in had'[p]
    BY <2>2
  <2>6. snap' = snap /\ restored' = restored
    OBVIOUS
  <2>7. /\ (snap.stage = "none" => \A p \in Path : snap.files[p] = None)'
        /\ (snap.stage # "kept" => restored = None)'
        /\ (restored # None => \A p \in Path : IsFile(restored, p) <=> snap.files[p] # None)'
    BY <2>6 DEF SnapInv, IsFile
  <2>8. (snap.stage \in {"reading", "kept"} =>
          /\ \A p \in Path : snap.files[p] # None => p \notin AgentState /\ snap.files[p] \in had[p]
          /\ \A p \in snap.left : p \notin AgentState
          /\ snap.whole => \A p \in Path \ (AgentState \cup snap.left) :
               p \in ListedAs[p] /\ snap.files[p] = None => had[p] \cap {None, Dir} # {})'
    BY <2>3, <2>6 DEF SnapInv
  <2> QED
    BY <2>5, <2>6, <2>7, <2>8 DEF SnapInv
<1> QED
  BY <1>1, <1>2

LEMMA LinesOf == \A q \in Files(fs) : ListedAs[q] \ AgentState \subseteq Lines
  BY DEF Lines

LEMMA SnapListsStep ==
  ASSUME TypeOK, SnapInv, SnapLists
  PROVE  SnapInv'
<1>1. /\ snap.stage = "none" /\ snap'.stage = "reading" /\ snap'.files = snap.files
      /\ snap'.left \subseteq Path \ AgentState /\ (snap'.whole <=> Lines \subseteq snap'.left)
      /\ had' = [p \in Path |-> {fs[p]}] /\ fs' = fs /\ restored' = restored
  <2>1. PICK left \in SUBSET (Path \ AgentState) :
          snap' = [snap EXCEPT !.stage = "reading", !.left = left,
                               !.whole = (Lines \subseteq left)]
    BY DEF SnapLists
  <2>2. snap' = [stage |-> "reading", left |-> left, files |-> snap.files,
                 whole |-> (Lines \subseteq left)]
    BY <2>1 DEF TypeOK
  <2> QED
    BY <2>2 DEF SnapLists
<1>2. AgentState \subseteq Path
  BY WorkspaceAssumption
<1>3. \A p \in Path : snap.files[p] = None
  BY <1>1 DEF SnapInv
<1>4. ASSUME snap'.whole, NEW p \in Path \ (AgentState \cup snap'.left), p \in ListedAs[p]
      PROVE  had'[p] \cap {None, Dir} # {}
  <2>1. ~IsFile(fs, p)
    <3>1. p \notin Lines
      BY <1>1, <1>4
    <3>2. ASSUME p \in Files(fs) PROVE p \in Lines
      BY <1>4, <3>2, LinesOf
    <3> QED
      BY <1>4, <3>1, <3>2 DEF Files
  <2>2. fs[p] \in had'[p] \cap {None, Dir}
    BY <1>1, <2>1 DEF IsFile
  <2> QED
    BY <2>2
<1> QED
  BY <1>1, <1>2, <1>3, <1>4 DEF SnapInv

LEMMA SnapReadsStep ==
  ASSUME TypeOK, SnapInv, SnapReads
  PROVE  SnapInv'
<1>1. PICK p \in snap.left :
        /\ snap.stage = "reading"
        /\ snap' = IF Accessible(fs, p)
             THEN [snap EXCEPT !.left = @ \ {p},
                               !.files[p] = IF IsFile(fs, p) THEN fs[p] ELSE None]
             ELSE [snap EXCEPT !.stage = "failed"]
        /\ UNCHANGED <<sandbox, restored>>
  BY DEF SnapReads
<1>2. p \in Path /\ p \notin AgentState /\ restored = None /\ fs[p] \in had[p] /\ AgentState \subseteq Path
  BY <1>1, WorkspaceAssumption DEF SnapInv, TypeOK
<1>3. CASE ~Accessible(fs, p)
  <2>1. snap'.stage = "failed"
    BY <1>1, <1>3 DEF TypeOK
  <2> QED
    BY <1>1, <1>2, <2>1 DEF SnapInv
<1>4. CASE Accessible(fs, p)
  <2> DEFINE b == IF IsFile(fs, p) THEN fs[p] ELSE None
  <2>1. /\ snap'.stage = "reading" /\ snap'.left = snap.left \ {p} /\ snap'.whole = snap.whole
        /\ snap'.files = [snap.files EXCEPT ![p] = b]
    BY <1>1, <1>4 DEF TypeOK
  <2>2. (b # None => b \in had[p]) /\ (b = None => had[p] \cap {None, Dir} # {})
    BY <1>2 DEF IsFile
  <2> HIDE DEF b
  <2>3. snap.files \in [Path -> Content \cup {None}]
    BY DEF TypeOK
  <2>4. \A q \in Path : snap'.files[q] = IF q = p THEN b ELSE snap.files[q]
    BY <2>1, <2>3
  <2>5. ASSUME snap.whole, NEW q \in Path \ (AgentState \cup snap'.left), q \in ListedAs[q],
               snap'.files[q] = None
        PROVE  had'[q] \cap {None, Dir} # {}
    BY <1>1, <1>2, <2>1, <2>2, <2>4, <2>5 DEF SnapInv
  <2>6. \A q \in Path : snap'.files[q] # None => q \notin AgentState /\ snap'.files[q] \in had'[q]
    BY <1>1, <1>2, <2>2, <2>4 DEF SnapInv
  <2> QED
    BY <1>1, <1>2, <2>1, <2>5, <2>6 DEF SnapInv
<1> QED
  BY <1>3, <1>4

LEMMA RestoresStep ==
  ASSUME TypeOK, SnapInv, Restores
  PROVE  SnapInv'
<1> DEFINE kept == {p \in Path : snap.files[p] # None}
<1>1. /\ snap.stage = "reading" /\ snap'.stage = "kept" /\ snap'.files = snap.files
      /\ snap'.left = snap.left /\ snap'.whole = snap.whole /\ fs' = fs /\ had' = had
  BY DEF Restores, TypeOK
<1>2. CASE restored' = None
  BY <1>1, <1>2 DEF SnapInv
<1>3. CASE restored' # None
  <2>1. /\ \A p \in kept : Above[p] \cap kept = {}
        /\ restored' = [p \in Path |-> IF p \in kept THEN snap.files[p]
                                       ELSE IF \E q \in kept : p \in Above[q] THEN Dir ELSE None]
    BY <1>3 DEF Restores
  <2>2. \A p \in kept : snap.files[p] \in Content
    BY DEF TypeOK
  <2>3. \A p \in Path : IsFile(restored', p) <=> p \in kept
    BY <2>1, <2>2, ContentIsFile DEF IsFile
  <2> QED
    BY <1>1, <2>3 DEF SnapInv
<1> QED
  BY <1>2, <1>3

-----------------------------------------------------------------------------
(* Places and mounts. *)

LEMMA OthersStay ==
  ASSUME TypeOK, NEW r \in Run, RunStep(r), NEW q \in Run, q # r
  PROVE  /\ pc'[q] = pc[q] /\ turns'[q] = turns[q] /\ stage'[q] = stage[q]
         /\ listed'[q] = listed[q] /\ events'[q] = events[q] /\ changed'[q] = changed[q]
         /\ existed'[q] = existed[q] /\ UNCHANGED tools
         /\ foreign'[q] = foreign[q] \/ Seeds(r)
<1> USE DEF TypeOK
<1>1. CASE Starts(r) \/ Seeds(r) \/ Prompts(r)
  BY <1>1 DEF Starts, Seeds, Prompts
<1>2. CASE Lists(r)
  BY <1>2 DEF Lists
<1>3. CASE Prunes(r) \/ MakesHostDirs(r)
  BY <1>3 DEF Prunes, MakesHostDirs, MirrorBecomes
<1>4. CASE Copies(r)
  BY <1>4 DEF Copies, MirrorBecomes
<1>5. CASE SyncFails(r) \/ Mounts(r) \/ Unmounts(r)
  BY <1>5 DEF SyncFails, Mounts, Unmounts
<1>6. CASE TurnStarts(r)
  BY <1>6 DEF TurnStarts
<1>7. CASE TurnEnds(r)
  BY <1>7 DEF TurnEnds
<1>8. CASE BreaksOff(r)
  BY <1>8 DEF BreaksOff, LoopThrows
<1>9. CASE Records(r)
  BY <1>9 DEF Records, LoopThrows
<1> QED
  BY <1>1, <1>2, <1>3, <1>4, <1>5, <1>6, <1>7, <1>8, <1>9 DEF RunStep

\* A run's session is mounted from the end of its set-up on.
LEMMA PlaceSteps ==
  ASSUME TypeOK, NEW r \in Run, RunStep(r), NEW q \in Run, PlaceInv(q), PlaceInv(r)
  PROVE  PlaceInv(q)'
<1>1. CASE q # r
  <2>1. pc'[q] = pc[q] /\ stage'[q] = stage[q]
    BY <1>1, OthersStay
  <2>2. q \in mounted' <=> q \in mounted
    BY <1>1 DEF RunStep, Starts, Seeds, Prompts, Lists, Prunes, MakesHostDirs, Copies, SyncFails,
                Mounts, Unmounts, TurnStarts, TurnEnds, BreaksOff, Records, MirrorBecomes
  <2> QED
    BY <2>1, <2>2 DEF PlaceInv
<1>2. CASE q = r
  <2> USE DEF TypeOK, PlaceInv
  <2>1. CASE Starts(r) \/ Seeds(r) \/ Prompts(r)
    BY <1>2, <2>1 DEF Starts, Seeds, Prompts
  <2>2. CASE Lists(r)
    BY <1>2, <2>2 DEF Lists
  <2>3. CASE Prunes(r) \/ MakesHostDirs(r)
    BY <1>2, <2>3 DEF Prunes, MakesHostDirs, MirrorBecomes
  <2>4. CASE Copies(r)
    BY <1>2, <2>4 DEF Copies, MirrorBecomes
  <2>5. CASE SyncFails(r) \/ Mounts(r)
    BY <1>2, <2>5 DEF SyncFails, Mounts
  <2>6. CASE Unmounts(r)
    BY <1>2, <2>6 DEF Unmounts
  <2>7. CASE TurnStarts(r) \/ TurnEnds(r) \/ BreaksOff(r)
    BY <1>2, <2>7 DEF TurnStarts, TurnEnds, BreaksOff, LoopThrows
  <2>8. CASE Records(r)
    BY <1>2, <2>8 DEF Records, LoopThrows
  <2> QED
    BY <2>1, <2>2, <2>3, <2>4, <2>5, <2>6, <2>7, <2>8 DEF RunStep
<1> QED
  BY <1>1, <1>2

\* The sessions whose mirrors are mounted are counted.
LEMMA MountSteps ==
  ASSUME TypeOK, TypeOK', NEW r \in Run, RunStep(r), PlaceInv(r), MountInv
  PROVE  MountInv'
<1> DEFINE Of(i) == {q \in mounted : IdOf[q] = i}
<1>0. /\ mounted \subseteq Run /\ IdOf[r] \in Ids
      /\ \A i \in Ids : IsFiniteSet(Of(i)) /\ Cardinality(Of(i)) \in Nat
  <2>1. \A i \in Ids : Of(i) \subseteq Run
    BY DEF TypeOK
  <2> QED
    BY <2>1, FS_Subset, FS_CardinalityType, WorkspaceAssumption DEF TypeOK, Ids
<1>1. CASE Mounts(r)
  <2>1. r \notin mounted
    BY <1>1 DEF Mounts, PlaceInv
  <2>2. mounted' = mounted \cup {r} /\ refs' = [refs EXCEPT ![IdOf[r]] = @ + 1] /\ patched' = TRUE
    BY <1>1 DEF Mounts, InstallPatches
  <2>3. ASSUME NEW i \in Ids PROVE refs'[i] = Cardinality({q \in mounted' : IdOf[q] = i})
    <3>1. CASE i = IdOf[r]
      <4>1. {q \in mounted' : IdOf[q] = i} = Of(i) \cup {r} /\ r \notin Of(i)
        BY <2>1, <2>2, <3>1
      <4>2. Cardinality(Of(i) \cup {r}) = Cardinality(Of(i)) + 1
        BY <1>0, <4>1, FS_AddElement
      <4> QED
        BY <2>2, <3>1, <4>1, <4>2 DEF MountInv, TypeOK
    <3>2. CASE i # IdOf[r]
      <4>1. {q \in mounted' : IdOf[q] = i} = Of(i)
        BY <2>2, <3>2
      <4> QED
        BY <2>2, <3>2, <4>1 DEF MountInv, TypeOK
    <3> QED
      BY <3>1, <3>2
  <2>4. refs'[IdOf[r]] > 0
    <3>1. refs[IdOf[r]] \in Nat /\ refs \in [Ids -> Int]
      BY <1>0 DEF MountInv, TypeOK
    <3> QED
      BY <1>0, <2>2, <3>1
  <2> QED
    BY <1>0, <2>2, <2>3, <2>4 DEF MountInv
<1>2. CASE Unmounts(r)
  <2>2. /\ r \in mounted /\ mounted' = mounted \ {r} /\ refs' = [refs EXCEPT ![IdOf[r]] = @ - 1]
        /\ patched' = (\E i \in Ids : refs'[i] > 0)
    BY <1>2 DEF Unmounts, RestorePatches, TypeOK
  <2>3. ASSUME NEW i \in Ids PROVE refs'[i] = Cardinality({q \in mounted' : IdOf[q] = i})
    <3>1. CASE i = IdOf[r]
      <4>1. {q \in mounted' : IdOf[q] = i} = Of(i) \ {r} /\ r \in Of(i)
        BY <2>2, <3>1
      <4>2. Cardinality(Of(i) \ {r}) = Cardinality(Of(i)) - 1
        BY <1>0, <4>1, FS_RemoveElement
      <4> QED
        BY <2>2, <3>1, <4>1, <4>2 DEF MountInv, TypeOK
    <3>2. CASE i # IdOf[r]
      <4>1. {q \in mounted' : IdOf[q] = i} = Of(i)
        BY <2>2, <3>2
      <4> QED
        BY <2>2, <3>2, <4>1 DEF MountInv, TypeOK
    <3> QED
      BY <3>1, <3>2
  <2> QED
    BY <2>2, <2>3 DEF MountInv
<1>3. CASE ~Mounts(r) /\ ~Unmounts(r)
  <2>1. UNCHANGED <<refs, patched, mounted>>
    BY <1>3 DEF RunStep, Starts, Seeds, Prompts, Lists, Prunes, MakesHostDirs, Copies, SyncFails,
                TurnStarts, TurnEnds, BreaksOff, Records, MirrorBecomes
  <2> QED
    BY <2>1 DEF MountInv
<1> QED
  BY <1>1, <1>2, <1>3

-----------------------------------------------------------------------------
(* The sync of the mirror. *)

LEMMA SameConfig ==
  ASSUME NEW t \in Tree, NEW u \in Tree, Config(t) = Config(u)
  PROVE  /\ ConfigFiles(t) = ConfigFiles(u) /\ ConfigDirs(t) = ConfigDirs(u)
         /\ \A p \in ConfigFiles(t) : t[p] = u[p]
<1>1. ConfigFiles(t) \cup ConfigDirs(t) = ConfigFiles(u) \cup ConfigDirs(u)
  BY DEF Config
<1>2. \A p \in ConfigFiles(t) \cup ConfigDirs(t) : Config(t)[p] = t[p]
  BY DEF Config
<1>3. \A p \in ConfigFiles(u) \cup ConfigDirs(u) : Config(u)[p] = u[p]
  BY DEF Config
<1>4. \A p \in ConfigFiles(t) \cup ConfigDirs(t) : t[p] = u[p]
  BY <1>1, <1>2, <1>3
<1>5. \A p : p \in ConfigFiles(t) => t[p] # Dir
  BY DEF ConfigFiles, Files, IsFile
<1>6. \A p : p \in ConfigFiles(u) => u[p] # Dir
  BY DEF ConfigFiles, Files, IsFile
<1>7. \A p : p \in ConfigDirs(t) => t[p] = Dir
  BY DEF ConfigDirs
<1>8. \A p : p \in ConfigDirs(u) => u[p] = Dir
  BY DEF ConfigDirs
<1> QED
  BY <1>1, <1>4, <1>5, <1>6, <1>7, <1>8

\* Two trees have the same configuration if they have the same files and
\* directories of it, and the same in the files.
LEMMA ConfigEqual ==
  ASSUME NEW t \in Tree, NEW u \in Tree,
         ConfigFiles(t) = ConfigFiles(u), ConfigDirs(t) = ConfigDirs(u),
         \A p \in ConfigFiles(t) : t[p] = u[p]
  PROVE  Config(t) = Config(u)
<1>1. \A p \in ConfigDirs(t) : t[p] = u[p]
  BY DEF ConfigDirs
<1> QED
  BY <1>1 DEF Config

\* What the sync of run q relies on stays as it is.
LEMMA SyncQuiet ==
  ASSUME TypeOK, TypeOK', NEW q \in Run, SyncInv(q), q \in clean,
         Mirror(q)' = Mirror(q), Config(fs)' = Config(fs), listed'[q] = listed[q],
         stage'[q] = stage[q] \/ stage'[q] \in {"off", "list"},
         pc'[q] = "turn" => pc[q] = "turn"
  PROVE  SyncInv(q)'
<1> DEFINE l == listed[q]
<1>1. fs \in Tree /\ fs' \in Tree
  BY DEF TypeOK
<1>2. /\ ConfigFiles(fs) = ConfigFiles(fs') /\ ConfigDirs(fs) = ConfigDirs(fs')
      /\ \A p \in ConfigFiles(fs) : fs[p] = fs'[p]
  BY <1>1, SameConfig
<1>3. stage'[q] \in {"prune", "dirs", "copy"} =>
        l.files = ConfigFiles(fs') /\ l.dirs = ConfigDirs(fs') /\ l.left \subseteq l.files
  BY <1>2 DEF SyncInv
<1>4. stage'[q] \in {"prune", "dirs"} => l.left = l.files
  BY DEF SyncInv
<1>5. stage'[q] \in {"dirs", "copy"} =>
        ConfigFiles(Mirror(q)) \subseteq l.files /\ ConfigDirs(Mirror(q)) \subseteq Required(l)
  BY DEF SyncInv
<1>6. stage'[q] = "copy" =>
        (\A d \in Required(l) : Mirror(q)[d] = Dir) /\ \A p \in l.files \ l.left : Mirror(q)[p] = fs'[p]
  BY <1>2 DEF SyncInv
<1>7. pc'[q] = "turn" => Config(Mirror(q)) = Config(fs')
  BY DEF SyncInv
<1> HIDE DEF l
<1>8. l = listed'[q]
  BY DEF l
<1> QED
  BY <1>3, <1>4, <1>5, <1>6, <1>7, <1>8 DEF SyncInv

\* A change in the sandbox that leaves a run undisturbed leaves Pi's
\* configuration as it is.
LEMMA SyncMoves ==
  ASSUME TypeOK, TypeOK', NEW q \in Run, SyncInv(q), NEW own,
         UNCHANGED sandbox \/ Moves(own), UNCHANGED mirror, listed'[q] = listed[q],
         stage'[q] = stage[q] \/ stage'[q] \in {"off", "list"},
         pc'[q] = "turn" => pc[q] = "turn"
  PROVE  SyncInv(q)'
<1>1. SUFFICES ASSUME q \in clean' PROVE SyncInv(q)'
  BY DEF SyncInv
<1>2. q \in clean /\ Config(fs)' = Config(fs)
  <2>1. CASE UNCHANGED sandbox
    BY <1>1, <2>1 DEF Config, ConfigFiles, ConfigDirs, Files, IsFile
  <2>2. CASE Moves(own)
    BY <1>1, <2>2 DEF Moves, Becomes, Config, ConfigFiles, ConfigDirs, Files, IsFile
  <2> QED
    BY <2>1, <2>2
<1> QED
  BY <1>2, SyncQuiet DEF Mirror

\* Where a sync writes to the mirror, no other run of the id stays undisturbed.
LEMMA SyncOthers ==
  ASSUME TypeOK, TypeOK', NEW r \in Run, NEW t \in Tree, MirrorBecomes(r, t),
         NEW q \in Run, q # r, SyncInv(q),
         pc'[q] = pc[q], stage'[q] = stage[q], listed'[q] = listed[q]
  PROVE  SyncInv(q)'
<1>1. SUFFICES ASSUME q \in clean' PROVE SyncInv(q)'
  BY DEF SyncInv
<1>2. q \in clean /\ (t = Mirror(r) \/ IdOf[q] # IdOf[r])
  BY <1>1 DEF MirrorBecomes
<1>3. IdOf[q] \in Ids /\ IdOf[r] \in Ids
  BY DEF Ids
<1>4. Mirror(q)' = Mirror(q)
  BY <1>2, <1>3 DEF MirrorBecomes, Mirror, TypeOK
<1>5. Config(fs)' = Config(fs)
  BY DEF MirrorBecomes, Config, ConfigFiles, ConfigDirs, Files, IsFile
<1> QED
  BY <1>2, <1>4, <1>5, SyncQuiet

LEMMA ListsSync ==
  ASSUME TypeOK, TypeOK', NEW r \in Run, PlaceInv(r), Lists(r)
  PROVE  SyncInv(r)'
<1>1. /\ stage'[r] = "prune" /\ fs' = fs /\ pc' = pc /\ pc[r] # "turn"
      /\ listed'[r] = [files |-> ConfigFiles(fs), dirs |-> ConfigDirs(fs), left |-> ConfigFiles(fs)]
  BY DEF Lists, TypeOK, PlaceInv
<1>2. /\ listed'[r].files = ConfigFiles(fs) /\ listed'[r].dirs = ConfigDirs(fs)
      /\ listed'[r].left = ConfigFiles(fs)
  BY <1>1
<1> QED
  BY <1>1, <1>2 DEF SyncInv

\* What is no longer in the sandbox leaves the mirror.
LEMMA PrunesSync ==
  ASSUME TypeOK, TypeOK', NEW r \in Run, PlaceInv(r), SyncInv(r), Prunes(r)
  PROVE  SyncInv(r)'
<1> DEFINE m == Mirror(r)
           l == listed[r]
           gone == (ConfigFiles(m) \ l.files) \cup (ConfigDirs(m) \ Required(l))
           t == [p \in Path |-> IF p \in gone \/ Above[p] \cap gone # {} THEN None ELSE m[p]]
<1>1. /\ stage[r] = "prune" /\ stage' = [stage EXCEPT ![r] = "dirs"]
      /\ MirrorBecomes(r, t) /\ pc' = pc /\ listed' = listed
  BY DEF Prunes
<1>2. fs' = fs /\ clean' \subseteq clean /\ pc[r] # "turn"
  BY <1>1 DEF MirrorBecomes, PlaceInv
<1>3. IdOf[r] \in Ids
  BY DEF Ids
<1>4. mirror'[IdOf[r]] = t
  BY <1>1, <1>3 DEF MirrorBecomes, TypeOK
<1>5. \A p \in Path : (t[p] = m[p] /\ p \notin gone) \/ t[p] = None
  OBVIOUS
<1>6. ConfigFiles(t) \subseteq l.files
  BY <1>5 DEF ConfigFiles, Files, IsFile
<1>7. ConfigDirs(t) \subseteq Required(l)
  BY <1>5, WorkspaceAssumption DEF ConfigDirs
<1> HIDE DEF t, gone
<1>8. stage'[r] = "dirs"
  BY <1>1 DEF TypeOK
<1> QED
  BY <1>1, <1>2, <1>4, <1>6, <1>7, <1>8 DEF SyncInv, Mirror

LEMMA RequiredPaths ==
  ASSUME TypeOK, NEW r \in Run
  PROVE  Required(listed[r]) \subseteq Path
<1>1. listed[r].files \subseteq Path /\ listed[r].dirs \subseteq Path
  BY DEF TypeOK
<1> QED
  BY <1>1, PathsAbove DEF Required

LEMMA MakesHostDirsSync ==
  ASSUME TypeOK, TypeOK', NEW r \in Run, PlaceInv(r), SyncInv(r), MakesHostDirs(r)
  PROVE  SyncInv(r)'
<1> DEFINE m == Mirror(r)
           l == listed[r]
           t == [p \in Path |-> IF p \in Required(l) THEN Dir ELSE m[p]]
<1>1. /\ stage[r] = "dirs" /\ stage' = [stage EXCEPT ![r] = "copy"]
      /\ MirrorBecomes(r, t) /\ pc' = pc /\ listed' = listed
  BY DEF MakesHostDirs
<1>2. fs' = fs /\ clean' \subseteq clean /\ pc[r] # "turn"
  BY <1>1 DEF MirrorBecomes, PlaceInv
<1>3. IdOf[r] \in Ids
  BY DEF Ids
<1>4. mirror'[IdOf[r]] = t
  BY <1>1, <1>3 DEF MirrorBecomes, TypeOK
<1>5. ASSUME r \in clean PROVE ConfigFiles(t) \subseteq l.files /\ ConfigDirs(t) \subseteq Required(l)
  <2>1. ConfigFiles(m) \subseteq l.files /\ ConfigDirs(m) \subseteq Required(l)
    BY <1>1, <1>5 DEF SyncInv
  <2>2. ConfigFiles(t) \subseteq ConfigFiles(m)
    BY DEF ConfigFiles, Files, IsFile
  <2>3. ConfigDirs(t) \subseteq ConfigDirs(m) \cup Required(l)
    BY DEF ConfigDirs
  <2> QED
    BY <2>1, <2>2, <2>3
<1>6. \A d \in Required(l) : t[d] = Dir
  BY RequiredPaths
<1> HIDE DEF t
<1>7. stage'[r] = "copy"
  BY <1>1 DEF TypeOK
<1> QED
  BY <1>1, <1>2, <1>4, <1>5, <1>6, <1>7 DEF SyncInv, Mirror

LEMMA CopiesSync ==
  ASSUME TypeOK, TypeOK', NEW r \in Run, PlaceInv(r), SyncInv(r), Copies(r)
  PROVE  SyncInv(r)'
<1> DEFINE m == Mirror(r)
           l == listed[r]
<1>1. PICK p \in l.left :
        /\ stage[r] = "copy" /\ IsFile(fs, p) /\ Accessible(m, p)
        /\ listed' = [listed EXCEPT ![r].left = @ \ {p}]
        /\ MirrorBecomes(r, Written(m, p, fs[p]))
        /\ UNCHANGED <<pc, stage>>
  BY DEF Copies
<1> DEFINE t == Written(m, p, fs[p])
<1>2. fs' = fs /\ clean' \subseteq clean /\ pc[r] # "turn"
  BY <1>1 DEF MirrorBecomes, PlaceInv
<1>3. SUFFICES ASSUME r \in clean PROVE SyncInv(r)'
  BY <1>2 DEF SyncInv
<1>4. IdOf[r] \in Ids /\ m \in Tree /\ p \in Path
  BY DEF Ids, Mirror, TypeOK
<1>5. mirror'[IdOf[r]] = t
  BY <1>1, <1>4 DEF MirrorBecomes, TypeOK
<1>6. listed'[r].files = l.files /\ listed'[r].dirs = l.dirs /\ listed'[r].left = l.left \ {p}
  BY <1>1 DEF TypeOK
<1>7. /\ l.files = ConfigFiles(fs) /\ l.dirs = ConfigDirs(fs) /\ l.left \subseteq l.files
      /\ ConfigFiles(m) \subseteq l.files /\ ConfigDirs(m) \subseteq Required(l)
      /\ \A d \in Required(l) : m[d] = Dir
      /\ \A q \in l.files \ l.left : m[q] = fs[q]
  BY <1>1, <1>3 DEF SyncInv
<1>8. fs[p] \in Content
  BY <1>1, <1>4 DEF TypeOK, Tree, IsFile
<1>9. /\ t[p] = fs[p]
      /\ \A q \in Path : q = p \/ t[q] = m[q] \/ (q \in Above[p] /\ m[q] = None)
  BY <1>1, <1>4, <1>8, WrittenEffect
<1>10. Above[p] \subseteq Required(l)
  BY <1>7 DEF Required
<1>11. \A q \in Path : q # p => t[q] = m[q]
  BY <1>7, <1>9, <1>10, WorkspaceAssumption
<1> HIDE DEF t
<1>12. ConfigFiles(t) \subseteq l.files
  BY <1>7, <1>11 DEF ConfigFiles, Files, IsFile
<1>13. ConfigDirs(t) \subseteq Required(l)
  BY <1>1, <1>7, <1>9, <1>11 DEF ConfigDirs, IsFile
<1>14. \A d \in Required(l) : t[d] = Dir
  BY <1>1, <1>7, <1>11, RequiredPaths DEF Accessible
<1>15. \A q \in l.files \ (l.left \ {p}) : t[q] = fs[q]
  <2>1. l.files \subseteq Path
    BY DEF TypeOK
  <2> QED
    BY <1>7, <1>9, <1>11, <2>1
<1>16. Required(listed'[r]) = Required(l)
  BY <1>6 DEF Required
<1> HIDE DEF l, m
<1>17. stage'[r] = "copy" /\ pc'[r] # "turn" /\ Mirror(r)' = t
  BY <1>1, <1>2, <1>5 DEF Mirror
<1> QED
  BY <1>2, <1>6, <1>7, <1>12, <1>13, <1>14, <1>15, <1>16, <1>17 DEF SyncInv

\* The mirror has the configuration that is in the sandbox.
LEMMA TurnStartsSync ==
  ASSUME TypeOK, TypeOK', WellFormed(fs), NEW r \in Run, SyncInv(r), TurnStarts(r)
  PROVE  SyncInv(r)'
<1> DEFINE m == Mirror(r)
           l == listed[r]
<1>1. /\ stage[r] = "copy" /\ l.left = {} /\ stage'[r] = "off"
      /\ fs' = fs /\ clean' = clean /\ mirror' = mirror
  BY DEF TurnStarts, Synced, TypeOK
<1>2. SUFFICES ASSUME r \in clean PROVE SyncInv(r)'
  BY <1>1 DEF SyncInv
<1>3. fs \in Tree /\ m \in Tree
  BY DEF TypeOK, Mirror, Ids
<1>4. /\ l.files = ConfigFiles(fs) /\ l.dirs = ConfigDirs(fs)
      /\ ConfigFiles(m) \subseteq l.files /\ ConfigDirs(m) \subseteq Required(l)
      /\ \A d \in Required(l) : m[d] = Dir
      /\ \A q \in l.files : m[q] = fs[q]
  BY <1>1, <1>2 DEF SyncInv
<1>5. ConfigFiles(fs) \subseteq ConfigFiles(m)
  BY <1>4 DEF ConfigFiles, Files, IsFile
<1>6. ConfigDirs(fs) \subseteq ConfigDirs(m)
  BY <1>4 DEF ConfigDirs, Required
<1>7. \A d \in Required(l) : fs[d] = Dir
  BY <1>4 DEF Required, ConfigDirs, ConfigFiles, Files, IsFile, WellFormed
<1>8. ConfigDirs(m) \subseteq ConfigDirs(fs)
  BY <1>4, <1>7 DEF ConfigDirs
<1>9. Config(m) = Config(fs)
  BY <1>3, <1>4, <1>5, <1>6, <1>8, ConfigEqual
<1>10. Config(Mirror(r))' = Config(fs)'
  BY <1>1, <1>9 DEF Mirror, Config, ConfigFiles, ConfigDirs, Files, IsFile
<1> QED
  BY <1>1, <1>10 DEF SyncInv

LEMMA SyncSteps ==
  ASSUME TypeOK, TypeOK', WellFormed(fs), NEW r \in Run, RunStep(r), PlaceInv(r),
         \A q \in Run : SyncInv(q)
  PROVE  \A q \in Run : SyncInv(q)'
<1>0. SUFFICES ASSUME NEW q \in Run PROVE SyncInv(q)'
  OBVIOUS
<1>1. q # r => pc'[q] = pc[q] /\ stage'[q] = stage[q] /\ listed'[q] = listed[q]
  BY OthersStay
<1>2. CASE Seeds(r)
  <2>1. UNCHANGED sandbox \/ Moves(None)
    BY <1>2, RunTree
  <2>2. /\ UNCHANGED mirror /\ listed'[q] = listed[q]
        /\ pc'[q] = "turn" => pc[q] = "turn"
        /\ stage'[q] = stage[q] \/ stage'[q] = "list"
    BY <1>1, <1>2 DEF Seeds, TypeOK
  <2> QED
    BY <2>1, <2>2, SyncMoves
<1>3. CASE Starts(r) \/ Prompts(r) \/ SyncFails(r) \/ Mounts(r) \/ Unmounts(r)
           \/ TurnEnds(r) \/ BreaksOff(r) \/ Records(r)
  <2>1. UNCHANGED sandbox /\ UNCHANGED mirror /\ UNCHANGED listed
    BY <1>3 DEF Starts, Prompts, SyncFails, Mounts, Unmounts, TurnEnds, BreaksOff, Records
  <2>2. stage'[q] = stage[q] \/ stage'[q] \in {"off", "list"}
    BY <1>3 DEF Starts, Prompts, SyncFails, Mounts, Unmounts, TurnEnds, BreaksOff, Records, TypeOK
  <2>3. pc'[q] = "turn" => pc[q] = "turn"
    <3>1. CASE q # r
      BY <1>1, <3>1
    <3>2. CASE q = r
      <4>1. CASE Starts(r) \/ Prompts(r) \/ SyncFails(r) \/ Mounts(r) \/ Unmounts(r)
        BY <3>2, <4>1 DEF Starts, Prompts, SyncFails, Mounts, Unmounts, TypeOK
      <4>2. CASE TurnEnds(r) \/ BreaksOff(r) \/ Records(r)
        BY <3>2, <4>2 DEF TurnEnds, BreaksOff, Records, LoopThrows, TypeOK
      <4> QED
        BY <1>3, <4>1, <4>2
    <3> QED
      BY <3>1, <3>2
  <2> QED
    BY <2>1, <2>2, <2>3, SyncMoves
<1>4. CASE Lists(r)
  <2>1. CASE q = r
    BY <1>4, <2>1, ListsSync
  <2>2. CASE q # r
    <3>1. SUFFICES ASSUME q \in clean' PROVE SyncInv(q)'
      BY DEF SyncInv
    <3>2. q \in clean /\ fs' = fs /\ mirror' = mirror
      BY <1>4, <2>2, <3>1 DEF Lists
    <3>3. Mirror(q)' = Mirror(q) /\ Config(fs)' = Config(fs)
      BY <3>2 DEF Mirror, Config, ConfigFiles, ConfigDirs, Files, IsFile
    <3> QED
      BY <1>1, <2>2, <3>2, <3>3, SyncQuiet
  <2> QED
    BY <2>1, <2>2
<1>5. CASE Prunes(r)
  <2>1. CASE q = r
    BY <1>5, <2>1, PrunesSync
  <2>2. CASE q # r
    <3>1. Mirror(r) \in Tree
      BY DEF TypeOK, Mirror, Ids
    <3>2. \E t \in Tree : MirrorBecomes(r, t)
      BY <1>5, <3>1 DEF Prunes, Tree
    <3> QED
      BY <1>1, <2>2, <3>2, SyncOthers
  <2> QED
    BY <2>1, <2>2
<1>6. CASE MakesHostDirs(r)
  <2>1. CASE q = r
    BY <1>6, <2>1, MakesHostDirsSync
  <2>2. CASE q # r
    <3>1. Mirror(r) \in Tree
      BY DEF TypeOK, Mirror, Ids
    <3>2. \E t \in Tree : MirrorBecomes(r, t)
      BY <1>6, <3>1 DEF MakesHostDirs, Tree
    <3> QED
      BY <1>1, <2>2, <3>2, SyncOthers
  <2> QED
    BY <2>1, <2>2
<1>7. CASE Copies(r)
  <2>1. CASE q = r
    BY <1>7, <2>1, CopiesSync
  <2>2. CASE q # r
    <3>1. fs \in Tree /\ Mirror(r) \in Tree /\ listed[r].left \subseteq Path
      BY DEF TypeOK, Mirror, Ids
    <3>2. PICK p \in Path : /\ IsFile(fs, p) /\ Accessible(Mirror(r), p)
                            /\ MirrorBecomes(r, Written(Mirror(r), p, fs[p]))
      BY <1>7, <3>1 DEF Copies
    <3>3. fs[p] \in Content
      BY <3>1, <3>2 DEF IsFile, Tree
    <3>4. Written(Mirror(r), p, fs[p]) \in Tree
      BY <3>1, <3>2, <3>3, WrittenEffect
    <3> QED
      BY <1>1, <2>2, <3>2, <3>4, SyncOthers
  <2> QED
    BY <2>1, <2>2
<1>8. CASE TurnStarts(r)
  <2>1. CASE q = r
    BY <1>8, <2>1, TurnStartsSync
  <2>2. CASE q # r
    <3>1. SUFFICES ASSUME q \in clean' PROVE SyncInv(q)'
      BY DEF SyncInv
    <3>2. q \in clean /\ fs' = fs /\ mirror' = mirror
      BY <1>8, <3>1 DEF TurnStarts
    <3>3. Mirror(q)' = Mirror(q) /\ Config(fs)' = Config(fs)
      BY <3>2 DEF Mirror, Config, ConfigFiles, ConfigDirs, Files, IsFile
    <3> QED
      BY <1>1, <2>2, <3>2, <3>3, SyncQuiet
  <2> QED
    BY <2>1, <2>2
<1> QED
  BY <1>2, <1>3, <1>4, <1>5, <1>6, <1>7, <1>8 DEF RunStep

\* What Pi reads of an undisturbed run's mirror.
LEMMA MirrorIsExact ==
  ASSUME TypeOK, MountInv, \A r \in Run : PlaceInv(r) /\ SyncInv(r)
  PROVE  MirrorExact
<1> SUFFICES ASSUME NEW r \in Run, pc[r] = "turn", r \in clean PROVE PiReads(r) = Config(fs)
  BY DEF MirrorExact
<1>1. Config(Mirror(r)) = Config(fs)
  BY DEF SyncInv
<1>2. r \in mounted
  BY DEF PlaceInv
<1>3. refs[IdOf[r]] > 0
  <2> DEFINE S == {q \in mounted : IdOf[q] = IdOf[r]}
  <2>1. IsFiniteSet(S) /\ r \in S
    BY <1>2, FS_Subset, WorkspaceAssumption DEF TypeOK
  <2>2. Cardinality(S) \in Nat /\ Cardinality(S) # 0
    BY <2>1, FS_CardinalityType, FS_EmptySet
  <2>3. refs[IdOf[r]] = Cardinality(S)
    BY DEF MountInv, Ids
  <2> QED
    BY <2>2, <2>3
<1>4. patched
  BY <1>3 DEF MountInv, Ids
<1> QED
  BY <1>1, <1>3, <1>4 DEF PiReads, Backing, MountedRoot

-----------------------------------------------------------------------------
(* Turns. *)

\* Pi's tools are at work in a turn, or after one that was broken off.
LEMMA CallPlace ==
  ASSUME TypeOK, NEW c \in Call, CallStep(c), TurnInv(Does[c].run)
  PROVE  pc[Does[c].run] \in {"turn", "cut", "failed"}
<1> DEFINE r == Does[c].run
<1>1. r \in Run
  BY WorkspaceAssumption
<1>2. CASE at[c] = "new"
  BY <1>2 DEF CallStep, Begins, EditReads, ReadsPrior, MakesDirs, Puts, Tells, Looks, RunsShell,
              CallFails
<1>3. CASE at[c] # "new"
  <2>1. at[c] \notin {"done", "failed"}
    BY <1>3 DEF CallStep, Begins, EditReads, ReadsPrior, MakesDirs, Puts, Tells, Looks, RunsShell,
                CallFails
  <2>2. Busy(r)
    BY <1>3, <2>1 DEF Busy
  <2>3. ~Unbegun(r) /\ (pc[r] \in {"turn", "cut"} \/ ~Begun(r))
    BY <1>3, <2>2 DEF TurnInv
  <2>4. pc[r] \in Place /\ turns[r] \in Nat /\ (pc[r] = "preparing" => turns[r] > 0)
    BY <1>1 DEF TypeOK, TurnInv
  <2> QED
    BY <2>3, <2>4 DEF Unbegun, Begun, Place
<1> QED
  BY <1>2, <1>3

LEMMA TurnSteps ==
  ASSUME TypeOK, TypeOK', NEW r \in Run, RunStep(r), PlaceInv(r), NEW q \in Run, TurnInv(q)
  PROVE  TurnInv(q)'
<1>1. CASE q # r
  <2>1. /\ pc'[q] = pc[q] /\ turns'[q] = turns[q] /\ events'[q] = events[q]
        /\ changed'[q] = changed[q] /\ at' = at /\ landed' = landed
    BY <1>1, OthersStay
  <2>2. (Unbegun(q)' <=> Unbegun(q)) /\ (Begun(q)' <=> Begun(q)) /\ (Busy(q)' <=> Busy(q))
    BY <2>1 DEF Unbegun, Begun, Busy
  <2> QED
    BY <2>1, <2>2 DEF TurnInv
<1>2. CASE q = r
  <2>1. CASE Starts(r) \/ Seeds(r)
    <3>1. /\ pc[r] \in {"idle", "seeding"} /\ pc'[r] \in {"setup", "seeding", "failed"}
          /\ turns' = turns /\ at' = at /\ events' = events /\ landed' = landed /\ changed' = changed
      BY <2>1 DEF Starts, Seeds, TypeOK
    <3> QED
      BY <1>2, <3>1 DEF TurnInv, Unbegun, Begun
  <2>2. CASE Prompts(r)
    <3>1. /\ pc[r] = "ready" /\ pc'[r] = "preparing" /\ turns'[r] = turns[r] + 1 /\ turns[r] \in Nat
          /\ at' = at /\ events' = events /\ landed' = landed /\ changed' = changed
      BY <2>2 DEF Prompts, TypeOK
    <3>2. Busy(r)' <=> Busy(r)
      BY <3>1 DEF Busy
    <3> QED
      BY <1>2, <3>1, <3>2 DEF TurnInv, Unbegun, Begun
  <2>3. CASE Lists(r) \/ Prunes(r) \/ MakesHostDirs(r) \/ Copies(r) \/ Unmounts(r)
    <3>1. /\ pc' = pc /\ turns' = turns
          /\ at' = at /\ events' = events /\ landed' = landed /\ changed' = changed
      BY <2>3 DEF Lists, Prunes, MakesHostDirs, Copies, Unmounts
    <3>2. Busy(r)' <=> Busy(r)
      BY <3>1 DEF Busy
    <3> QED
      BY <1>2, <3>1, <3>2 DEF TurnInv, Unbegun, Begun
  <2>4. CASE Mounts(r)
    <3>1. /\ pc[r] = "setup" /\ pc'[r] = "ready" /\ turns' = turns
          /\ at' = at /\ events' = events /\ landed' = landed /\ changed' = changed
      BY <2>4 DEF Mounts, TypeOK
    <3> QED
      BY <1>2, <3>1 DEF TurnInv, Unbegun, Begun
  <2>5. CASE TurnStarts(r)
    <3>1. pc[r] = "preparing" /\ pc'[r] = "turn" /\ turns' = turns
      BY <2>5 DEF TurnStarts, TypeOK
    <3> QED
      BY <1>2, <3>1 DEF TurnInv, Unbegun, Begun
  <2>6. CASE TurnEnds(r)
    <3>1. /\ pc[r] = "turn" /\ pc'[r] \in {"ready", "done"} /\ turns' = turns
          /\ at' = at /\ ~Busy(r) /\ events[r] = <<>> /\ events' = events
      BY <2>6 DEF TurnEnds, TypeOK
    <3>2. ~Busy(r)'
      BY <3>1 DEF Busy
    <3> QED
      BY <1>2, <3>1, <3>2 DEF TurnInv, Unbegun, Begun
  <2>7. CASE SyncFails(r) \/ BreaksOff(r)
    <3>1. pc'[r] \in {"failed", "cut"}
      BY <2>7 DEF SyncFails, BreaksOff, LoopThrows, TypeOK
    <3> QED
      BY <1>2, <3>1 DEF TurnInv, Unbegun, Begun
  <2>8. CASE Records(r)
    <3>1. pc[r] = "turn" /\ pc'[r] \in {"turn", "cut", "failed"} /\ turns' = turns
      BY <2>8 DEF Records, LoopThrows, TypeOK
    <3> QED
      BY <1>2, <3>1 DEF TurnInv, Unbegun, Begun
  <2> QED
    BY <2>1, <2>2, <2>3, <2>4, <2>5, <2>6, <2>7, <2>8 DEF RunStep
<1> QED
  BY <1>1, <1>2

\* A tool's step is one of its own run: it changes no other call, stream or set
\* of written paths.
LEMMA CallFrame ==
  ASSUME TypeOK, NEW c \in Call, CallStep(c)
  PROVE  /\ UNCHANGED <<host, pc, turns, syncs, changed, existed, handle>>
         /\ \A d \in Call : d # c => at'[d] = at[d] /\ prior'[d] = prior[d]
         /\ \A q \in Run : q # Does[c].run => events'[q] = events[q] /\ landed'[q] = landed[q]
         /\ ~Tells(c) => events' = events
         /\ ~Puts(c) => landed' = landed
         /\ ~ReadsPrior(c) => prior' = prior
<1> USE DEF TypeOK, Goes
<1>1. CASE Begins(c) \/ EditReads(c) \/ Looks(c) \/ CallFails(c)
  BY <1>1 DEF Begins, EditReads, Looks, CallFails
<1>2. CASE ReadsPrior(c)
  BY <1>2 DEF ReadsPrior
<1>3. CASE MakesDirs(c) \/ RunsShell(c)
  BY <1>3 DEF MakesDirs, RunsShell
<1>4. CASE Puts(c)
  BY <1>4 DEF Puts
<1>5. CASE Tells(c)
  BY <1>5 DEF Tells
<1> QED
  BY <1>1, <1>2, <1>3, <1>4, <1>5 DEF CallStep

LEMMA TurnCalls ==
  ASSUME TypeOK, NEW c \in Call, CallStep(c), NEW q \in Run, TurnInv(q)
  PROVE  TurnInv(q)'
<1>1. pc' = pc /\ turns' = turns /\ changed' = changed
  BY CallFrame
<1>2. CASE q = Does[c].run
  <2>1. pc[q] \in {"turn", "cut", "failed"}
    BY <1>2, CallPlace
  <2> QED
    BY <1>1, <2>1 DEF TurnInv, Unbegun, Begun
<1>3. CASE q # Does[c].run
  <2>1. events'[q] = events[q] /\ landed'[q] = landed[q]
    BY <1>3, CallFrame
  <2>2. \A d \in Call : Does[d].run = q => at'[d] = at[d]
    BY <1>3, CallFrame
  <2>3. Busy(q)' <=> Busy(q)
    BY <2>2 DEF Busy
  <2> QED
    BY <1>1, <2>1, <2>2, <2>3 DEF TurnInv, Unbegun, Begun
<1> QED
  BY <1>2, <1>3

-----------------------------------------------------------------------------
(* The report of a run. *)

LEMMA HeadAndTail ==
  ASSUME NEW s \in Seq(Event), s # <<>>
  PROVE  {s[i] : i \in DOMAIN s} = {Head(s)} \cup {Tail(s)[i] : i \in DOMAIN Tail(s)}
<1>1. /\ Len(s) \in Nat /\ Len(s) > 0 /\ DOMAIN s = 1..Len(s) /\ Head(s) = s[1]
      /\ DOMAIN Tail(s) = 1..(Len(s) - 1) /\ \A i \in 1..(Len(s) - 1) : Tail(s)[i] = s[i + 1]
  OBVIOUS
<1>2. \A i \in 1..Len(s) : i = 1 \/ (i - 1 \in 1..(Len(s) - 1) /\ s[i] = Tail(s)[i - 1])
  BY <1>1
<1> DEFINE all == {s[i] : i \in DOMAIN s}
           rest == {Tail(s)[i] : i \in DOMAIN Tail(s)}
<1>3. ASSUME NEW e \in all PROVE e = Head(s) \/ e \in rest
  <2>1. PICK i \in 1..Len(s) : e = s[i]
    BY <1>1
  <2>2. i = 1 \/ (i - 1 \in DOMAIN Tail(s) /\ e = Tail(s)[i - 1])
    BY <1>1, <1>2, <2>1
  <2> QED
    BY <1>1, <2>1, <2>2
<1>4. Head(s) \in all /\ rest \subseteq all
  <2>1. \A i \in DOMAIN Tail(s) : Tail(s)[i] = s[i + 1] /\ i + 1 \in DOMAIN s
    BY <1>1
  <2>2. 1 \in DOMAIN s
    BY <1>1
  <2> QED
    BY <1>1, <2>1, <2>2
<1> QED
  BY <1>3, <1>4

LEMMA Appended ==
  ASSUME NEW s \in Seq(Event), NEW e \in Event
  PROVE  {Append(s, e)[i] : i \in DOMAIN Append(s, e)} = {s[i] : i \in DOMAIN s} \cup {e}
<1>1. /\ Len(s) \in Nat /\ DOMAIN s = 1..Len(s) /\ DOMAIN Append(s, e) = 1..(Len(s) + 1)
      /\ Append(s, e)[Len(s) + 1] = e /\ \A i \in 1..Len(s) : Append(s, e)[i] = s[i]
  OBVIOUS
<1> QED
  BY <1>1

\* What PathInv says is kept by a step that does not tell, and after which no
\* call is closer to writing the path than before.
LEMMA PathKeep ==
  ASSUME NEW q \in Run, NEW p \in Path, PathInv(q, p),
         existed'[q] = existed[q], p \in landed'[q] <=> p \in landed[q],
         changed'[q][p] = changed[q][p],
         Told(q, p)' <=> Told(q, p), ToldCreated(q, p)' <=> ToldCreated(q, p),
         IsFile(fs', p) <=> IsFile(fs, p), IsFile(fs, p) => fs'[p] = fs[p],
         \A c \in Mine(q, p) : /\ at'[c] = "tell" <=> at[c] = "tell"
                               /\ at'[c] \in {"dirs", "put"} => at[c] \in {"dirs", "put"}
                               /\ at'[c] \in {"dirs", "put", "tell"} => prior'[c] = prior[c]
  PROVE  PathInv(q, p)'
<1> DEFINE new == p \notin existed[q]
<1>1. (new <=> p \notin existed'[q]) /\ IsFile(fs, p)' <=> IsFile(fs', p)
  BY DEF IsFile
<1>2. p \notin landed'[q] =>
        /\ IsFile(fs', p) <=> ~new
        /\ changed'[q][p] = None /\ ~Told(q, p)'
        /\ \A c \in Mine(q, p) : at'[c] # "tell"
        /\ \A c \in Mine(q, p) : at'[c] \in {"dirs", "put"} => (prior'[c] <=> ~new)
  BY DEF PathInv
<1>3. p \in landed'[q] =>
        /\ IsFile(fs', p)
        /\ \/ \E c \in Mine(q, p) : at'[c] = "tell"
           \/ Told(q, p)'
           \/ changed'[q][p] # None /\ changed'[q][p].bytes = fs'[p]
        /\ new => \/ \E c \in Mine(q, p) : at'[c] = "tell" /\ ~prior'[c]
                  \/ ToldCreated(q, p)'
                  \/ changed'[q][p] # None /\ changed'[q][p].change = "create"
  BY DEF PathInv
<1>4. ~new =>
        /\ \A c \in Mine(q, p) : at'[c] \in {"dirs", "put", "tell"} => prior'[c]
        /\ ~ToldCreated(q, p)'
        /\ changed'[q][p] # None => changed'[q][p].change = "modify"
  BY DEF PathInv
<1>5. IsFile(fs, p)' <=> IsFile(fs', p)
  BY DEF IsFile
<1> HIDE DEF new
<1> QED
  BY <1>2, <1>3, <1>4, <1>5 DEF PathInv, Mine, new

\* The first turn begins: the run's tools have written nothing yet.
LEMMA FirstTurn ==
  ASSUME TypeOK, TypeOK', NEW r \in Run, TurnStarts(r), turns[r] = 1, TurnInv(r)
  PROVE  ReportInv(r)'
<1>1. /\ pc[r] = "preparing" /\ fs' = fs /\ existed'[r] = Files(fs)
      /\ at' = at /\ events' = events /\ landed' = landed /\ changed' = changed
  BY DEF TurnStarts, TypeOK
<1>2. /\ \A c \in Call : Does[c].run = r => at[c] = "new"
      /\ events[r] = <<>> /\ landed[r] = {} /\ \A p \in Path : changed[r][p] = None
  BY <1>1 DEF TurnInv, Unbegun
<1>3. Reports(r)' = {}
  BY <1>1, <1>2 DEF Reports
<1>4. \A p \in Path : (p \notin existed'[r] <=> ~IsFile(fs', p)) /\ ~Told(r, p)' /\ ~ToldCreated(r, p)'
  BY <1>1, <1>3 DEF Files, Told, ToldCreated, IsFile
<1>5. \A p \in Path : PathInv(r, p)'
  BY <1>1, <1>2, <1>4 DEF PathInv, Mine, IsFile
<1> QED
  BY <1>5 DEF ReportInv

\* A report is handled: the file is read as it is.
LEMMA PathRecords ==
  ASSUME TypeOK, TypeOK', NEW r \in Run, Records(r), pc'[r] = "turn",
         NEW p \in Path, PathInv(r, p)
  PROVE  PathInv(r, p)'
<1> DEFINE e == Head(events[r])
           old == changed[r][e.path]
           created == e.kind = "create" \/ (old # None /\ old.change = "create")
           v == [change |-> IF created THEN "create" ELSE "modify", bytes |-> fs[e.path]]
<1>1. /\ events[r] # <<>> /\ events[r] \in Seq(Event) /\ events'[r] = Tail(events[r])
      /\ changed' = IF ~IsFile(fs, e.path) THEN changed ELSE [changed EXCEPT ![r][e.path] = v]
      /\ fs' = fs /\ existed' = existed /\ UNCHANGED tools
  BY DEF Records, LoopThrows, TypeOK
<1>2. e \in Event /\ e.path \in Path
  <2>1. e \in Event
    BY <1>1
  <2> HIDE DEF e
  <2> QED
    BY <2>1 DEF Event
<1>3. Reports(r) = {e} \cup Reports(r)'
  <2> DEFINE s == events[r]
  <2>1. {s[i] : i \in DOMAIN s} = {Head(s)} \cup {Tail(s)[i] : i \in DOMAIN Tail(s)}
    BY <1>1, HeadAndTail
  <2>2. Reports(r)' = {Tail(s)[i] : i \in DOMAIN Tail(s)}
    BY <1>1 DEF Reports
  <2> QED
    BY <2>1, <2>2 DEF Reports
<1>4. v.change \in {"create", "modify"} /\ v.bytes = fs[e.path]
  OBVIOUS
<1>5. changed'[r][p] = IF p = e.path /\ IsFile(fs, p) THEN v ELSE changed[r][p]
  <2>1. CASE ~IsFile(fs, e.path)
    BY <1>1, <2>1
  <2>2. CASE IsFile(fs, e.path)
    <3>1. changed' = [changed EXCEPT ![r] = [changed[r] EXCEPT ![e.path] = v]]
      BY <1>1, <2>2
    <3> HIDE DEF v, e
    <3>2. changed'[r] = [changed[r] EXCEPT ![e.path] = v]
      BY <3>1 DEF TypeOK
    <3>3. changed[r] \in [Path -> Change \cup {None}]
      BY DEF TypeOK
    <3> QED
      BY <1>2, <2>2, <3>2, <3>3
  <2> QED
    BY <2>1, <2>2
<1>6. CASE p # e.path
  <2>1. (Told(r, p)' <=> Told(r, p)) /\ (ToldCreated(r, p)' <=> ToldCreated(r, p))
    <3> HIDE DEF e
    <3> QED
      BY <1>3, <1>6 DEF Told, ToldCreated
  <2>2. changed'[r][p] = changed[r][p] /\ existed'[r] = existed[r]
        /\ (p \in landed'[r] <=> p \in landed[r])
        /\ (IsFile(fs', p) <=> IsFile(fs, p)) /\ fs'[p] = fs[p]
    BY <1>1, <1>5, <1>6
  <2>3. \A c \in Mine(r, p) : at'[c] = at[c] /\ prior'[c] = prior[c]
    BY <1>1
  <2> HIDE DEF e
  <2> QED
    BY <2>1, <2>2, <2>3, PathKeep
<1>7. CASE p = e.path
  <2> DEFINE new == p \notin existed[r]
  <2>1. Told(r, p)
    BY <1>3, <1>7 DEF Told
  <2>2. p \in landed[r] /\ IsFile(fs, p)
    BY <2>1 DEF PathInv
  <2>3. changed'[r][p] = v /\ v # None /\ v.bytes = fs[p]
    <3>1. changed'[r][p] = v
      BY <1>5, <1>7, <2>2
    <3>2. fs[p] \in SUBSET Token
      BY <2>2 DEF TypeOK, Tree, IsFile, Content
    <3> QED
      BY <1>4, <1>7, <3>1, <3>2, WorkspaceAssumption
  <2>4. ASSUME new
        PROVE  \/ \E c \in Mine(r, p) : at[c] = "tell" /\ ~prior[c]
               \/ ToldCreated(r, p)'
               \/ v.change = "create"
    <3>1. \/ \E c \in Mine(r, p) : at[c] = "tell" /\ ~prior[c]
          \/ ToldCreated(r, p)
          \/ changed[r][p] # None /\ changed[r][p].change = "create"
      BY <2>2, <2>4 DEF PathInv
    <3>2. ToldCreated(r, p) => ToldCreated(r, p)' \/ e.kind = "create"
      BY <1>3 DEF ToldCreated
    <3> QED
      BY <1>7, <3>1, <3>2
  <2>5. ASSUME ~new
        PROVE  v.change = "modify" /\ ~ToldCreated(r, p)'
    <3>1. ~ToldCreated(r, p) /\ (changed[r][p] # None => changed[r][p].change = "modify")
      BY <2>5 DEF PathInv
    <3>2. e = [kind |-> e.kind, path |-> e.path]
      BY <1>2 DEF Event
    <3>3. e.kind # "create"
      BY <1>3, <1>7, <3>1, <3>2 DEF ToldCreated
    <3>4. ~ToldCreated(r, p)'
      BY <1>3, <3>1 DEF ToldCreated
    <3> QED
      BY <1>7, <3>1, <3>3, <3>4
  <2>6. ~new => \A c \in Mine(r, p) : at[c] \in {"dirs", "put", "tell"} => prior[c]
    BY DEF PathInv
  <2> HIDE DEF v, new
  <2>7. p \in landed'[r] /\ IsFile(fs', p) /\ (new <=> p \notin existed'[r]) /\ at' = at
        /\ prior' = prior /\ fs'[p] = fs[p]
    BY <1>1, <2>2 DEF new
  <2>8. /\ p \notin existed'[r] => \/ \E c \in Mine(r, p) : at'[c] = "tell" /\ ~prior'[c]
                                   \/ ToldCreated(r, p)'
                                   \/ changed'[r][p] # None /\ changed'[r][p].change = "create"
        /\ changed'[r][p] # None /\ changed'[r][p].bytes = fs'[p]
    BY <2>3, <2>4, <2>7
  <2>9. p \in existed'[r] =>
          /\ \A c \in Mine(r, p) : at'[c] \in {"dirs", "put", "tell"} => prior'[c]
          /\ ~ToldCreated(r, p)'
          /\ changed'[r][p].change = "modify"
    BY <2>3, <2>5, <2>6, <2>7
  <2>10. IsFile(fs, p)'
    BY <2>7 DEF IsFile
  <2> QED
    BY <2>7, <2>8, <2>9, <2>10 DEF PathInv, Mine
<1> QED
  BY <1>6, <1>7

\* A path that is not foreign after a step that is not the run's own has not
\* changed in it.
LEMMA ForeignGrows ==
  ASSUME TypeOK, NEW own, NEW q \in Run, q # own, UNCHANGED sandbox \/ Moves(own)
  PROVE  /\ foreign[q] \subseteq foreign'[q]
         /\ \A p \in Path \ foreign'[q] : fs'[p] = fs[p]
<1>1. CASE UNCHANGED sandbox
  BY <1>1
<1>2. CASE Moves(own)
  <2>1. PICK t \in Tree : Becomes(t, own)
    BY <1>2 DEF Moves
  <2> QED
    BY <2>1, BecomesEffect
<1> QED
  BY <1>1, <1>2

\* Nothing of a run changes but what others have done to the tree.
LEMMA ReportQuiet ==
  ASSUME TypeOK, NEW q \in Run, ReportInv(q), Begun(q)' => Begun(q),
         foreign[q] \subseteq foreign'[q], \A p \in Path \ foreign'[q] : fs'[p] = fs[p],
         existed'[q] = existed[q], changed'[q] = changed[q], events'[q] = events[q],
         landed'[q] = landed[q],
         \A c \in Call : Does[c].run = q => at'[c] = at[c] /\ prior'[c] = prior[c]
  PROVE  ReportInv(q)'
<1> SUFFICES ASSUME Begun(q)', NEW p \in Path \ foreign'[q] PROVE PathInv(q, p)'
  BY DEF ReportInv
<1>1. PathInv(q, p)
  BY DEF ReportInv
<1>2. Reports(q)' = Reports(q)
  BY DEF Reports
<1>3. (Told(q, p)' <=> Told(q, p)) /\ (ToldCreated(q, p)' <=> ToldCreated(q, p))
  BY <1>2 DEF Told, ToldCreated
<1>4. IsFile(fs', p) <=> IsFile(fs, p)
  BY DEF IsFile
<1>5. \A c \in Mine(q, p) : at'[c] = at[c] /\ prior'[c] = prior[c]
  BY DEF Mine
<1> QED
  BY <1>1, <1>3, <1>4, <1>5, PathKeep

LEMMA ReportSteps ==
  ASSUME TypeOK, TypeOK', WellFormed(fs), NEW r \in Run, RunStep(r), PlaceInv(r),
         NEW q \in Run, TurnInv(q), ReportInv(q)
  PROVE  ReportInv(q)'
<1>1. CASE q # r
  <2>1. /\ pc'[q] = pc[q] /\ turns'[q] = turns[q] /\ events'[q] = events[q]
        /\ changed'[q] = changed[q] /\ existed'[q] = existed[q] /\ UNCHANGED tools
        /\ foreign'[q] = foreign[q] \/ Seeds(r)
    BY <1>1, OthersStay
  <2>2. foreign[q] \subseteq foreign'[q] /\ \A p \in Path \ foreign'[q] : fs'[p] = fs[p]
    <3>1. CASE Seeds(r)
      <4>1. UNCHANGED sandbox \/ Moves(None)
        BY <3>1, RunTree
      <4> QED
        BY <4>1, ForeignGrows, WorkspaceAssumption
    <3>2. CASE ~Seeds(r)
      BY <2>1, <3>2, RunTree
    <3> QED
      BY <3>1, <3>2
  <2>3. Begun(q)' => Begun(q)
    BY <2>1 DEF Begun
  <2> QED
    BY <2>1, <2>2, <2>3, ReportQuiet
<1>2. CASE q = r
  <2>1. CASE Starts(r) \/ Seeds(r) \/ SyncFails(r)
    <3>1. pc'[r] \in {"setup", "seeding", "failed"}
      BY <2>1 DEF Starts, Seeds, SyncFails, TypeOK
    <3> QED
      BY <1>2, <3>1 DEF ReportInv, Begun
  <2>2. CASE Mounts(r)
    <3>1. pc'[r] = "ready" /\ turns'[r] = 0
      BY <1>2, <2>2 DEF Mounts, TypeOK, TurnInv
    <3> QED
      BY <1>2, <3>1 DEF ReportInv, Begun
  <2>3. CASE \/ Prompts(r) \/ Lists(r) \/ Prunes(r) \/ MakesHostDirs(r) \/ Copies(r) \/ Unmounts(r)
             \/ TurnEnds(r) \/ (TurnStarts(r) /\ turns[r] # 1)
    <3>1. /\ fs' = fs /\ foreign' = foreign /\ existed' = existed /\ changed' = changed
          /\ events' = events /\ UNCHANGED tools
      BY <2>3 DEF Prompts, Lists, Prunes, MakesHostDirs, Copies, Unmounts, TurnEnds, TurnStarts,
                  MirrorBecomes
    <3>2. Begun(r)' => Begun(r)
      <4>1. CASE Prompts(r)
        BY <4>1 DEF Prompts, Begun, TypeOK
      <4>2. CASE Lists(r) \/ Prunes(r) \/ MakesHostDirs(r) \/ Copies(r) \/ Unmounts(r)
        BY <4>2 DEF Lists, Prunes, MakesHostDirs, Copies, Unmounts, Begun
      <4>3. CASE TurnEnds(r)
        BY <4>3 DEF TurnEnds, Begun
      <4>4. CASE TurnStarts(r) /\ turns[r] # 1
        BY <1>2, <4>4 DEF TurnStarts, Begun, TurnInv, TypeOK
      <4> QED
        BY <2>3, <4>1, <4>2, <4>3, <4>4
    <3> QED
      BY <1>2, <3>1, <3>2, ReportQuiet
  <2>4. CASE TurnStarts(r) /\ turns[r] = 1
    BY <1>2, <2>4, FirstTurn
  <2>5. CASE Records(r)
    <3>1. CASE pc'[r] # "turn"
      <4>1. /\ Begun(r) /\ UNCHANGED <<sandbox, existed, changed, events>> /\ UNCHANGED tools
        BY <2>5, <3>1 DEF Records, Begun
      <4> QED
        BY <1>2, <4>1, ReportQuiet
    <3>2. CASE pc'[r] = "turn"
      <4>1. Begun(r) /\ foreign' = foreign
        BY <2>5 DEF Records, Begun
      <4>2. \A p \in Path \ foreign'[r] : PathInv(r, p)'
        BY <1>2, <2>5, <3>2, <4>1, PathRecords DEF ReportInv
      <4> QED
        BY <1>2, <4>2 DEF ReportInv
    <3> QED
      BY <3>1, <3>2
  <2>6. CASE BreaksOff(r)
    <3>1. /\ Begun(r) /\ UNCHANGED <<sandbox, existed, changed, events>> /\ UNCHANGED tools
      BY <2>6 DEF BreaksOff, Begun
    <3> QED
      BY <1>2, <3>1, ReportQuiet
  <2> QED
    BY <2>1, <2>2, <2>3, <2>4, <2>5, <2>6 DEF RunStep
<1> QED
  BY <1>1, <1>2

\* A file is written: its path becomes one the run's tools have written.
LEMMA PathPuts ==
  ASSUME TypeOK, TypeOK', WellFormed(fs), NEW c \in Call, Puts(c), NEW p \in Path,
         p \notin foreign'[Does[c].run], PathInv(Does[c].run, p)
  PROVE  PathInv(Does[c].run, p)'
<1> DEFINE q == Does[c].run
           P == Does[c].path
<1>0. q \in Run /\ P \in Path /\ q # None /\ text[c] \in Content /\ fs \in Tree
  BY WorkspaceAssumption DEF TypeOK
<1>1. /\ at[c] = "put" /\ Accessible(fs, P)
      /\ \A d \in Call : d # c => at'[d] = at[d]
      /\ UNCHANGED <<existed, changed, events, prior>>
  BY DEF Puts, Goes, TypeOK
<1>2. (Told(q, p)' <=> Told(q, p)) /\ (ToldCreated(q, p)' <=> ToldCreated(q, p))
  BY <1>1 DEF Told, ToldCreated, Reports
<1> DEFINE t == Written(fs, P, text[c])
<1>3. /\ t \in Tree /\ WellFormed(t) /\ t[P] = text[c]
      /\ \A a \in Path : a = P \/ t[a] = fs[a] \/ (fs[a] = None /\ t[a] = Dir)
  BY <1>0, <1>1, WrittenEffect
<1>4. CASE Becomes(t, q) /\ at'[c] = "tell" /\ landed'[q] = landed[q] \cup {P}
  <2>1. fs' = t
    BY <1>4 DEF Becomes
  <2>2. CASE p # P
    <3>1. c \notin Mine(q, p)
      BY <2>2 DEF Mine
    <3>2. (IsFile(fs', p) <=> IsFile(fs, p)) /\ (IsFile(fs, p) => fs'[p] = fs[p])
      <4> HIDE DEF t, P
      <4> QED
        BY <1>3, <2>1, <2>2 DEF IsFile
    <3>3. \A d \in Mine(q, p) : at'[d] = at[d] /\ prior'[d] = prior[d]
      BY <1>1, <3>1 DEF Mine
    <3>4. p \in landed'[q] <=> p \in landed[q]
      BY <1>4, <2>2
    <3> QED
      BY <1>0, <1>1, <1>2, <3>2, <3>3, <3>4, PathKeep
  <2>3. CASE p = P
    <3>1. c \in Mine(q, p) /\ at'[c] = "tell" /\ prior' = prior
      BY <1>1, <1>4, <2>3 DEF Mine
    <3>2. p \in landed'[q] /\ IsFile(fs, p)'
      <4>1. fs'[p] = text[c]
        BY <1>3, <2>1, <2>3
      <4> QED
        BY <1>0, <1>4, <2>3, <4>1, ContentIsFile DEF IsFile
    <3>3. ASSUME p \notin existed[q]
          PROVE  \/ \E d \in Mine(q, p) : at'[d] = "tell" /\ ~prior[d]
                 \/ ToldCreated(q, p)
                 \/ changed[q][p] # None /\ changed[q][p].change = "create"
      <4>1. CASE p \in landed[q]
        <5>1. \/ \E d \in Mine(q, p) : at[d] = "tell" /\ ~prior[d]
              \/ ToldCreated(q, p)
              \/ changed[q][p] # None /\ changed[q][p].change = "create"
          BY <3>3, <4>1 DEF PathInv
        <5>2. \A d \in Mine(q, p) : at[d] = "tell" => at'[d] = "tell"
          BY <1>1 DEF Mine
        <5> QED
          BY <5>1, <5>2
      <4>2. CASE p \notin landed[q]
        BY <1>1, <3>1, <3>3, <4>2 DEF PathInv
      <4> QED
        BY <4>1, <4>2
    <3>4. ASSUME p \in existed[q]
          PROVE  /\ \A d \in Mine(q, p) : at'[d] \in {"dirs", "put", "tell"} => prior[d]
                 /\ ~ToldCreated(q, p)
                 /\ changed[q][p] # None => changed[q][p].change = "modify"
      <4>1. /\ \A d \in Mine(q, p) : at[d] \in {"dirs", "put", "tell"} => prior[d]
            /\ ~ToldCreated(q, p)
            /\ changed[q][p] # None => changed[q][p].change = "modify"
        BY <3>4 DEF PathInv
      <4>2. \A d \in Mine(q, p) : d # c => at'[d] = at[d]
        BY <1>1 DEF Mine
      <4> QED
        BY <1>1, <3>1, <4>1, <4>2
    <3>5. existed' = existed /\ changed' = changed
      BY <1>1
    <3> HIDE DEF q, P, t
    <3> QED
      BY <1>2, <3>1, <3>2, <3>3, <3>4, <3>5 DEF PathInv, Mine, q
  <2> QED
    BY <2>2, <2>3
<1>5. CASE Becomes(t, None) /\ at'[c] = "failed" /\ landed' = landed
  <2>1. Moves(None)
    BY <1>3, <1>5 DEF Moves
  <2>2. fs'[p] = fs[p]
    BY <1>0, <2>1, ForeignGrows
  <2>3. \A d \in Mine(q, p) : /\ at'[d] = "tell" <=> at[d] = "tell"
                              /\ at'[d] \in {"dirs", "put"} => at[d] \in {"dirs", "put"}
                              /\ prior'[d] = prior[d]
    BY <1>1, <1>5 DEF Mine
  <2>4. IsFile(fs', p) <=> IsFile(fs, p)
    BY <2>2 DEF IsFile
  <2> QED
    BY <1>0, <1>1, <1>2, <1>5, <2>2, <2>3, <2>4, PathKeep
<1>6. \/ Becomes(t, q) /\ at'[c] = "tell" /\ landed'[q] = landed[q] \cup {P}
      \/ Becomes(t, None) /\ at'[c] = "failed" /\ landed' = landed
  BY <1>0 DEF Puts, Goes, TypeOK
<1> QED
  BY <1>4, <1>5, <1>6

\* Whether the file is there is looked up before it is written.
LEMMA PathReadsPrior ==
  ASSUME TypeOK, TypeOK', NEW c \in Call, ReadsPrior(c), NEW p \in Path, PathInv(Does[c].run, p)
  PROVE  PathInv(Does[c].run, p)'
<1> DEFINE q == Does[c].run
           P == Does[c].path
<1>0. q \in Run /\ P \in Path
  BY WorkspaceAssumption
<1>1. /\ at[c] = "prior" /\ at'[c] \in {"dirs", "failed"} /\ prior'[c] = IsFile(fs, P)
      /\ \A d \in Call : d # c => at'[d] = at[d] /\ prior'[d] = prior[d]
      /\ UNCHANGED <<existed, changed, events, landed, fs>>
  BY DEF ReadsPrior, Goes, TypeOK
<1>2. (Told(q, p)' <=> Told(q, p)) /\ (ToldCreated(q, p)' <=> ToldCreated(q, p))
  BY <1>1 DEF Told, ToldCreated, Reports
<1>3. CASE p # P \/ at'[c] = "failed"
  <2>1. \A d \in Mine(q, p) : /\ at'[d] = "tell" <=> at[d] = "tell"
                              /\ at'[d] \in {"dirs", "put"} => at[d] \in {"dirs", "put"}
                              /\ at'[d] \in {"dirs", "put", "tell"} => prior'[d] = prior[d]
    BY <1>1, <1>3 DEF Mine
  <2>2. IsFile(fs', p) <=> IsFile(fs, p)
    BY <1>1
  <2> QED
    BY <1>0, <1>1, <1>2, <2>1, <2>2, PathKeep
<1>4. CASE p = P /\ at'[c] # "failed"
  <2>1. prior'[c] <=> IsFile(fs, p)
    BY <1>1, <1>4
  <2>2. p \notin landed[q] => (prior'[c] <=> p \in existed[q])
    BY <2>1 DEF PathInv
  <2>3. p \in existed[q] => prior'[c]
    BY <2>1 DEF PathInv
  <2>4. \A d \in Mine(q, p) : d # c => at'[d] = at[d] /\ prior'[d] = prior[d]
    BY <1>1 DEF Mine
  <2>5. \A d \in Mine(q, p) : at'[d] = "tell" <=> at[d] = "tell" /\ d # c
    BY <1>1, <2>4
  <2>6. p \notin landed[q] =>
          /\ \A d \in Mine(q, p) : at'[d] # "tell"
          /\ \A d \in Mine(q, p) : at'[d] \in {"dirs", "put"} => (prior'[d] <=> p \in existed[q])
    BY <2>2, <2>4, <2>5 DEF PathInv
  <2>7. p \in existed[q] => \A d \in Mine(q, p) : at'[d] \in {"dirs", "put", "tell"} => prior'[d]
    BY <2>3, <2>4 DEF PathInv
  <2>8. /\ (\E d \in Mine(q, p) : at[d] = "tell") => \E d \in Mine(q, p) : at'[d] = "tell"
        /\ (\E d \in Mine(q, p) : at[d] = "tell" /\ ~prior[d]) =>
             \E d \in Mine(q, p) : at'[d] = "tell" /\ ~prior'[d]
    BY <1>1, <2>4
  <2>9. IsFile(fs, p)' <=> IsFile(fs, p)
    BY <1>1 DEF IsFile
  <2>10. p \notin landed'[q] =>
           /\ IsFile(fs, p)' <=> p \in existed[q]
           /\ changed'[q][p] = None /\ ~Told(q, p)'
    BY <1>1, <1>2, <2>9 DEF PathInv
  <2>11. p \in landed'[q] =>
           /\ IsFile(fs, p)'
           /\ \/ \E d \in Mine(q, p) : at'[d] = "tell"
              \/ Told(q, p)'
              \/ changed'[q][p] # None /\ changed'[q][p].bytes = fs'[p]
           /\ p \notin existed[q] =>
                \/ \E d \in Mine(q, p) : at'[d] = "tell" /\ ~prior'[d]
                \/ ToldCreated(q, p)'
                \/ changed'[q][p] # None /\ changed'[q][p].change = "create"
    BY <1>1, <1>2, <2>8, <2>9 DEF PathInv
  <2>12. p \in existed[q] =>
           ~ToldCreated(q, p)' /\ (changed'[q][p] # None => changed'[q][p].change = "modify")
    BY <1>1, <1>2 DEF PathInv
  <2>13. existed' = existed /\ landed' = landed
    BY <1>1
  <2> HIDE DEF q, P
  <2> QED
    BY <2>6, <2>7, <2>10, <2>11, <2>12, <2>13 DEF PathInv, Mine, q
<1> QED
  BY <1>1, <1>3, <1>4

\* The write is reported to the stream of its run.
LEMMA PathTells ==
  ASSUME TypeOK, TypeOK', NEW c \in Call, Tells(c),
         NEW p \in Path, PathInv(Does[c].run, p)
  PROVE  PathInv(Does[c].run, p)'
<1> DEFINE q == Does[c].run
           P == Does[c].path
           e == [kind |-> IF prior[c] THEN "modify" ELSE "create", path |-> P]
<1>0. q \in Run /\ P \in Path
  BY WorkspaceAssumption
<1>1. /\ at[c] = "tell" /\ at'[c] = "done" /\ events'[q] = Append(events[q], e)
      /\ \A d \in Call : d # c => at'[d] = at[d]
      /\ UNCHANGED <<existed, changed, landed, fs, prior>>
  BY <1>0 DEF Tells, Goes, TypeOK
<1>2. Reports(q)' = Reports(q) \cup {e}
  <2> DEFINE s == events[q]
  <2>1. s \in Seq(Event) /\ e \in Event
    BY <1>0 DEF TypeOK, Event
  <2> HIDE DEF e
  <2>2. Reports(q)' = {Append(s, e)[i] : i \in DOMAIN Append(s, e)}
    BY <1>1 DEF Reports
  <2>3. Reports(q) = {s[i] : i \in DOMAIN s}
    BY DEF Reports
  <2> HIDE DEF s
  <2> QED
    BY <2>1, <2>2, <2>3, Appended
<1>3. CASE p # P
  <2>1. (Told(q, p)' <=> Told(q, p)) /\ (ToldCreated(q, p)' <=> ToldCreated(q, p))
    BY <1>2, <1>3 DEF Told, ToldCreated
  <2>2. \A d \in Mine(q, p) : at'[d] = at[d] /\ prior'[d] = prior[d]
    BY <1>1, <1>3 DEF Mine
  <2>3. IsFile(fs', p) <=> IsFile(fs, p)
    BY <1>1
  <2> QED
    BY <1>0, <1>1, <2>1, <2>2, <2>3, PathKeep
<1>4. CASE p = P
  <2>1. c \in Mine(q, p)
    BY <1>4 DEF Mine
  <2>2. p \in landed[q] /\ IsFile(fs, p)
    BY <1>1, <2>1 DEF PathInv
  <2>3. Told(q, p)'
    <3>1. e.path = P /\ e \in Reports(q)'
      BY <1>2
    <3> HIDE DEF e
    <3> QED
      BY <1>4, <3>1 DEF Told
  <2>4. ASSUME p \notin existed[q]
        PROVE  \/ \E d \in Mine(q, p) : at'[d] = "tell" /\ ~prior[d]
               \/ ToldCreated(q, p)'
               \/ changed[q][p] # None /\ changed[q][p].change = "create"
    <3>1. \/ \E d \in Mine(q, p) : at[d] = "tell" /\ ~prior[d]
          \/ ToldCreated(q, p)
          \/ changed[q][p] # None /\ changed[q][p].change = "create"
      BY <2>2, <2>4 DEF PathInv
    <3>2. ~prior[c] => ToldCreated(q, p)'
      BY <1>2, <1>4 DEF ToldCreated
    <3>3. ToldCreated(q, p) => ToldCreated(q, p)'
      BY <1>2 DEF ToldCreated
    <3>4. \A d \in Mine(q, p) : d # c => at'[d] = at[d]
      BY <1>1 DEF Mine
    <3> QED
      BY <3>1, <3>2, <3>3, <3>4
  <2>5. ASSUME p \in existed[q]
        PROVE  /\ \A d \in Mine(q, p) : at'[d] \in {"dirs", "put", "tell"} => prior[d]
               /\ ~ToldCreated(q, p)'
               /\ changed[q][p] # None => changed[q][p].change = "modify"
    <3>1. /\ \A d \in Mine(q, p) : at[d] \in {"dirs", "put", "tell"} => prior[d]
          /\ ~ToldCreated(q, p)
          /\ changed[q][p] # None => changed[q][p].change = "modify"
      BY <2>5 DEF PathInv
    <3>2. prior[c]
      BY <1>1, <2>1, <3>1
    <3>3. ~ToldCreated(q, p)'
      BY <1>2, <3>1, <3>2 DEF ToldCreated
    <3>4. \A d \in Mine(q, p) : d # c => at'[d] = at[d]
      BY <1>1 DEF Mine
    <3> QED
      BY <1>1, <3>1, <3>3, <3>4
  <2>6. p \in landed'[q] /\ IsFile(fs, p)' /\ existed' = existed /\ changed' = changed /\ prior' = prior
    BY <1>1, <2>2 DEF IsFile
  <2> HIDE DEF q, P, e
  <2> QED
    BY <2>3, <2>4, <2>5, <2>6 DEF PathInv, Mine, q
<1> QED
  BY <1>3, <1>4

LEMMA ReportCalls ==
  ASSUME TypeOK, TypeOK', WellFormed(fs), NEW c \in Call, CallStep(c), TurnInv(Does[c].run),
         NEW q \in Run, ReportInv(q)
  PROVE  ReportInv(q)'
<1>0. /\ Does[c].run \in Run /\ q # None
      /\ UNCHANGED <<pc, turns, changed, existed>>
      /\ \A d \in Call : d # c => at'[d] = at[d] /\ prior'[d] = prior[d]
  BY CallFrame, WorkspaceAssumption
<1>1. Begun(q)' <=> Begun(q)
  BY <1>0 DEF Begun
<1>2. UNCHANGED sandbox \/ Moves(None) \/ (Puts(c) /\ Moves(Does[c].run))
  BY CallTree
<1>3. CASE q # Does[c].run
  <2>1. foreign[q] \subseteq foreign'[q] /\ \A p \in Path \ foreign'[q] : fs'[p] = fs[p]
    BY <1>0, <1>2, <1>3, ForeignGrows
  <2>2. events'[q] = events[q] /\ landed'[q] = landed[q]
    BY <1>3, CallFrame
  <2>3. \A d \in Call : Does[d].run = q => at'[d] = at[d] /\ prior'[d] = prior[d]
    BY <1>0, <1>3
  <2> QED
    BY <1>0, <1>1, <2>1, <2>2, <2>3, ReportQuiet
<1>4. CASE q = Does[c].run
  <2> SUFFICES ASSUME Begun(q), NEW p \in Path \ foreign'[q] PROVE PathInv(q, p)'
    BY <1>1 DEF ReportInv
  <2>2. foreign[q] \subseteq foreign'[q]
    <3>1. CASE UNCHANGED sandbox \/ Moves(None)
      BY <1>0, <3>1, ForeignGrows
    <3>2. CASE Moves(q)
      BY <3>2, BecomesEffect DEF Moves
    <3> QED
      BY <1>2, <1>4, <3>1, <3>2
  <2>3. PathInv(q, p)
    BY <2>2 DEF ReportInv
  <2>4. CASE Puts(c)
    BY <1>4, <2>3, <2>4, PathPuts
  <2>5. CASE ReadsPrior(c)
    BY <1>4, <2>3, <2>5, PathReadsPrior
  <2>6. CASE Tells(c)
    BY <1>4, <2>3, <2>6, PathTells
  <2>7. CASE \/ Begins(c) \/ EditReads(c) \/ MakesDirs(c) \/ Looks(c) \/ RunsShell(c)
             \/ (CallFails(c) /\ ~Puts(c) /\ ~ReadsPrior(c) /\ ~Tells(c))
    <3>1. ~Puts(c) /\ ~ReadsPrior(c) /\ ~Tells(c)
      BY <2>7 DEF Begins, EditReads, MakesDirs, Looks, RunsShell, Puts, ReadsPrior, Tells
    <3>2. events' = events /\ landed' = landed /\ prior' = prior
      BY <3>1, CallFrame
    <3>3. (Told(q, p)' <=> Told(q, p)) /\ (ToldCreated(q, p)' <=> ToldCreated(q, p))
      BY <3>2 DEF Told, ToldCreated, Reports
    <3>4. fs'[p] = fs[p]
      BY <1>0, <1>2, <3>1, ForeignGrows
    <3>5. /\ at'[c] = "tell" <=> at[c] = "tell"
          /\ at'[c] \in {"dirs", "put"} => at[c] \in {"dirs", "put"}
      <4>1. CASE Begins(c)
        BY <4>1, WorkspaceAssumption DEF Begins, Goes, FirstStep, Op, TypeOK
      <4>2. CASE EditReads(c) \/ MakesDirs(c) \/ Looks(c)
        BY <4>2 DEF EditReads, MakesDirs, Looks, Goes, TypeOK
      <4>3. CASE RunsShell(c) \/ CallFails(c)
        BY <4>3 DEF RunsShell, CallFails, Goes, TypeOK
      <4> QED
        BY <2>7, <4>1, <4>2, <4>3
    <3>6. \A d \in Mine(q, p) : /\ at'[d] = "tell" <=> at[d] = "tell"
                                /\ at'[d] \in {"dirs", "put"} => at[d] \in {"dirs", "put"}
                                /\ prior'[d] = prior[d]
      BY <1>0, <3>2, <3>5 DEF Mine
    <3>7. IsFile(fs', p) <=> IsFile(fs, p)
      BY <3>4 DEF IsFile
    <3> QED
      BY <1>0, <2>3, <3>2, <3>3, <3>4, <3>6, <3>7, PathKeep
  <2> QED
    BY <2>4, <2>5, <2>6, <2>7 DEF CallStep
<1> QED
  BY <1>3, <1>4

\* A run that is over names what its tools have written, and where its stream
\* was broken off, all that had been read.
LEMMA ReportIsExact ==
  ASSUME TypeOK, \A r \in Run : TurnInv(r) /\ ReportInv(r)
  PROVE  ReportExact
<1> DEFINE Exact(r, p) == changed[r][p] =
             IF p \notin landed[r] THEN None
             ELSE [change |-> IF p \in existed[r] THEN "modify" ELSE "create", bytes |-> fs[p]]
<1>1. ASSUME NEW r \in Run, NEW p \in Path, PathInv(r, p), p \notin Unread(r)
      PROVE  Exact(r, p)
  <2>2. \A c \in Mine(r, p) : at[c] # "tell"
    BY <1>1 DEF Unread, Mine
  <2>3. ~Told(r, p) /\ ~ToldCreated(r, p)
    BY <1>1 DEF Told, ToldCreated, Reports, Unread
  <2>4. CASE p \notin landed[r]
    BY <1>1, <2>4 DEF PathInv
  <2>5. CASE p \in landed[r]
    <3>1. changed[r][p] # None /\ changed[r][p].bytes = fs[p]
      BY <1>1, <2>2, <2>3, <2>5 DEF PathInv
    <3>2. changed[r][p].change = IF p \in existed[r] THEN "modify" ELSE "create"
      BY <1>1, <2>2, <2>3, <2>5, <3>1 DEF PathInv
    <3>3. changed[r][p] \in Change
      BY <3>1 DEF TypeOK
    <3>4. changed[r][p] = [change |-> changed[r][p].change, bytes |-> changed[r][p].bytes]
      BY <3>3 DEF Change
    <3> QED
      BY <2>5, <3>1, <3>2, <3>4
  <2> QED
    BY <2>4, <2>5
<1>2. ASSUME NEW r \in Run, NEW p \in Path, PathInv(r, p), p \in Unread(r)
      PROVE  /\ p \in landed[r]
             /\ changed[r][p] # None /\ p \in existed[r] => changed[r][p].change = "modify"
  <2>1. Told(r, p) \/ \E c \in Mine(r, p) : at[c] = "tell"
    <3>1. CASE \E i \in DOMAIN events[r] : events[r][i].path = p
      BY <3>1 DEF Told, Reports
    <3>2. CASE \E c \in Call : Does[c].run = r /\ at[c] = "tell" /\ Does[c].path = p
      BY <3>2 DEF Mine
    <3> QED
      BY <1>2, <3>1, <3>2 DEF Unread
  <2> QED
    BY <1>2, <2>1 DEF PathInv
<1>3. ASSUME NEW r \in Run, pc[r] \in {"done", "cut"} PROVE Begun(r)
  BY <1>3 DEF Begun
<1>4. ASSUME NEW r \in Run, pc[r] = "done" PROVE Unread(r) = {}
  <2>1. ~Busy(r) /\ events[r] = <<>>
    BY <1>3, <1>4 DEF TurnInv
  <2> QED
    BY <2>1 DEF Busy, Unread
<1> HIDE DEF Exact
<1>5. ASSUME NEW r \in Run, pc[r] \in {"done", "cut"}, NEW p \in Path \ foreign[r]
      PROVE  \/ Exact(r, p)
             \/ /\ pc[r] = "cut" /\ p \in Unread(r) \cap landed[r]
                /\ changed[r][p] # None /\ p \in existed[r] => changed[r][p].change = "modify"
  <2>1. PathInv(r, p)
    BY <1>3, <1>5 DEF ReportInv
  <2> QED
    BY <1>1, <1>2, <1>4, <1>5, <2>1
<1> QED
  BY <1>5 DEF ReportExact, Exact

-----------------------------------------------------------------------------
(* The inductive invariant. *)

LEMMA WorkspaceInit ==
  ASSUME Init
  PROVE  WorkspaceInv
<1>1. TypeOK
  <2>1. {} \in Content /\ {} \in SUBSET Path /\ <<>> \in Seq(Event)
    BY DEF Content
  <2>2. InitTree \subseteq Tree /\ InitMirror \subseteq Tree
    BY WorkspaceAssumption DEF Tree, Content
  <2>3. fs \in Tree /\ mirror \in [Ids -> Tree] /\ refs \in [Ids -> Int]
    BY <2>2 DEF Init, Ids
  <2>4. /\ patched \in BOOLEAN /\ mounted \subseteq Run /\ pc \in [Run -> Place]
        /\ turns \in [Run -> Nat] /\ stage \in [Run -> Stage]
        /\ at \in [Call -> At] /\ prior \in [Call -> BOOLEAN]
    BY DEF Init, Place, Stage, At
  <2>5. text \in [Call -> Content] /\ events \in [Run -> Seq(Event)] /\ clean \subseteq Run
    BY <2>1 DEF Init
  <2>6. /\ existed \in [Run -> SUBSET Path] /\ landed \in [Run -> SUBSET Path]
        /\ foreign \in [Run -> SUBSET Path]
        /\ had \in [Path -> SUBSET (Content \cup {None, Dir})]
    BY DEF Init
  <2>7. listed \in [Run -> [files : SUBSET Path, dirs : SUBSET Path, left : SUBSET Path]]
    BY <2>1 DEF Init
  <2>8. changed \in [Run -> [Path -> Change \cup {None}]] /\ restored \in Tree \cup {None}
    BY DEF Init
  <2>9. snap \in [stage : {"none", "reading", "kept", "failed"}, left : SUBSET Path,
                  files : [Path -> Content \cup {None}], whole : BOOLEAN]
    BY <2>1 DEF Init
  <2> QED
    BY <2>3, <2>4, <2>5, <2>6, <2>7, <2>8, <2>9 DEF TypeOK
<1>2. WellFormed(fs)
  BY WorkspaceAssumption DEF Init, WellFormed
<1>3. SnapInv
  BY DEF Init, SnapInv
<1>4. MountInv
  <2>1. \A i \in Ids : {r \in mounted : IdOf[r] = i} = {} /\ refs[i] = 0
    BY DEF Init, Ids
  <2>2. \A i \in Ids : refs[i] = Cardinality({r \in mounted : IdOf[r] = i}) /\ ~(refs[i] > 0)
    BY <2>1, FS_EmptySet
  <2> QED
    BY <2>2 DEF Init, MountInv
<1>5. \A r \in Run : PlaceInv(r) /\ SyncInv(r) /\ TurnInv(r) /\ ReportInv(r)
  BY DEF Init, PlaceInv, SyncInv, TurnInv, Unbegun, ReportInv, Begun
<1> QED
  BY <1>1, <1>2, <1>3, <1>4, <1>5 DEF WorkspaceInv

LEMMA WorkspaceStep ==
  ASSUME WorkspaceInv, [Next]_vars
  PROVE  WorkspaceInv'
<1> USE DEF WorkspaceInv
<1>1. ASSUME NEW r \in Run, RunStep(r) PROVE WorkspaceInv'
  <2>1. TypeOK' /\ WellFormed(fs)'
    BY <1>1, RunTypes
  <2>2. SnapInv'
    <3>1. (UNCHANGED <<fs, had>> \/ Moves(None)) /\ UNCHANGED <<snap, restored>>
      BY <1>1, RunTree
    <3> QED
      BY <3>1, SnapMoves
  <2>3. MountInv'
    BY <1>1, <2>1, MountSteps
  <2>4. \A q \in Run : PlaceInv(q)'
    BY <1>1, PlaceSteps
  <2>5. \A q \in Run : SyncInv(q)'
    BY <1>1, <2>1, SyncSteps
  <2>6. \A q \in Run : TurnInv(q)'
    BY <1>1, <2>1, TurnSteps
  <2>7. \A q \in Run : ReportInv(q)'
    BY <1>1, <2>1, ReportSteps
  <2> QED
    BY <2>1, <2>2, <2>3, <2>4, <2>5, <2>6, <2>7
<1>2. ASSUME NEW c \in Call, CallStep(c) PROVE WorkspaceInv'
  <2>0. /\ Does[c].run \in Run /\ UNCHANGED <<host, pc, turns, syncs, changed, existed, handle>>
        /\ UNCHANGED sandbox \/ Moves(None) \/ Moves(Does[c].run)
    BY <1>2, CallFrame, CallTree, WorkspaceAssumption
  <2>1. TypeOK' /\ WellFormed(fs)'
    BY <1>2, CallTypes
  <2>2. SnapInv'
    <3>1. CASE UNCHANGED sandbox
      BY <2>0, <3>1, SnapMoves
    <3>2. CASE Moves(None)
      BY <2>0, <3>2, SnapMoves
    <3>3. CASE Moves(Does[c].run)
      BY <2>0, <3>3, SnapMoves
    <3> QED
      BY <2>0, <3>1, <3>2, <3>3
  <2>3. MountInv' /\ \A q \in Run : PlaceInv(q)'
    BY <2>0 DEF MountInv, PlaceInv
  <2>4. \A q \in Run : SyncInv(q)'
    <3>1. CASE UNCHANGED sandbox \/ Moves(None)
      BY <2>0, <2>1, <3>1, SyncMoves
    <3>2. CASE Moves(Does[c].run)
      BY <2>0, <2>1, <3>2, SyncMoves
    <3> QED
      BY <2>0, <3>1, <3>2
  <2>5. \A q \in Run : TurnInv(q)'
    BY <1>2, TurnCalls
  <2>6. \A q \in Run : ReportInv(q)'
    BY <1>2, <2>0, <2>1, ReportCalls
  <2> QED
    BY <2>1, <2>2, <2>3, <2>4, <2>5, <2>6
<1>3. ASSUME AppStep PROVE WorkspaceInv'
  <2>0. UNCHANGED <<host, pc, turns, syncs, tools, report>>
    BY <1>3 DEF AppStep, AppChanges, SnapLists, SnapReads, Restores
  <2>1. TypeOK' /\ WellFormed(fs)'
    BY <1>3, AppTypes
  <2>2. \/ UNCHANGED <<sandbox, snap, restored>>
        \/ Moves(None) /\ UNCHANGED <<snap, restored>>
        \/ SnapLists \/ SnapReads \/ Restores
    BY <1>3, AppTree
  <2>3. SnapInv'
    BY <2>2, SnapMoves, SnapListsStep, SnapReadsStep, RestoresStep
  <2>4. MountInv' /\ \A q \in Run : PlaceInv(q)'
    BY <2>0 DEF MountInv, PlaceInv
  <2>5. UNCHANGED <<fs, clean, foreign>> \/ Moves(None)
    BY <2>2 DEF SnapLists, SnapReads, Restores
  <2>6. ASSUME NEW q \in Run PROVE SyncInv(q)'
    <3>1. CASE Moves(None)
      BY <2>0, <2>1, <3>1, SyncMoves
    <3>2. CASE UNCHANGED <<fs, clean>>
      <4>1. Mirror(q)' = Mirror(q) /\ Config(fs)' = Config(fs)
        BY <2>0, <3>2 DEF Mirror, Config, ConfigFiles, ConfigDirs, Files, IsFile
      <4>2. q \in clean => SyncInv(q)'
        BY <2>0, <2>1, <4>1, SyncQuiet
      <4> QED
        BY <3>2, <4>2 DEF SyncInv
    <3> QED
      BY <2>5, <3>1, <3>2
  <2>7. ASSUME NEW q \in Run PROVE TurnInv(q)'
    <3>1. (Unbegun(q)' <=> Unbegun(q)) /\ (Begun(q)' <=> Begun(q)) /\ (Busy(q)' <=> Busy(q))
      BY <2>0 DEF Unbegun, Begun, Busy
    <3> QED
      BY <2>0, <3>1 DEF TurnInv
  <2>8. ASSUME NEW q \in Run PROVE ReportInv(q)'
    <3>1. foreign[q] \subseteq foreign'[q] /\ \A p \in Path \ foreign'[q] : fs'[p] = fs[p]
      <4>1. CASE Moves(None)
        BY <4>1, ForeignGrows, WorkspaceAssumption
      <4>2. CASE UNCHANGED <<fs, foreign>>
        BY <4>2
      <4> QED
        BY <2>5, <4>1, <4>2
    <3>2. Begun(q)' => Begun(q)
      BY <2>0 DEF Begun
    <3> QED
      BY <2>0, <3>1, <3>2, ReportQuiet
  <2> QED
    BY <2>1, <2>3, <2>4, <2>6, <2>7, <2>8
<1>4. CASE UNCHANGED vars
  <2>0. UNCHANGED <<sandbox, host, pc, turns, syncs, tools, report, handle>>
    BY <1>4 DEF vars
  <2>1. TypeOK' /\ WellFormed(fs)'
    BY <2>0 DEF TypeOK, WellFormed
  <2>2. SnapInv' /\ MountInv' /\ \A q \in Run : PlaceInv(q)'
    BY <2>0 DEF SnapInv, MountInv, PlaceInv, IsFile
  <2>3. \A q \in Run : SyncInv(q)'
    BY <2>0, <2>1, SyncMoves
  <2>4. ASSUME NEW q \in Run PROVE TurnInv(q)' /\ ReportInv(q)'
    <3>1. (Unbegun(q)' <=> Unbegun(q)) /\ (Begun(q)' <=> Begun(q)) /\ (Busy(q)' <=> Busy(q))
      BY <2>0 DEF Unbegun, Begun, Busy
    <3>2. TurnInv(q)'
      BY <2>0, <3>1 DEF TurnInv
    <3>3. ReportInv(q)'
      BY <2>0, <3>1, ReportQuiet
    <3> QED
      BY <3>2, <3>3
  <2> QED
    BY <2>1, <2>2, <2>3, <2>4
<1>5. Next => \/ \E r \in Run : RunStep(r)
              \/ \E c \in Call : CallStep(c)
              \/ AppStep
  BY DEF Next, RunStep, CallStep, AppStep
<1> HIDE DEF WorkspaceInv
<1> QED
  BY <1>1, <1>2, <1>3, <1>4, <1>5

LEMMA WorkspaceInvariant == Spec => []WorkspaceInv
<1>1. Init => WorkspaceInv
  BY WorkspaceInit
<1>2. WorkspaceInv /\ [Next]_vars => WorkspaceInv'
  BY WorkspaceStep
<1> QED
  BY <1>1, <1>2, PTL DEF Spec

-----------------------------------------------------------------------------
(* What the project promises. *)

\* Whatever runs of the id prune, make and copy in the mirror, and however they
\* are set up and torn down, Pi finds in an undisturbed run's turn exactly the
\* configuration that is in the sandbox (pi-workspace-mirror.ts).
THEOREM MirrorMatches == Spec => []MirrorExact
<1>1. WorkspaceInv => MirrorExact
  BY MirrorIsExact DEF WorkspaceInv
<1> QED
  BY <1>1, WorkspaceInvariant, PTL

\* However tool calls, reports and reads interleave, a run that returns names
\* each file its tools have written, as created or modified and with its bytes,
\* and no other path that only it could have changed (recordFileChange); if its
\* stream was broken off, the same of each file whose reports were all read.
THEOREM ResultIsExact == Spec => []ReportExact
<1>1. WorkspaceInv => ReportExact
  BY ReportIsExact DEF WorkspaceInv
<1> QED
  BY <1>1, WorkspaceInvariant, PTL

\* A snapshot has at each path bytes that were there while it was taken, lacks an
\* ordinary file of a whole listing only if it was gone for a moment, and what is
\* restored from it has just its files (sandbox-handle.ts).
THEOREM SnapshotIsExact == Spec => []SnapshotExact
<1>1. WorkspaceInv => SnapshotExact
  <2> SUFFICES ASSUME WorkspaceInv, Taken PROVE SnapshotExact
    BY DEF SnapshotExact
  <2>1. snap.stage \in {"reading", "kept"} /\ snap.left = {} /\ SnapInv
    BY DEF WorkspaceInv, Taken
  <2> QED
    BY <2>1 DEF SnapshotExact, SnapInv
<1> QED
  BY <1>1, WorkspaceInvariant, PTL
================================================================================
