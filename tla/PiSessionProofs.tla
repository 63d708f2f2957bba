--------------------------- MODULE PiSessionProofs ---------------------------
(***************************************************************************)
(* Proofs about PiSession, for any number of runs, turns and parked        *)
(* sessions: every session is in one pair of hands and what sessions hold   *)
(* is counted, and a run's requests are admitted by its own gate.           *)
(***************************************************************************)
EXTENDS PiSession, TLAPS, FiniteSetTheorems, SequenceTheorems

-----------------------------------------------------------------------------
(* Types. *)

Place == {"idle", "starting", "displacing", "driving", "preparing", "aborting", "persisting",
          "stopping", "leaving", "done"}
Phase == {"none", "dirs", "load", "live", "persist", "shutdown", "removing", "closed"}
File == Run \cup {None}

TypeOK ==
  /\ pc \in [Run -> Place]
  /\ obj \in [Run -> Run \cup {None}]
  /\ resume \subseteq Run
  /\ phase \in [Run -> Phase]
  /\ want \in [Run -> File]
  /\ pulled \subseteq Run
  /\ file \in [Run -> File]
  /\ DOMAIN built = Run
  /\ gate \in [Run -> Run \cup {None}]
  /\ turns \in [Run -> SUBSET Run]
  /\ active \in [Run -> Run \cup {None}]
  /\ DOMAIN pending = Run
  /\ parked \in Seq(Run \X Run)
  /\ mounted \subseteq Run
  /\ saved \subseteq Run

-----------------------------------------------------------------------------
(* The inductive invariant. *)

Over == {"persist", "shutdown", "removing", "closed"}

\* Where a run stands shows in the session it has to do with.
PlaceInv(r) ==
  /\ pc[r] \in {"idle", "displacing"} => phase[r] = "none"
  /\ pc[r] = "starting" <=> phase[r] \in {"dirs", "load"}
  /\ pc[r] = "starting" => obj[r] = r /\ gate[r] = (IF r \in Gated THEN r ELSE None)
  /\ pc[r] # "idle" => obj[r] \in Run
  /\ pc[r] = "displacing" => phase[obj[r]] \in Over /\ want[r] \in Run
  /\ Drives(r) => phase[obj[r]] = "live" /\ gate[obj[r]] = (IF r \in Gated THEN r ELSE None)
  /\ pc[r] \in {"stopping", "leaving"} => phase[obj[r]] \in Over
  /\ pc[r] = "persisting" => file[obj[r]] # None

\* A session has a journal file once a turn has started.
FileInv(s) ==
  /\ phase[s] \in {"none", "dirs", "load"} => file[s] = None
  /\ built[s] # None \/ turns[s] # {} \/ active[s] # None \/ pending[s] # {} => file[s] # None
  /\ s \in pulled => want[s] \in Run /\ phase[s] \notin {"none", "dirs"}

Parked(s) == \E i \in DOMAIN parked : parked[i][2] = s

\* A live session is driven by one run or is parked, under its journal file.
DriverInv ==
  /\ \A r, q \in Run : Drives(r) /\ Drives(q) /\ obj[r] = obj[q] => r = q
  /\ \A s \in Run : phase[s] = "live" => Parked(s) \/ \E r \in Run : Drives(r) /\ obj[r] = s
  /\ \A r \in Run : Drives(r) => ~Parked(obj[r])

ParkedInv ==
  /\ Len(parked) <= MaxParked
  /\ \A i, j \in DOMAIN parked : parked[i][1] = parked[j][1] => i = j
  /\ \A i \in DOMAIN parked : phase[parked[i][2]] = "live" /\ file[parked[i][2]] = parked[i][1]

\* The journal files that a session works with, and that a run hands back.
Claims(s) ==
  IF phase[s] \in {"dirs", "load", "live"} \/ pc[s] = "displacing"
    THEN {want[s], file[s]} \ {None} ELSE {}

Returns(r) == IF pc[r] \in {"persisting", "stopping"} THEN {file[obj[r]]} \ {None} ELSE {}

\* Every journal file is in one pair of hands: of a session, of a run that hands
\* it back, of the application; a parked session's file may be in two.
FilesInv ==
  /\ \A s, q \in Run : s # q => Claims(s) \cap Claims(q) = {}
  /\ \A r, q \in Run : r # q => Returns(r) \cap Returns(q) = {}
  /\ \A r \in Run : Returns(r) \cap resume = {}
  /\ \A s \in Run : \A f \in Claims(s) \cap resume : Parked(s) /\ file[s] = f
  /\ \A s, r \in Run : Claims(s) \cap Returns(r) # {} =>
       s = obj[r] /\ Parked(s) /\ pc[r] = "persisting"
  /\ \A r \in Run : pc[r] \in {"idle", "displacing", "starting", "driving", "preparing", "aborting"} =>
       /\ r \notin resume
       /\ \A q \in Run : r \notin Returns(q)
       /\ \A s \in Run : r \in Claims(s) => Drives(r) /\ s = obj[r]

\* What sessions hold is counted.
CountInv ==
  /\ leases = Cardinality({s \in Run : Holding(s)})
  /\ mounts = Cardinality(mounted)
  /\ \A s \in Run : s \in mounted <=> phase[s] \in {"load", "live", "persist", "shutdown"}
  /\ tree => \E s \in Run : Holding(s) \/ phase[s] = "removing"

SessionInv ==
  /\ TypeOK
  /\ \A r \in Run : PlaceInv(r) /\ FileInv(r)
  /\ DriverInv /\ ParkedInv /\ FilesInv /\ CountInv

-----------------------------------------------------------------------------
USE DEF driver, identity, engine, shared

StepOf(r) ==
  \/ Advance(r) \/ SetupFails(r) \/ StartFails(r)
  \/ \E f \in Run \cup {None} : StartCold(r, f)
  \/ \E i \in DOMAIN parked : TakeParked(r, i) \/ Displace(r, i)
  \/ Prompt(r) \/ Continue(r)
  \/ \E t \in Run : TurnEnds(r, t)
  \/ \E t \in Run, kind \in {"result", "approval"} : Calls(r, t, kind)
  \/ \E t \in Run, kind \in {"result", "approval"} : Answers(r, <<t, kind>>)
  \/ Parks(r) \/ Stops(r) \/ Destroys(r) \/ Suspends(r)

\* Steps of a turn change only what the turn is about.
Quiet == UNCHANGED <<driver, phase, identity, file, built, gate, shared, saved>>

\* The sessions of Q are stopped.
StoppedFrom(Q, next) == phase' = [s \in Run |-> IF s \in Q THEN next ELSE phase[s]]

-----------------------------------------------------------------------------
(* The map of parked sessions. *)

Distinct(p) == \A i, j \in DOMAIN p : p[i][1] = p[j][1] => i = j

\* An entry is removed, and the others stay.
LEMMA UnparkedEffect ==
  ASSUME parked \in Seq(Run \X Run), Distinct(parked), NEW i \in DOMAIN parked
  PROVE  LET p == Unparked(parked[i][1]) IN
         /\ p \in Seq(Run \X Run) /\ Len(p) <= Len(parked) /\ Distinct(p)
         /\ \A j \in DOMAIN p : \E k \in DOMAIN parked : k # i /\ p[j] = parked[k]
         /\ \A k \in DOMAIN parked : k # i => \E j \in DOMAIN p : p[j] = parked[k]
<1> DEFINE key == parked[i][1]
           n == Len(parked)
           p == Unparked(key)
<1>1. (CHOOSE k \in DOMAIN parked : parked[k][1] = key) = i
  <2>1. \E k \in DOMAIN parked : parked[k][1] = key
    OBVIOUS
  <2>2. \A k \in DOMAIN parked : parked[k][1] = key => k = i
    BY DEF Distinct
  <2> HIDE DEF key
  <2> QED
    BY <2>1, <2>2
<1>2. p = SubSeq(parked, 1, i - 1) \o SubSeq(parked, i + 1, n)
  BY <1>1 DEF Unparked
<1>3. n \in Nat /\ i \in 1..n /\ DOMAIN parked = 1..n
  OBVIOUS
<1> DEFINE A == SubSeq(parked, 1, i - 1)
           B == SubSeq(parked, i + 1, n)
<1>4. /\ A \in Seq(Run \X Run) /\ Len(A) = i - 1 /\ \A j \in 1..(i - 1) : A[j] = parked[j]
      /\ B \in Seq(Run \X Run) /\ Len(B) = n - i /\ \A j \in 1..(n - i) : B[j] = parked[i + j]
  <2>1. (\A j \in 1..(i - 1) : parked[j] \in Run \X Run) /\ i - 1 \in Int
    BY <1>3
  <2>2. (\A j \in (i + 1)..n : parked[j] \in Run \X Run) /\ i + 1 \in Int /\ n \in Int
    BY <1>3
  <2> HIDE DEF n
  <2>3. /\ A \in Seq(Run \X Run) /\ Len(A) = IF 1 <= i - 1 THEN i - 1 - 1 + 1 ELSE 0
        /\ \A j \in 1..(i - 1 - 1 + 1) : A[j] = parked[1 + j - 1]
    BY <2>1, SubSeqProperties
  <2>4. /\ B \in Seq(Run \X Run) /\ Len(B) = IF i + 1 <= n THEN n - (i + 1) + 1 ELSE 0
        /\ \A j \in 1..(n - (i + 1) + 1) : B[j] = parked[i + 1 + j - 1]
    BY <2>2, SubSeqProperties
  <2> HIDE DEF A, B
  <2>5. Len(A) = i - 1 /\ \A j \in 1..(i - 1) : A[j] = parked[j]
    BY <1>3, <2>3
  <2>6. Len(B) = n - i /\ \A j \in 1..(n - i) : B[j] = parked[i + j]
    <3>1. Len(B) = n - i /\ n - (i + 1) + 1 = n - i
      BY <1>3, <2>4
    <3>2. \A j \in 1..(n - i) : i + 1 + j - 1 = i + j
      BY <1>3
    <3> QED
      BY <2>4, <3>1, <3>2
  <2> QED
    BY <2>3, <2>4, <2>5, <2>6
<1>p. p = A \o B
  BY <1>2
<1>5. /\ p \in Seq(Run \X Run) /\ Len(p) = n - 1 /\ DOMAIN p = 1..(n - 1)
      /\ \A j \in 1..(n - 1) : p[j] = IF j < i THEN parked[j] ELSE parked[j + 1]
  <2> HIDE DEF p, n, A, B
  <2>1. /\ A \o B \in Seq(Run \X Run) /\ Len(A \o B) = Len(A) + Len(B)
        /\ \A j \in 1..(Len(A) + Len(B)) : (A \o B)[j] = IF j <= Len(A) THEN A[j] ELSE B[j - Len(A)]
    BY <1>4, ConcatProperties
  <2>2. Len(p) = n - 1 /\ p \in Seq(Run \X Run)
    BY <1>p, <1>3, <1>4, <2>1
  <2>3. ASSUME NEW j \in 1..(n - 1) PROVE p[j] = IF j < i THEN parked[j] ELSE parked[j + 1]
    <3>1. j \in 1..(Len(A) + Len(B))
      BY <1>3, <1>4
    <3>2. CASE j < i
      <4>1. j <= Len(A) /\ j \in 1..(i - 1)
        BY <1>3, <1>4, <3>2
      <4> QED
        BY <1>p, <1>4, <2>1, <3>1, <3>2, <4>1
    <3>3. CASE ~(j < i)
      <4>1. ~(j <= Len(A)) /\ j - Len(A) \in 1..(n - i) /\ i + (j - Len(A)) = j + 1
        BY <1>3, <1>4, <3>3
      <4>2. p[j] = B[j - Len(A)]
        BY <1>p, <2>1, <3>1, <4>1
      <4>3. B[j - Len(A)] = parked[i + (j - Len(A))]
        BY <1>4, <4>1
      <4> QED
        BY <3>3, <4>1, <4>2, <4>3
    <3> QED
      BY <3>2, <3>3
  <2> QED
    BY <2>2, <2>3, <1>3
<1> HIDE DEF p, n
<1>6. \A j \in 1..(n - 1) : \E k \in 1..n :
        k # i /\ p[j] = parked[k] /\ (k = IF j < i THEN j ELSE j + 1)
  <2> TAKE j \in 1..(n - 1)
  <2>1. CASE j < i
    BY <1>3, <1>5, <2>1
  <2>2. CASE ~(j < i)
    BY <1>3, <1>5, <2>2
  <2> QED
    BY <2>1, <2>2
<1>7. \A k \in 1..n : k # i => \E j \in 1..(n - 1) : p[j] = parked[k]
  <2> TAKE k \in 1..n
  <2>1. CASE k < i
    <3>1. k \in 1..(n - 1)
      BY <1>3, <2>1
    <3> QED
      BY <1>5, <2>1, <3>1
  <2>2. CASE k > i
    <3>1. k - 1 \in 1..(n - 1) /\ ~(k - 1 < i) /\ (k - 1) + 1 = k
      BY <1>3, <2>2
    <3> QED
      BY <1>5, <3>1
  <2> QED
    BY <1>3, <2>1, <2>2
<1>8. Distinct(p)
  <2> SUFFICES ASSUME NEW j1 \in 1..(n - 1), NEW j2 \in 1..(n - 1), p[j1][1] = p[j2][1]
               PROVE  j1 = j2
    BY <1>5 DEF Distinct
  <2> DEFINE k1 == IF j1 < i THEN j1 ELSE j1 + 1
             k2 == IF j2 < i THEN j2 ELSE j2 + 1
  <2>1. k1 \in 1..n /\ k2 \in 1..n /\ p[j1] = parked[k1] /\ p[j2] = parked[k2]
    BY <1>6
  <2>2. k1 = k2
    BY <1>3, <2>1 DEF Distinct
  <2> QED
    BY <1>3, <2>2
<1>9. Len(p) <= n
  BY <1>3, <1>5
<1> QED
  BY <1>3, <1>5, <1>6, <1>7, <1>8, <1>9 DEF p, n

\* A session is put last, and the oldest one may have to go.
LEMMA ParkEffect ==
  ASSUME TypeOK, ParkedInv, SessionAssumption, NEW s \in Run, file[s] # None, Park(s),
         \A i \in DOMAIN parked : parked[i][1] # file[s]
  PROVE  \E Q \in SUBSET Run :
         /\ StoppedFrom(Q, "shutdown") /\ pending' = [q \in Run |-> IF q \in Q THEN {} ELSE pending[q]]
         /\ parked' \in Seq(Run \X Run) /\ Len(parked') <= MaxParked /\ Distinct(parked')
         /\ \A j \in DOMAIN parked' :
              /\ parked'[j] = <<file[s], s>> \/ \E i \in DOMAIN parked : parked'[j] = parked[i]
              /\ parked'[j][2] \notin Q
         /\ s \in Q \/ Parked(s)'
         /\ \A q \in Run : Parked(q) => q \in Q \/ Parked(q)'
         /\ \A q \in Q : q = s \/ Parked(q)
<1> DEFINE n == Len(parked)
           all == Append(parked, <<file[s], s>>)
           over == IF Len(all) > MaxParked THEN Len(all) - MaxParked ELSE 0
           Q == {all[i][2] : i \in 1..over}
<1>1. Unparked(file[s]) = parked
  BY DEF Unparked
<1>2. parked' = SubSeq(all, over + 1, Len(all)) /\ Stopped(Q, "shutdown")
  BY <1>1 DEF Park
<1>3. /\ parked \in Seq(Run \X Run) /\ n \in Nat /\ n <= MaxParked /\ MaxParked \in Nat
      /\ DOMAIN parked = 1..n /\ file[s] \in Run
  BY DEF TypeOK, ParkedInv, SessionAssumption, File
<1>4. /\ all \in Seq(Run \X Run) /\ Len(all) = n + 1
      /\ all[n + 1] = <<file[s], s>> /\ \A i \in 1..n : all[i] = parked[i]
  BY <1>3
<1> HIDE DEF all, n
<1>5. over \in 0..(n + 1) /\ (n + 1) - over <= MaxParked
  BY <1>3, <1>4
<1> HIDE DEF over
<1>6. /\ parked' \in Seq(Run \X Run) /\ Len(parked') = (n + 1) - over
      /\ DOMAIN parked' = 1..((n + 1) - over)
      /\ \A j \in 1..((n + 1) - over) : parked'[j] = all[over + j] /\ over + j \in 1..(n + 1)
  BY <1>2, <1>3, <1>4, <1>5
<1>7. \A i \in 1..(n + 1) : i = n + 1 \/ i \in 1..n
  BY <1>3
<1>8. \A i, j \in 1..(n + 1) : all[i][1] = all[j][1] => i = j
  <2>1. \A i \in 1..n : all[i][1] # file[s]
    BY <1>3, <1>4
  <2>2. \A i, j \in 1..n : all[i][1] = all[j][1] => i = j
    BY <1>3, <1>4 DEF ParkedInv
  <2>3. all[n + 1][1] = file[s]
    BY <1>4
  <2> QED
    BY <1>7, <2>1, <2>2, <2>3
<1>9. \A i \in 1..(n + 1) : all[i] \in Run \X Run /\ all[i][1] = file[all[i][2]]
  <2>1. \A i \in 1..n : all[i][1] = file[all[i][2]]
    BY <1>3, <1>4 DEF ParkedInv
  <2>2. all[n + 1][1] = file[all[n + 1][2]]
    BY <1>4
  <2>3. \A i \in 1..(n + 1) : all[i] \in Run \X Run
    BY <1>3, <1>4
  <2> QED
    BY <1>7, <2>1, <2>2, <2>3
<1>o. 1..over \subseteq 1..(n + 1)
  BY <1>3, <1>5
<1>10. Q \in SUBSET Run
  BY <1>o, <1>9
<1>11. \A q \in Q : q = s \/ Parked(q)
  <2> SUFFICES ASSUME NEW i \in 1..over PROVE all[i][2] = s \/ Parked(all[i][2])
    OBVIOUS
  <2>1. i = n + 1 \/ (i \in DOMAIN parked /\ all[i] = parked[i])
    BY <1>o, <1>3, <1>4, <1>7
  <2> QED
    BY <1>4, <2>1 DEF Parked
<1>12. \A i \in 1..(n + 1) : all[i][2] \in Q \/ \E j \in DOMAIN parked' : parked'[j] = all[i]
  <2> TAKE i \in 1..(n + 1)
  <2>1. CASE i \in 1..over
    BY <2>1
  <2>2. CASE i \notin 1..over
    <3>1. i - over \in 1..((n + 1) - over) /\ over + (i - over) = i
      BY <1>3, <1>5, <2>2
    <3> QED
      BY <1>6, <3>1
  <2> QED
    BY <2>1, <2>2
<1>13. \A j \in DOMAIN parked' : parked'[j][2] \notin Q
  <2> SUFFICES ASSUME NEW j \in DOMAIN parked', NEW i \in 1..over, parked'[j][2] = all[i][2]
               PROVE  FALSE
    OBVIOUS
  <2>1. over + j \in 1..(n + 1) /\ i \in 1..(n + 1) /\ over + j # i /\ parked'[j] = all[over + j]
    BY <1>3, <1>5, <1>6
  <2> QED
    BY <1>8, <1>9, <2>1
<1>14. Distinct(parked')
  <2> SUFFICES ASSUME NEW j1 \in DOMAIN parked', NEW j2 \in DOMAIN parked', parked'[j1][1] = parked'[j2][1]
               PROVE  j1 = j2
    BY DEF Distinct
  <2>1. over + j1 = over + j2
    BY <1>6, <1>8
  <2> QED
    BY <1>5, <1>6, <2>1
<1>15. 1 <= n + 1 /\ n + 1 \in 1..(n + 1) /\ \A i \in 1..n : i \in 1..(n + 1)
  BY <1>3
<1>16. s \in Q \/ Parked(s)'
  <2>1. all[n + 1][2] = s
    BY <1>4
  <2> QED
    BY <1>12, <1>15, <2>1 DEF Parked
<1>17. \A q \in Run : Parked(q) => q \in Q \/ Parked(q)'
  <2> SUFFICES ASSUME NEW i \in 1..n PROVE parked[i][2] \in Q \/ \E j \in DOMAIN parked' : parked'[j][2] = parked[i][2]
    BY <1>3 DEF Parked
  <2>1. all[i] = parked[i] /\ i \in 1..(n + 1)
    BY <1>4, <1>15
  <2> HIDE DEF Q
  <2> QED
    BY <1>12, <2>1
<1>18. /\ StoppedFrom(Q, "shutdown") /\ pending' = [q \in Run |-> IF q \in Q THEN {} ELSE pending[q]]
  BY <1>2 DEF Stopped, StoppedFrom
<1>19. \A j \in DOMAIN parked' :
         parked'[j] = <<file[s], s>> \/ \E i \in DOMAIN parked : parked'[j] = parked[i]
  BY <1>3, <1>4, <1>6, <1>7
<1> QED
  BY <1>5, <1>6, <1>10, <1>11, <1>13, <1>14, <1>16, <1>17, <1>18, <1>19

-----------------------------------------------------------------------------
(* Types, and where runs stand. *)

\* What steps of a turn leave alone.
LEMMA QuietSteps ==
  ASSUME TypeOK, NEW r \in Run,
         \/ Continue(r) \/ \E t \in Run : TurnEnds(r, t)
         \/ \E t \in Run, kind \in {"result", "approval"} : Calls(r, t, kind)
         \/ \E t \in Run, kind \in {"result", "approval"} : Answers(r, <<t, kind>>)
  PROVE  /\ Quiet
         /\ turns' \in [Run -> SUBSET Run] /\ active' \in [Run -> Run \cup {None}]
         /\ DOMAIN pending' = Run
         /\ \A s \in Run : turns'[s] # {} \/ active'[s] # None \/ pending'[s] # {} =>
              turns[s] # {} \/ active[s] # None \/ pending[s] # {}
<1>1. CASE Continue(r)
  BY <1>1 DEF Continue, Quiet, TypeOK
<1>2. ASSUME NEW t \in Run, TurnEnds(r, t) PROVE Quiet /\ UNCHANGED pending
                 /\ turns' \in [Run -> SUBSET Run] /\ active' \in [Run -> Run \cup {None}]
                 /\ \A s \in Run : /\ turns'[s] # {} => turns[s] # {}
                                   /\ active'[s] # None => active[s] # None
  BY <1>2 DEF TurnEnds, Quiet, TypeOK
<1>3. ASSUME NEW t \in Run, NEW kind, Calls(r, t, kind)
      PROVE  Quiet /\ UNCHANGED <<turns, active>> /\ turns[r] # {} /\ DOMAIN pending' = Run
             /\ \A s \in Run \ {r} : pending'[s] = pending[s]
  BY <1>3 DEF Calls, Quiet, TypeOK
<1>4. ASSUME NEW c, Answers(r, c)
      PROVE  Quiet /\ UNCHANGED <<turns, active>> /\ DOMAIN pending' = Run
             /\ \A s \in Run : pending'[s] # {} => pending[s] # {}
  BY <1>4 DEF Answers, Quiet, TypeOK
<1> QED
  BY <1>1, <1>2, <1>3, <1>4 DEF TypeOK

LEMMA TypeStep ==
  ASSUME TypeOK, ParkedInv, SessionAssumption, NEW r \in Run, StepOf(r),
         \A q \in Run : PlaceInv(q) /\ FileInv(q),
         Drives(r) => \A i \in DOMAIN parked : parked[i][1] # file[obj[r]]
  PROVE  TypeOK'
<1> USE DEF Place, Phase, File
<1>0. /\ None \notin Run /\ (pc[r] # "idle" => obj[r] \in Run)
      /\ \A i \in DOMAIN parked : parked[i] \in Run \X Run
  BY DEF SessionAssumption, PlaceInv, TypeOK
<1>1. CASE \/ Continue(r) \/ \E t \in Run : TurnEnds(r, t)
           \/ \E t \in Run, kind \in {"result", "approval"} : Calls(r, t, kind)
           \/ \E t \in Run, kind \in {"result", "approval"} : Answers(r, <<t, kind>>)
  BY <1>1, QuietSteps DEF Quiet, TypeOK
<1>2. ASSUME NEW f \in Run \cup {None}, StartCold(r, f) PROVE TypeOK'
  BY <1>2 DEF StartCold, Acquire, TypeOK
<1>3. ASSUME NEW i \in DOMAIN parked, TakeParked(r, i) PROVE TypeOK'
  <2>1. parked' \in Seq(Run \X Run)
    BY <1>3, UnparkedEffect DEF TakeParked, TypeOK, ParkedInv, Distinct
  <2> QED
    BY <1>0, <1>3, <2>1 DEF TakeParked, TypeOK
<1>4. ASSUME NEW i \in DOMAIN parked, Displace(r, i) PROVE TypeOK'
  <2>1. parked' \in Seq(Run \X Run)
    BY <1>4, UnparkedEffect DEF Displace, TypeOK, ParkedInv, Distinct
  <2> QED
    BY <1>0, <1>4, <2>1 DEF Displace, Stopped, TypeOK
<1>5. CASE Displaced(r)
  BY <1>5 DEF Displaced, Acquire, TypeOK
<1>6. CASE Mount(r) \/ Loaded(r) \/ SetupFails(r)
  BY <1>6 DEF Mount, Loaded, SetupFails, Release, TypeOK
<1>7. CASE Prompt(r) \/ Suspends(r)
  BY <1>7 DEF Prompt, Suspends, TypeOK
<1>8. CASE Starts(r)
  BY <1>0, <1>8 DEF Starts, TypeOK
<1>9. CASE StartFails(r)
  BY <1>9 DEF StartFails, TypeOK
<1>10. CASE Parks(r)
  <2> DEFINE s == obj[r]
  <2>1. /\ pc[r] = "driving" /\ (active[s] # None \/ pending[s] # {}) /\ Park(s)
        /\ pc' = [pc EXCEPT ![r] = "persisting"]
        /\ UNCHANGED <<obj, started, resume, identity, file, built, gate, turns, active, emit,
                       calls, late, leases, tree, mounts, mounted, saved>>
    BY <1>10 DEF Parks, Live, Waits
  <2>2. s \in Run /\ file[s] # None /\ Drives(r)
    BY <1>0, <2>1 DEF FileInv, Drives
  <2>3. PICK Q \in SUBSET Run : /\ StoppedFrom(Q, "shutdown") /\ parked' \in Seq(Run \X Run)
                                /\ pending' = [q \in Run |-> IF q \in Q THEN {} ELSE pending[q]]
    BY <2>1, <2>2, ParkEffect
  <2> QED
    BY <2>1, <2>3 DEF StoppedFrom, TypeOK
<1>11. CASE ParkPersisted(r)
  BY <1>0, <1>11 DEF ParkPersisted, TypeOK
<1>12. CASE Stops(r) \/ Destroys(r) \/ Suspended(r)
  <2>1. Drives(r) /\ parked' = Unparked(file[obj[r]])
    BY <1>12 DEF Stops, Destroys, Suspended, Drives
  <2>2. parked' = parked
    <3>1. ~\E i \in DOMAIN parked : parked[i][1] = file[obj[r]]
      BY <2>1
    <3> QED
      BY <2>1, <3>1 DEF Unparked
  <2>3. CASE Stops(r)
    BY <1>0, <2>2, <2>3 DEF Stops, Stopped, TypeOK
  <2>4. CASE Destroys(r)
    BY <1>0, <2>2, <2>4 DEF Destroys, Stopped, TypeOK
  <2>5. CASE Suspended(r)
    <3>1. obj[r] \in Run
      BY <1>0, <2>5 DEF Suspended
    <3>2. saved' \subseteq Run
      BY <3>1, <2>5 DEF Suspended, TypeOK
    <3> QED
      BY <2>2, <2>5, <3>2 DEF Suspended, Stopped, TypeOK
  <2> QED
    BY <1>12, <2>3, <2>4, <2>5
<1>13. CASE Persisted(r)
  BY <1>0, <1>13 DEF Persisted, TypeOK
<1>15. CASE ShutDown(r)
  BY <1>15 DEF ShutDown, Release, TypeOK
<1>16. CASE RootRemoved(r)
  BY <1>16 DEF RootRemoved, TypeOK
<1>14. CASE Leaves(r)
  BY <1>0, <1>14 DEF Leaves, TypeOK
<1> QED
  BY <1>1, <1>2, <1>3, <1>4, <1>5, <1>6, <1>7, <1>8, <1>9, <1>10, <1>11, <1>12, <1>13, <1>14, <1>15, <1>16
  DEF StepOf, Advance

\* The run that drives a session finds no other one parked under its file.
LEMMA NoEntry ==
  ASSUME SessionInv, SessionAssumption, NEW r \in Run, Drives(r)
  PROVE  /\ obj[r] \in Run /\ phase[obj[r]] = "live" /\ ~Parked(obj[r])
         /\ \A i \in DOMAIN parked : parked[i][1] # file[obj[r]]
<1>1. obj[r] \in Run /\ phase[obj[r]] = "live" /\ ~Parked(obj[r])
  BY DEF SessionInv, PlaceInv, DriverInv, Drives
<1>2. ASSUME NEW i \in DOMAIN parked, parked[i][1] = file[obj[r]] PROVE FALSE
  <2>1. /\ parked[i][1] \in Run /\ parked[i][2] \in Run /\ None \notin Run
        /\ phase[parked[i][2]] = "live" /\ file[parked[i][2]] = parked[i][1]
    BY DEF SessionInv, TypeOK, ParkedInv, SessionAssumption
  <2>2. parked[i][1] \in Claims(parked[i][2]) /\ parked[i][1] \in Claims(obj[r])
    BY <1>1, <1>2, <2>1 DEF Claims
  <2>3. parked[i][2] = obj[r]
    BY <1>1, <2>1, <2>2 DEF SessionInv, FilesInv
  <2> QED
    BY <1>1, <2>3 DEF Parked
<1> QED
  BY <1>1, <1>2

\* The runs' end of a session: what its driver does last.
Ends(r) == Stops(r) \/ Destroys(r) \/ Suspended(r)

LEMMA EndEffect ==
  ASSUME SessionInv, SessionAssumption, NEW r \in Run, Ends(r)
  PROVE  /\ Drives(r) /\ obj[r] \in Run /\ phase[obj[r]] = "live"
         /\ \E p \in {"persist", "shutdown"} : phase' = [phase EXCEPT ![obj[r]] = p]
         /\ \E p \in {"stopping", "leaving"} : pc' = [pc EXCEPT ![r] = p]
         /\ \A s \in Run : pending'[s] # {} => pending[s] # {}
         /\ parked' = parked
         /\ UNCHANGED <<obj, resume, identity, file, built, gate, turns, active, shared>>
<1>1. Drives(r) /\ parked' = Unparked(file[obj[r]])
  BY DEF Ends, Stops, Destroys, Suspended, Drives
<1>2. obj[r] \in Run /\ phase[obj[r]] = "live" /\ ~\E i \in DOMAIN parked : parked[i][1] = file[obj[r]]
  BY <1>1, NoEntry
<1>3. parked' = parked
  BY <1>1, <1>2 DEF Unparked
<1>4. ASSUME NEW next, Stopped({obj[r]}, next)
      PROVE  phase' = [phase EXCEPT ![obj[r]] = next] /\ \A s \in Run : pending'[s] # {} => pending[s] # {}
  <2>1. phase = [s \in Run |-> phase[s]]
    BY DEF SessionInv, TypeOK
  <2> QED
    BY <1>2, <1>4, <2>1 DEF Stopped
<1>5. CASE Stops(r)
  BY <1>1, <1>2, <1>3, <1>4, <1>5 DEF Stops
<1>6. CASE Destroys(r)
  BY <1>1, <1>2, <1>3, <1>4, <1>6 DEF Destroys
<1>7. CASE Suspended(r)
  BY <1>1, <1>2, <1>3, <1>4, <1>7 DEF Suspended
<1> QED
  BY <1>5, <1>6, <1>7 DEF Ends

\* The teardown goes on.
LEMMA TeardownEffect ==
  ASSUME TypeOK, NEW r \in Run, Persisted(r) \/ ShutDown(r) \/ RootRemoved(r)
  PROVE  /\ phase[r] \in {"persist", "shutdown", "removing"}
         /\ \E p \in {"shutdown", "removing", "closed"} : phase' = [phase EXCEPT ![r] = p]
         /\ UNCHANGED <<driver, identity, file, gate, turns, active, pending, parked>>
         /\ \A s \in Run : built'[s] # None => built[s] # None
<1>1. CASE Persisted(r)
  BY <1>1 DEF Persisted
<1>2. CASE ShutDown(r)
  BY <1>2 DEF ShutDown, Release, TypeOK
<1>3. CASE RootRemoved(r)
  BY <1>3 DEF RootRemoved
<1> QED
  BY <1>1, <1>2, <1>3

\* A displaced or a parked session ends, in whatever else it was.
LEMMA PlaceStep ==
  ASSUME SessionInv, SessionAssumption, NEW r \in Run, StepOf(r)
  PROVE  \A q \in Run : PlaceInv(q)' /\ FileInv(q)'
<1> SUFFICES ASSUME NEW q \in Run PROVE PlaceInv(q)' /\ FileInv(q)'
  OBVIOUS
<1>0. /\ TypeOK /\ None \notin Run
      /\ \A i \in DOMAIN parked :
           /\ parked[i][1] \in Run /\ parked[i][2] \in Run
           /\ phase[parked[i][2]] = "live" /\ file[parked[i][2]] = parked[i][1]
      /\ PlaceInv(r) /\ FileInv(r) /\ PlaceInv(q) /\ FileInv(q)
      /\ DriverInv
  BY DEF SessionInv, SessionAssumption, ParkedInv, TypeOK
<1>1. CASE \/ Continue(r) \/ \E t \in Run : TurnEnds(r, t)
           \/ \E t \in Run, kind \in {"result", "approval"} : Calls(r, t, kind)
           \/ \E t \in Run, kind \in {"result", "approval"} : Answers(r, <<t, kind>>)
  <2>1. /\ Quiet
        /\ turns'[q] # {} \/ active'[q] # None \/ pending'[q] # {} =>
             turns[q] # {} \/ active[q] # None \/ pending[q] # {}
    BY <1>0, <1>1, QuietSteps
  <2> QED
    BY <1>0, <2>1 DEF Quiet, PlaceInv, FileInv, Drives
<1>2. ASSUME NEW f \in Run \cup {None}, StartCold(r, f) PROVE PlaceInv(q)' /\ FileInv(q)'
  <2>1. /\ pc[r] = "idle" /\ phase[r] = "none"
        /\ \A s \in Run : Drives(s) => obj[s] # r
    BY <1>0, <1>2 DEF StartCold, CanStart, PlaceInv, SessionInv
  <2> QED
    BY <1>0, <1>2, <2>1 DEF StartCold, Acquire, PlaceInv, FileInv, Drives, TypeOK, Over
<1>3. ASSUME NEW i \in DOMAIN parked, TakeParked(r, i) PROVE PlaceInv(q)' /\ FileInv(q)'
  <2> DEFINE s == parked[i][2]
  <2>1. /\ pc[r] = "idle" /\ \A p \in Run : Drives(p) => obj[p] # s
    BY <1>3 DEF TakeParked, CanStart, DriverInv, SessionInv, Parked
  <2> QED
    BY <1>0, <1>3, <2>1 DEF TakeParked, PlaceInv, FileInv, Drives, TypeOK, Over
<1>4. ASSUME NEW i \in DOMAIN parked, Displace(r, i) PROVE PlaceInv(q)' /\ FileInv(q)'
  <2> DEFINE s == parked[i][2]
  <2>1. /\ pc[r] = "idle" /\ \A p \in Run : Drives(p) => obj[p] # s
    BY <1>4 DEF Displace, CanStart, DriverInv, SessionInv, Parked
  <2>2. /\ s \in Run /\ phase[s] = "live" /\ r # s
        /\ phase' = [phase EXCEPT ![s] = "shutdown"]
        /\ \A p \in Run : pending'[p] # {} => pending[p] # {}
    BY <1>0, <1>4, <2>1 DEF Displace, Stopped, TypeOK, PlaceInv
  <2> QED
    BY <1>0, <1>4, <2>1, <2>2 DEF Displace, PlaceInv, FileInv, Drives, TypeOK, Over
<1>5. CASE Displaced(r)
  <2>1. /\ pc[r] = "displacing" /\ phase[r] = "none" /\ want[r] \in Run
        /\ \A s \in Run : Drives(s) => obj[s] # r
    BY <1>0, <1>5 DEF Displaced, PlaceInv, SessionInv
  <2> QED
    BY <1>0, <1>5, <2>1 DEF Displaced, Acquire, PlaceInv, FileInv, Drives, TypeOK, Over
<1>6. CASE Mount(r)
  BY <1>0, <1>6 DEF Mount, PlaceInv, FileInv, Drives, TypeOK, Over
<1>7. CASE Loaded(r)
  BY <1>0, <1>7 DEF Loaded, PlaceInv, FileInv, Drives, TypeOK, Over
<1>8. CASE SetupFails(r)
  BY <1>0, <1>8 DEF SetupFails, Release, PlaceInv, FileInv, Drives, TypeOK, Over
<1>17. CASE Prompt(r)
  BY <1>0, <1>17 DEF Prompt, PlaceInv, FileInv, Drives, TypeOK, Over
<1>9. CASE Suspends(r)
  <2>1. /\ pc[r] = "driving" /\ pc' = [pc EXCEPT ![r] = "aborting"]
        /\ UNCHANGED <<obj, phase, identity, file, built, gate, turns, active, pending>>
    BY <1>9 DEF Suspends
  <2>2. pc'[q] = (IF q = r THEN "aborting" ELSE pc[q]) /\ Drives(q)' = Drives(q)
    BY <1>0, <2>1 DEF Drives, TypeOK
  <2>3. PlaceInv(q)'
    BY <1>0, <2>1, <2>2 DEF PlaceInv, Drives
  <2>4. FileInv(q)'
    BY <1>0, <2>1 DEF FileInv
  <2> QED
    BY <2>3, <2>4
<1>10. CASE Starts(r)
  <2> DEFINE s == obj[r]
  <2>1. /\ pc[r] = "preparing" /\ pc' = [pc EXCEPT ![r] = "driving"]
        /\ s \in Run /\ phase[s] = "live" /\ Drives(r)
        /\ UNCHANGED <<obj, phase, identity, gate, pending>>
    BY <1>0, <1>10 DEF Starts, PlaceInv, Drives
  <2>2. \/ UNCHANGED <<file, built>>
        \/ \E f \in Run : file' = [file EXCEPT ![s] = f] /\ built' = [built EXCEPT ![s] = ToolsOf[r]]
    <3>1. s \in pulled => want[s] \in Run
      BY <2>1 DEF SessionInv, FileInv
    <3> QED
      BY <1>10, <3>1 DEF Starts
  <2>3. file[s] # None \/ file'[s] # None
    <3>2. built[s] = ToolsOf[r] => file[s] # None
      BY <2>1 DEF SessionAssumption, SessionInv, FileInv
    <3>3. built[s] # ToolsOf[r] => file'[s] # None
      BY <1>0, <1>10, <2>1 DEF Starts, TypeOK, SessionInv, FileInv
    <3> QED
      BY <3>2, <3>3
  <2>4. file'[q] # None \/ (file'[q] = file[q] /\ (q = s => file[q] # None))
    BY <1>0, <2>1, <2>2, <2>3 DEF TypeOK
  <2>5. \A u \in Run : file[u] # None => file'[u] # None
    BY <1>0, <2>1, <2>2 DEF TypeOK
  <2>6. q # s => /\ file'[q] = file[q] /\ built'[q] = built[q] 
                 /\ turns'[q] = turns[q] /\ active'[q] = active[q]
    BY <1>0, <1>10, <2>1, <2>2 DEF Starts, TypeOK
  <2>7. pc'[q] = (IF q = r THEN "driving" ELSE pc[q]) /\ Drives(q)' = Drives(q)
    BY <1>0, <2>1 DEF Drives, TypeOK
  <2>8. PlaceInv(q)'
    BY <1>0, <2>1, <2>5, <2>7 DEF PlaceInv, Drives
  <2>9. FileInv(q)'
    BY <1>0, <2>1, <2>4, <2>6 DEF FileInv
  <2> QED
    BY <2>8, <2>9
<1>11. CASE StartFails(r)
  BY <1>0, <1>11 DEF StartFails, PlaceInv, FileInv, Drives, TypeOK, Over
<1>12. CASE Parks(r)
  <2> DEFINE s == obj[r]
  <2>1. /\ pc[r] = "driving" /\ (active[s] # None \/ pending[s] # {}) /\ Park(s)
        /\ pc' = [pc EXCEPT ![r] = "persisting"]
        /\ UNCHANGED <<obj, started, resume, identity, file, built, gate, turns, active, emit,
                       calls, late, leases, tree, mounts, mounted, saved>>
    BY <1>12 DEF Parks, Live, Waits
  <2>2. s \in Run /\ file[s] # None /\ Drives(r) /\ phase[s] = "live"
    BY <1>0, <2>1 DEF FileInv, PlaceInv, Drives, SessionInv
  <2>3. PICK Q \in SUBSET Run :
          /\ StoppedFrom(Q, "shutdown") /\ pending' = [p \in Run |-> IF p \in Q THEN {} ELSE pending[p]]
          /\ \A p \in Q : p = s \/ Parked(p)
    BY <2>1, <2>2, ParkEffect, NoEntry DEF SessionInv
  <2>4. \A p \in Q : phase[p] = "live" /\ \A u \in Run : Drives(u) /\ obj[u] = p => u = r
    BY <1>0, <2>2, <2>3 DEF DriverInv, Parked
  <2> QED
    BY <1>0, <2>1, <2>2, <2>3, <2>4 DEF StoppedFrom, PlaceInv, FileInv, Drives, TypeOK, Over
<1>13. CASE ParkPersisted(r)
  BY <1>0, <1>13 DEF ParkPersisted, PlaceInv, FileInv, Drives, TypeOK, Over
<1>14. CASE Ends(r)
  <2> DEFINE s == obj[r]
  <2>1. /\ Drives(r) /\ s \in Run /\ phase[s] = "live"
        /\ \E p \in {"persist", "shutdown"} : phase' = [phase EXCEPT ![s] = p]
        /\ \E p \in {"stopping", "leaving"} : pc' = [pc EXCEPT ![r] = p]
        /\ pending'[q] # {} => pending[q] # {}
        /\ UNCHANGED <<obj, resume, identity, file, built, gate, turns, active>>
    BY <1>14, EndEffect
  <2> QED
    BY <1>0, <2>1 DEF PlaceInv, FileInv, DriverInv, Drives, TypeOK, Over
<1>15. CASE Persisted(r) \/ ShutDown(r) \/ RootRemoved(r)
  <2>1. /\ phase[r] \in {"persist", "shutdown", "removing"}
        /\ \E p \in {"shutdown", "removing", "closed"} : phase' = [phase EXCEPT ![r] = p]
        /\ UNCHANGED <<driver, identity, file, gate, turns, active, pending>>
        /\ built'[q] # None => built[q] # None
    BY <1>0, <1>15, TeardownEffect
  <2> QED
    BY <1>0, <2>1 DEF PlaceInv, FileInv, Drives, TypeOK, Over
<1>16. CASE Leaves(r)
  BY <1>0, <1>16 DEF Leaves, PlaceInv, FileInv, Drives, TypeOK, Over
<1> QED
  BY <1>1, <1>2, <1>3, <1>4, <1>5, <1>6, <1>7, <1>8, <1>9, <1>10, <1>11, <1>12, <1>13, <1>14, <1>15, <1>16, <1>17
  DEF StepOf, Advance, Ends

-----------------------------------------------------------------------------
(* A live session is in one pair of hands. *)

LEMMA HandsKept ==
  ASSUME TypeOK, DriverInv, ParkedInv, \A q \in Run : PlaceInv(q), UNCHANGED parked,
         \A s \in Run : /\ phase'[s] = "live" <=> phase[s] = "live"
                        /\ Parked(s) => file'[s] = file[s]
                        /\ pc'[s] \in {"driving", "preparing", "aborting"} <=> Drives(s)
                        /\ Drives(s) => obj'[s] = obj[s]
  PROVE  DriverInv' /\ ParkedInv'
<1>1. ParkedInv'
  <2>1. \A i \in DOMAIN parked : parked[i][2] \in Run /\ Parked(parked[i][2])
    BY DEF TypeOK, Parked
  <2> QED
    BY <2>1 DEF ParkedInv
<1>2. \A s \in Run : Parked(s)' = Parked(s)
  BY DEF Parked
<1>3. \A s \in Run : Drives(s)' = Drives(s)
  BY DEF Drives
<1>4. \A r \in Run : Drives(r) => obj[r] \in Run
  BY DEF PlaceInv, Drives
<1>5. \A r \in Run : Drives(r)' => ~Parked(obj[r])'
  <2> SUFFICES ASSUME NEW r \in Run, Drives(r)' PROVE ~Parked(obj[r])'
    OBVIOUS
  <2>1. Drives(r) /\ obj'[r] = obj[r] /\ ~Parked(obj[r])
    BY <1>3 DEF DriverInv
  <2> QED
    BY <2>1 DEF Parked
<1>6. \A s \in Run : phase'[s] = "live" => Parked(s)' \/ \E r \in Run : Drives(r)' /\ obj'[r] = s
  BY <1>2, <1>3 DEF DriverInv
<1>7. \A r, q \in Run : Drives(r)' /\ Drives(q)' /\ obj'[r] = obj'[q] => r = q
  BY <1>3 DEF DriverInv
<1> QED
  BY <1>1, <1>5, <1>6, <1>7 DEF DriverInv

LEMMA TakenEffect ==
  ASSUME TypeOK, ParkedInv, SessionAssumption, NEW i \in DOMAIN parked, parked' = Unparked(parked[i][1])
  PROVE  /\ \A q \in Run : Parked(q)' <=> Parked(q) /\ q # parked[i][2]
         /\ Len(parked') <= MaxParked /\ Distinct(parked')
         /\ \A j \in DOMAIN parked' : \E k \in DOMAIN parked :
              parked'[j] = parked[k] /\ parked[k][2] # parked[i][2]
<1>1. /\ parked' \in Seq(Run \X Run) /\ Len(parked') <= Len(parked) /\ Distinct(parked')
      /\ \A j \in DOMAIN parked' : \E k \in DOMAIN parked : k # i /\ parked'[j] = parked[k]
      /\ \A k \in DOMAIN parked : k # i => \E j \in DOMAIN parked' : parked'[j] = parked[k]
  <2>1. parked \in Seq(Run \X Run) /\ Distinct(parked)
    BY DEF TypeOK, ParkedInv, Distinct
  <2> DEFINE p == Unparked(parked[i][1])
  <2>2. /\ p \in Seq(Run \X Run) /\ Len(p) <= Len(parked) /\ Distinct(p)
        /\ \A j \in DOMAIN p : \E k \in DOMAIN parked : k # i /\ p[j] = parked[k]
        /\ \A k \in DOMAIN parked : k # i => \E j \in DOMAIN p : p[j] = parked[k]
    BY <2>1, UnparkedEffect
  <2>3. parked' = p
    OBVIOUS
  <2> HIDE DEF p
  <2> QED
    BY <2>2, <2>3
<1>2. \A k \in DOMAIN parked : parked[k][2] = parked[i][2] => k = i
  BY DEF ParkedInv
<1>3. Len(parked') <= MaxParked
  <2>1. Len(parked) \in Nat /\ Len(parked') \in Nat /\ MaxParked \in Nat /\ Len(parked) <= MaxParked
    BY <1>1 DEF TypeOK, ParkedInv, SessionAssumption
  <2> QED
    BY <1>1, <2>1
<1>4. \A j \in DOMAIN parked' : \E k \in DOMAIN parked :
        parked'[j] = parked[k] /\ parked[k][2] # parked[i][2]
  BY <1>1, <1>2
<1>5. ASSUME NEW q \in Run PROVE Parked(q)' <=> Parked(q) /\ q # parked[i][2]
  <2>1. ASSUME Parked(q)' PROVE Parked(q) /\ q # parked[i][2]
    BY <1>4, <2>1 DEF Parked
  <2>2. ASSUME Parked(q), q # parked[i][2] PROVE Parked(q)'
    <3>1. PICK k \in DOMAIN parked : parked[k][2] = q
      BY <2>2 DEF Parked
    <3> QED
      BY <1>1, <2>2, <3>1 DEF Parked
  <2> QED
    BY <2>1, <2>2
<1> QED
  BY <1>1, <1>3, <1>4, <1>5

LEMMA HandsStep ==
  ASSUME SessionInv, SessionAssumption, NEW r \in Run, StepOf(r)
  PROVE  DriverInv' /\ ParkedInv'
<1>0. /\ TypeOK /\ None \notin Run /\ DriverInv /\ ParkedInv /\ \A q \in Run : PlaceInv(q)
      /\ \A i \in DOMAIN parked :
           /\ parked[i][1] \in Run /\ parked[i][2] \in Run
           /\ phase[parked[i][2]] = "live" /\ file[parked[i][2]] = parked[i][1]
  BY DEF SessionInv, SessionAssumption, ParkedInv, TypeOK
<1>k. ASSUME UNCHANGED parked,
             \A s \in Run : /\ phase'[s] = "live" <=> phase[s] = "live"
                            /\ Parked(s) => file'[s] = file[s]
                            /\ pc'[s] \in {"driving", "preparing", "aborting"} <=> Drives(s)
                            /\ Drives(s) => obj'[s] = obj[s]
      PROVE  DriverInv' /\ ParkedInv'
  BY <1>0, <1>k, HandsKept
<1>1. CASE \/ Continue(r) \/ \E t \in Run : TurnEnds(r, t)
           \/ \E t \in Run, kind \in {"result", "approval"} : Calls(r, t, kind)
           \/ \E t \in Run, kind \in {"result", "approval"} : Answers(r, <<t, kind>>)
  <2>1. Quiet
    BY <1>0, <1>1, QuietSteps
  <2> QED
    BY <1>k, <2>1 DEF Quiet, Drives
<1>2. ASSUME NEW f \in Run \cup {None}, StartCold(r, f) PROVE DriverInv' /\ ParkedInv'
  BY <1>0, <1>k, <1>2 DEF StartCold, CanStart, Acquire, PlaceInv, TypeOK, Drives
<1>3. ASSUME NEW i \in DOMAIN parked, TakeParked(r, i) PROVE DriverInv' /\ ParkedInv'
  <2> DEFINE s == parked[i][2]
  <2>1. /\ pc[r] = "idle" /\ ~Drives(r)
        /\ obj' = [obj EXCEPT ![r] = s] /\ pc' = [pc EXCEPT ![r] = "driving"]
        /\ UNCHANGED <<phase, file>> /\ parked' = Unparked(parked[i][1])
    BY <1>3 DEF TakeParked, CanStart, Drives
  <2>2. /\ \A q \in Run : Parked(q)' <=> Parked(q) /\ q # s
        /\ Len(parked') <= MaxParked /\ Distinct(parked')
        /\ \A j \in DOMAIN parked' : \E k \in DOMAIN parked : parked'[j] = parked[k] /\ parked[k][2] # s
    BY <1>0, <2>1, TakenEffect
  <2>3. ParkedInv'
    BY <1>0, <2>1, <2>2 DEF ParkedInv, Distinct
  <2>4. s \in Run /\ Parked(s) /\ phase[s] = "live"
    BY <1>0 DEF Parked
  <2> HIDE DEF s
  <2>5. \A q \in Run : /\ Drives(q)' <=> Drives(q) \/ q = r
                       /\ obj'[q] = (IF q = r THEN s ELSE obj[q])
                       /\ Drives(q) => q # r /\ obj[q] # s /\ obj[q] \in Run
    BY <1>0, <2>1, <2>4 DEF Drives, TypeOK, DriverInv, PlaceInv
  <2>6. \A q \in Run : Drives(q)' => ~Parked(obj[q])'
    <3> SUFFICES ASSUME NEW q \in Run, Drives(q)' PROVE ~Parked(obj[q])'
      OBVIOUS
    <3>1. CASE q = r
      BY <2>2, <2>4, <2>5, <3>1 DEF Parked
    <3>2. CASE q # r
      <4>1. Drives(q) /\ obj'[q] = obj[q] /\ obj[q] \in Run /\ ~Parked(obj[q])
        BY <2>5, <3>2, <1>0 DEF DriverInv
      <4> QED
        BY <2>2, <4>1 DEF Parked
    <3> QED
      BY <3>1, <3>2
  <2>7. \A q \in Run : phase'[q] = "live" => Parked(q)' \/ \E p \in Run : Drives(p)' /\ obj'[p] = q
    BY <1>0, <2>1, <2>2, <2>5 DEF DriverInv
  <2>8. \A p, q \in Run : Drives(p)' /\ Drives(q)' /\ obj'[p] = obj'[q] => p = q
    BY <1>0, <2>5 DEF DriverInv
  <2> QED
    BY <2>3, <2>6, <2>7, <2>8 DEF DriverInv
<1>4. ASSUME NEW i \in DOMAIN parked, Displace(r, i) PROVE DriverInv' /\ ParkedInv'
  <2> DEFINE s == parked[i][2]
  <2>1. /\ pc[r] = "idle" /\ ~Drives(r)
        /\ obj' = [obj EXCEPT ![r] = s] /\ pc' = [pc EXCEPT ![r] = "displacing"]
        /\ UNCHANGED file /\ parked' = Unparked(parked[i][1])
        /\ \A q \in Run : phase'[q] = IF q = s THEN "shutdown" ELSE phase[q]
    BY <1>4 DEF Displace, CanStart, Drives, Stopped
  <2>2. /\ \A q \in Run : Parked(q)' <=> Parked(q) /\ q # s
        /\ Len(parked') <= MaxParked /\ Distinct(parked')
        /\ \A j \in DOMAIN parked' : \E k \in DOMAIN parked : parked'[j] = parked[k] /\ parked[k][2] # s
    BY <1>0, <2>1, TakenEffect
  <2>3. ParkedInv'
    BY <1>0, <2>1, <2>2 DEF ParkedInv, Distinct
  <2>4. s \in Run /\ Parked(s) /\ phase[s] = "live"
    BY <1>0 DEF Parked
  <2> HIDE DEF s
  <2>5. \A q \in Run : /\ Drives(q)' <=> Drives(q)
                       /\ Drives(q) => q # r /\ obj'[q] = obj[q] /\ obj[q] # s /\ obj[q] \in Run
    BY <1>0, <2>1, <2>4 DEF Drives, TypeOK, DriverInv, PlaceInv
  <2>6. \A q \in Run : Drives(q)' => ~Parked(obj[q])'
    <3> SUFFICES ASSUME NEW q \in Run, Drives(q)' PROVE ~Parked(obj[q])'
      OBVIOUS
    <3>1. Drives(q) /\ obj'[q] = obj[q] /\ obj[q] \in Run /\ ~Parked(obj[q])
      BY <2>5, <1>0 DEF DriverInv
    <3> QED
      BY <2>2, <3>1 DEF Parked
  <2>7. \A q \in Run : phase'[q] = "live" => Parked(q)' \/ \E p \in Run : Drives(p)' /\ obj'[p] = q
    BY <1>0, <2>1, <2>2, <2>5 DEF DriverInv
  <2>8. \A p, q \in Run : Drives(p)' /\ Drives(q)' /\ obj'[p] = obj'[q] => p = q
    BY <1>0, <2>5 DEF DriverInv
  <2> QED
    BY <2>3, <2>6, <2>7, <2>8 DEF DriverInv
<1>5. CASE Displaced(r)
  BY <1>0, <1>k, <1>5 DEF Displaced, Acquire, PlaceInv, TypeOK, Drives
<1>6. CASE Mount(r)
  BY <1>0, <1>k, <1>6 DEF Mount, TypeOK, Drives
<1>7. CASE Loaded(r)
  <2>1. /\ pc[r] = "starting" /\ obj[r] = r /\ phase[r] = "load" /\ ~Drives(r)
        /\ phase' = [phase EXCEPT ![r] = "live"] /\ pc' = [pc EXCEPT ![r] = "driving"]
        /\ UNCHANGED <<obj, file, parked>>
    BY <1>0, <1>7 DEF Loaded, PlaceInv, Drives
  <2>2. ~Parked(r) /\ \A q \in Run : Drives(q) => obj[q] # r /\ obj[q] \in Run
    BY <1>0, <2>1 DEF Parked, PlaceInv, Drives
  <2>3. ParkedInv'
    BY <1>0, <2>1, <2>2 DEF ParkedInv, TypeOK, Parked
  <2>4. \A q \in Run : (Drives(q)' <=> Drives(q) \/ q = r) /\ obj'[q] = obj[q]
    BY <1>0, <2>1 DEF Drives, TypeOK
  <2>5. \A q \in Run : Drives(q)' => ~Parked(obj[q])'
    BY <1>0, <2>1, <2>2, <2>4 DEF DriverInv, Parked
  <2>6. \A q \in Run : phase'[q] = "live" => Parked(q)' \/ \E p \in Run : Drives(p)' /\ obj'[p] = q
    <3> SUFFICES ASSUME NEW q \in Run, phase'[q] = "live"
                 PROVE  Parked(q)' \/ \E p \in Run : Drives(p)' /\ obj'[p] = q
      OBVIOUS
    <3>1. CASE q = r
      BY <2>1, <2>4, <3>1
    <3>2. CASE q # r
      <4>1. phase[q] = "live" /\ Parked(q)' = Parked(q)
        BY <1>0, <2>1, <3>2 DEF TypeOK, Parked
      <4> QED
        BY <1>0, <2>4, <4>1 DEF DriverInv
    <3> QED
      BY <3>1, <3>2
  <2>7. \A p, q \in Run : Drives(p)' /\ Drives(q)' /\ obj'[p] = obj'[q] => p = q
    BY <1>0, <2>1, <2>2, <2>4 DEF DriverInv
  <2> QED
    BY <2>3, <2>5, <2>6, <2>7 DEF DriverInv
<1>8. CASE SetupFails(r)
  BY <1>0, <1>k, <1>8 DEF SetupFails, Release, PlaceInv, TypeOK, Drives
<1>9. CASE Prompt(r)
  BY <1>0, <1>k, <1>9 DEF Prompt, TypeOK, Drives
<1>10. CASE Suspends(r)
  <2>1. /\ pc[r] = "driving" /\ pc' = [pc EXCEPT ![r] = "aborting"]
        /\ UNCHANGED <<obj, phase, file, parked>>
    BY <1>10 DEF Suspends
  <2> QED
    BY <1>0, <1>k, <2>1 DEF TypeOK, Drives
<1>11. CASE Starts(r)
  <2> DEFINE s == obj[r]
  <2>1. /\ pc[r] = "preparing" /\ pc' = [pc EXCEPT ![r] = "driving"]
        /\ UNCHANGED <<obj, phase, parked>> /\ Drives(r)
        /\ file' = file \/ \E f : file' = [file EXCEPT ![s] = f]
    BY <1>11 DEF Starts, Drives
  <2>2. ~Parked(s)
    BY <1>0, <2>1 DEF DriverInv
  <2>3. \A q \in Run : Parked(q) => file'[q] = file[q]
    BY <1>0, <2>1, <2>2 DEF TypeOK
  <2> QED
    BY <1>0, <1>k, <2>1, <2>3 DEF TypeOK, Drives
<1>12. CASE StartFails(r)
  BY <1>0, <1>k, <1>12 DEF StartFails, TypeOK, Drives
<1>13. CASE Parks(r)
  <2> DEFINE s == obj[r]
  <2>1. /\ pc[r] = "driving" /\ (active[s] # None \/ pending[s] # {}) /\ Park(s)
        /\ pc' = [pc EXCEPT ![r] = "persisting"]
        /\ UNCHANGED <<obj, file>>
    BY <1>13 DEF Parks, Live, Waits
  <2>2. s \in Run /\ file[s] # None /\ file[s] \in Run /\ Drives(r) /\ phase[s] = "live"
    BY <1>0, <2>1 DEF FileInv, PlaceInv, Drives, SessionInv, TypeOK, File
  <2>3. PICK Q \in SUBSET Run :
          /\ StoppedFrom(Q, "shutdown")
          /\ parked' \in Seq(Run \X Run) /\ Len(parked') <= MaxParked /\ Distinct(parked')
          /\ \A j \in DOMAIN parked' :
               /\ parked'[j] = <<file[s], s>> \/ \E i \in DOMAIN parked : parked'[j] = parked[i]
               /\ parked'[j][2] \notin Q
          /\ s \in Q \/ Parked(s)'
          /\ \A q \in Run : Parked(q) => q \in Q \/ Parked(q)'
          /\ \A q \in Q : q = s \/ Parked(q)
    BY <2>1, <2>2, ParkEffect, NoEntry DEF SessionInv
  <2>4. \A q \in Run : /\ Drives(q)' <=> Drives(q) /\ q # r
                       /\ Drives(q)' => obj[q] # s /\ obj[q] \in Run /\ ~Parked(obj[q])
    BY <1>0, <2>1, <2>2 DEF Drives, TypeOK, DriverInv, PlaceInv
  <2>5. \A q \in Run : phase'[q] = IF q \in Q THEN "shutdown" ELSE phase[q]
    BY <2>3 DEF StoppedFrom
  <2>6. ASSUME NEW j \in DOMAIN parked'
        PROVE  /\ parked'[j][2] \in Run /\ phase'[parked'[j][2]] = "live" /\ file'[parked'[j][2]] = parked'[j][1]
               /\ parked'[j][2] = s \/ Parked(parked'[j][2])
    BY <1>0, <2>1, <2>2, <2>3, <2>5 DEF Parked
  <2>7. ParkedInv'
    BY <2>3, <2>6 DEF ParkedInv, Distinct
  <2>8. \A q \in Run : Drives(q)' => ~Parked(obj[q])'
    BY <2>1, <2>4, <2>6 DEF Parked
  <2>9. \A q \in Run : phase'[q] = "live" => Parked(q)' \/ \E p \in Run : Drives(p)' /\ obj'[p] = q
    BY <1>0, <2>1, <2>3, <2>4, <2>5 DEF DriverInv
  <2>10. \A p, q \in Run : Drives(p)' /\ Drives(q)' /\ obj'[p] = obj'[q] => p = q
    BY <1>0, <2>1, <2>4 DEF DriverInv
  <2> QED
    BY <2>7, <2>8, <2>9, <2>10 DEF DriverInv
<1>14. CASE ParkPersisted(r)
  BY <1>0, <1>k, <1>14 DEF ParkPersisted, TypeOK, Drives
<1>15. CASE Ends(r)
  <2> DEFINE s == obj[r]
  <2>1. /\ Drives(r) /\ s \in Run /\ phase[s] = "live"
        /\ \E p \in {"persist", "shutdown"} : phase' = [phase EXCEPT ![s] = p]
        /\ \E p \in {"stopping", "leaving"} : pc' = [pc EXCEPT ![r] = p]
        /\ UNCHANGED <<obj, file, parked>>
    BY <1>15, EndEffect
  <2>2. ~Parked(s) /\ \A q \in Run : Drives(q) /\ q # r => obj[q] # s
    BY <1>0, <2>1 DEF DriverInv
  <2>3. ParkedInv'
    BY <1>0, <2>1, <2>2 DEF ParkedInv, TypeOK, Parked
  <2>4. \A q \in Run : (Drives(q)' <=> Drives(q) /\ q # r)
    BY <1>0, <2>1 DEF Drives, TypeOK
  <2>5. \A q \in Run : Drives(q)' => ~Parked(obj[q])'
    BY <1>0, <2>1, <2>4 DEF DriverInv, Parked
  <2>6. \A q \in Run : phase'[q] = "live" => Parked(q)' \/ \E p \in Run : Drives(p)' /\ obj'[p] = q
    <3> SUFFICES ASSUME NEW q \in Run, phase'[q] = "live"
                 PROVE  Parked(q)' \/ \E p \in Run : Drives(p)' /\ obj'[p] = q
      OBVIOUS
    <3>1. phase[q] = "live" /\ q # s /\ Parked(q)' = Parked(q)
      BY <1>0, <2>1 DEF TypeOK, Parked
    <3> QED
      BY <1>0, <2>1, <2>4, <3>1 DEF DriverInv
  <2>7. \A p, q \in Run : Drives(p)' /\ Drives(q)' /\ obj'[p] = obj'[q] => p = q
    BY <1>0, <2>1, <2>4 DEF DriverInv
  <2> QED
    BY <2>3, <2>5, <2>6, <2>7 DEF DriverInv
<1>16. CASE Persisted(r) \/ ShutDown(r) \/ RootRemoved(r)
  <2>1. /\ phase[r] \in {"persist", "shutdown", "removing"}
        /\ \E p \in {"shutdown", "removing", "closed"} : phase' = [phase EXCEPT ![r] = p]
        /\ UNCHANGED <<driver, identity, file, parked>>
    BY <1>0, <1>16, TeardownEffect
  <2> QED
    BY <1>0, <1>k, <2>1 DEF TypeOK, Drives
<1>17. CASE Leaves(r)
  BY <1>0, <1>k, <1>17 DEF Leaves, TypeOK, Drives
<1> QED
  BY <1>1, <1>2, <1>3, <1>4, <1>5, <1>6, <1>7, <1>8, <1>9, <1>10, <1>11, <1>12, <1>13, <1>14, <1>15, <1>16, <1>17
  DEF StepOf, Advance, Ends

-----------------------------------------------------------------------------
(* Every journal file is in one pair of hands. *)

\* Runs whose name is no file yet, or the one of the session they drive.
Fresh(r) == pc[r] \in {"idle", "displacing", "starting", "driving", "preparing", "aborting"}

\* Files change hands in no other way than that someone lets go of one.
LEMMA FilesKept ==
  ASSUME FilesInv,
         \A s \in Run : /\ Claims(s)' \subseteq Claims(s)
                        /\ Returns(s)' \subseteq Returns(s)
                        /\ Claims(s)' # {} /\ Parked(s) => Parked(s)' /\ file'[s] = file[s]
                        /\ Returns(s)' # {} /\ pc[s] = "persisting" =>
                             pc'[s] = "persisting" /\ obj'[s] = obj[s]
                        /\ Fresh(s)' => Fresh(s) /\ (Drives(s) => Drives(s)' /\ obj'[s] = obj[s]),
         resume' \subseteq resume
  PROVE  FilesInv'
<1>1. \A s, q \in Run : s # q => Claims(s)' \cap Claims(q)' = {}
  BY DEF FilesInv
<1>2. \A r, q \in Run : r # q => Returns(r)' \cap Returns(q)' = {}
  BY DEF FilesInv
<1>3. \A r \in Run : Returns(r)' \cap resume' = {}
  BY DEF FilesInv
<1>4. \A s \in Run : \A f \in Claims(s)' \cap resume' : Parked(s)' /\ file'[s] = f
  BY DEF FilesInv
<1>5. \A s, r \in Run : Claims(s)' \cap Returns(r)' # {} =>
        s = obj'[r] /\ Parked(s)' /\ pc'[r] = "persisting"
  <2> SUFFICES ASSUME NEW s \in Run, NEW r \in Run, NEW f \in Claims(s)', f \in Returns(r)'
               PROVE  s = obj'[r] /\ Parked(s)' /\ pc'[r] = "persisting"
    OBVIOUS
  <2>1. f \in Claims(s) /\ f \in Returns(r)
    OBVIOUS
  <2>2. s = obj[r] /\ Parked(s) /\ pc[r] = "persisting"
    BY <2>1 DEF FilesInv
  <2> QED
    BY <2>2
<1>6. \A r \in Run : Fresh(r)' =>
        /\ r \notin resume'
        /\ \A q \in Run : r \notin Returns(q)'
        /\ \A s \in Run : r \in Claims(s)' => Drives(r)' /\ s = obj'[r]
  <2> SUFFICES ASSUME NEW r \in Run, Fresh(r)'
               PROVE  /\ r \notin resume'
                      /\ \A q \in Run : r \notin Returns(q)'
                      /\ \A s \in Run : r \in Claims(s)' => Drives(r)' /\ s = obj'[r]
    OBVIOUS
  <2>1. /\ Fresh(r) /\ (Drives(r) => Drives(r)' /\ obj'[r] = obj[r])
    OBVIOUS
  <2>2. /\ r \notin resume /\ \A q \in Run : r \notin Returns(q)
        /\ \A s \in Run : r \in Claims(s) => Drives(r) /\ s = obj[r]
    BY <2>1 DEF FilesInv, Fresh
  <2> QED
    BY <2>1, <2>2
<1> QED
  BY <1>1, <1>2, <1>3, <1>4, <1>5, <1>6 DEF FilesInv, Fresh

\* A new run takes a file over from the application.
LEMMA FileTaken ==
  ASSUME FilesInv, NEW r \in Run, NEW f, pc[r] = "idle", Fresh(r)', ~Drives(r)',
         f \in resume \/ f = None, resume' = resume \ {f},
         \A s \in Run : f \in Claims(s) => Claims(s)' = {},
         \A s \in Run \ {r} : /\ Claims(s)' \subseteq Claims(s)
                              /\ Fresh(s)' => Fresh(s) /\ (Drives(s) => Drives(s)')
                              /\ pc[s] = "persisting" => pc'[s] = "persisting",
         Claims(r)' = {f} \ {None},
         \A s \in Run : /\ Returns(s)' = Returns(s)
                        /\ Returns(s) # {} \/ Drives(s) => obj'[s] = obj[s]
                        /\ Claims(s)' # {} /\ Parked(s) => Parked(s)' /\ file'[s] = file[s]
  PROVE  FilesInv'
<1>1. \A s, q \in Run : s # q => Claims(s)' \cap Claims(q)' = {}
  BY DEF FilesInv
<1>2. \A q, p \in Run : q # p => Returns(q)' \cap Returns(p)' = {}
  BY DEF FilesInv
<1>3. \A q \in Run : Returns(q)' \cap resume' = {}
  BY DEF FilesInv
<1>4. \A s \in Run : \A g \in Claims(s)' \cap resume' : Parked(s)' /\ file'[s] = g
  <2> SUFFICES ASSUME NEW s \in Run, NEW g \in Claims(s)' \cap resume' PROVE Parked(s)' /\ file'[s] = g
    OBVIOUS
  <2>1. s # r /\ g \in Claims(s) /\ g \in resume
    OBVIOUS
  <2> QED
    BY <2>1 DEF FilesInv
<1>5. \A s, q \in Run : Claims(s)' \cap Returns(q)' # {} =>
        s = obj'[q] /\ Parked(s)' /\ pc'[q] = "persisting"
  <2> SUFFICES ASSUME NEW s \in Run, NEW q \in Run, NEW g \in Claims(s)', g \in Returns(q)'
               PROVE  s = obj'[q] /\ Parked(s)' /\ pc'[q] = "persisting"
    OBVIOUS
  <2>1. s # r
    BY DEF FilesInv
  <2>2. g \in Claims(s) /\ g \in Returns(q) /\ q # r
    BY <2>1 DEF Returns
  <2>3. s = obj[q] /\ Parked(s) /\ pc[q] = "persisting"
    BY <2>2 DEF FilesInv
  <2> QED
    BY <2>2, <2>3
<1>6. \A q \in Run : Fresh(q)' =>
        /\ q \notin resume'
        /\ \A p \in Run : q \notin Returns(p)'
        /\ \A s \in Run : q \in Claims(s)' => Drives(q)' /\ s = obj'[q]
  <2> SUFFICES ASSUME NEW q \in Run, Fresh(q)'
               PROVE  /\ q \notin resume'
                      /\ \A p \in Run : q \notin Returns(p)'
                      /\ \A s \in Run : q \in Claims(s)' => Drives(q)' /\ s = obj'[q]
    OBVIOUS
  <2>1. Fresh(q)
    BY DEF Fresh
  <2>2. /\ q \notin resume /\ \A p \in Run : q \notin Returns(p)
        /\ \A s \in Run : q \in Claims(s) => Drives(q) /\ s = obj[q]
    BY <2>1 DEF FilesInv, Fresh
  <2>3. q \notin Claims(r)'
    BY <2>2
  <2>4. ~Drives(r)
    BY DEF Drives
  <2> QED
    BY <2>2, <2>3, <2>4
<1> QED
  BY <1>1, <1>2, <1>3, <1>4, <1>5, <1>6 DEF FilesInv, Fresh

\* The driver lets go of its session, which is parked or ends, as others may.
LEMMA FileLet ==
  ASSUME SessionInv, SessionAssumption, NEW r \in Run, NEW Q, Drives(r),
         pc'[r] \in {"persisting", "stopping", "leaving"},
         \A q \in Run \ {r} : pc'[q] = pc[q],
         UNCHANGED <<obj, resume, want, file>>,
         \A q \in Run : /\ q \in Q => phase[q] = "live" /\ phase'[q] \notin {"dirs", "load", "live"}
                        /\ q \notin Q => phase'[q] = phase[q]
                        /\ Parked(q) => q \in Q \/ Parked(q)',
         obj[r] \in Q \/ (pc'[r] = "persisting" /\ Parked(obj[r])')
  PROVE  FilesInv'
<1> DEFINE s == obj[r]
           f == file[s]
<1>1. /\ FilesInv /\ DriverInv /\ s \in Run /\ phase[s] = "live" /\ ~Parked(s)
      /\ f # None => f \in Claims(s)
  BY NoEntry DEF SessionInv, Claims
<1>2. \A q \in Run : Claims(q)' = IF q \in Q THEN {} ELSE Claims(q)
  <2> SUFFICES ASSUME NEW q \in Run PROVE Claims(q)' = IF q \in Q THEN {} ELSE Claims(q)
    OBVIOUS
  <2>1. pc'[q] = "displacing" <=> pc[q] = "displacing"
    BY DEF Drives
  <2>2. q \in Q => pc[q] # "displacing"
    BY DEF SessionInv, PlaceInv
  <2> QED
    BY <2>1, <2>2 DEF Claims
<1>3. /\ \A q \in Run \ {r} : Returns(q)' = Returns(q)
      /\ Returns(r)' \subseteq {f} \ {None}
  BY DEF Returns
<1>4. f # None => /\ f \notin resume /\ \A q \in Run : f \notin Returns(q)
                  /\ \A q \in Run : f \in Claims(q) => q = s
  BY <1>1 DEF FilesInv
<1> HIDE DEF f
<1>5. \A q, p \in Run : q # p => Claims(q)' \cap Claims(p)' = {}
  BY <1>1, <1>2 DEF FilesInv
<1>6. \A q, p \in Run : q # p => Returns(q)' \cap Returns(p)' = {}
  BY <1>1, <1>3, <1>4 DEF FilesInv
<1>7. \A q \in Run : Returns(q)' \cap resume' = {}
  BY <1>1, <1>3, <1>4 DEF FilesInv
<1>8. \A q \in Run : \A g \in Claims(q)' \cap resume' : Parked(q)' /\ file'[q] = g
  BY <1>1, <1>2 DEF FilesInv
<1>9. \A q, p \in Run : Claims(q)' \cap Returns(p)' # {} =>
        q = obj'[p] /\ Parked(q)' /\ pc'[p] = "persisting"
  <2> SUFFICES ASSUME NEW q \in Run, NEW p \in Run, NEW g \in Claims(q)', g \in Returns(p)'
               PROVE  q = obj'[p] /\ Parked(q)' /\ pc'[p] = "persisting"
    OBVIOUS
  <2>1. q \notin Q /\ g \in Claims(q)
    BY <1>2
  <2>2. CASE p = r
    BY <1>3, <1>4, <2>1, <2>2
  <2>3. CASE p # r
    <3>1. g \in Returns(p) /\ q = obj[p] /\ Parked(q) /\ pc[p] = "persisting"
      BY <1>1, <1>3, <2>1, <2>3 DEF FilesInv
    <3> QED
      BY <2>1, <2>3, <3>1
  <2> QED
    BY <2>2, <2>3
<1>10. \A q \in Run : Fresh(q)' =>
         /\ q \notin resume'
         /\ \A p \in Run : q \notin Returns(p)'
         /\ \A p \in Run : q \in Claims(p)' => Drives(q)' /\ p = obj'[q]
  <2> SUFFICES ASSUME NEW q \in Run, Fresh(q)'
               PROVE  /\ q \notin resume'
                      /\ \A p \in Run : q \notin Returns(p)'
                      /\ \A p \in Run : q \in Claims(p)' => Drives(q)' /\ p = obj'[q]
    OBVIOUS
  <2>1. q # r /\ Fresh(q) /\ (Drives(q)' <=> Drives(q))
    BY DEF Fresh, Drives
  <2>2. /\ q \notin resume /\ \A p \in Run : q \notin Returns(p)
        /\ \A p \in Run : q \in Claims(p) => Drives(q) /\ p = obj[q]
    BY <1>1, <2>1 DEF FilesInv, Fresh
  <2>3. q # f \/ f = None
    BY <1>1, <2>1, <2>2 DEF DriverInv
  <2> QED
    BY <1>2, <1>3, <2>1, <2>2, <2>3
<1> QED
  BY <1>5, <1>6, <1>7, <1>8, <1>9, <1>10 DEF FilesInv, Fresh

\* A run hands its file back to the application.
LEMMA FileGiven ==
  ASSUME FilesInv, NEW r \in Run, pc[r] \in {"persisting", "stopping"}, pc'[r] = "done",
         \A q \in Run \ {r} : pc'[q] = pc[q],
         UNCHANGED <<obj, phase, want, file, parked>>, resume' = resume \cup Returns(r)
  PROVE  FilesInv'
<1>1. \A q \in Run : Claims(q)' = Claims(q) /\ Parked(q)' = Parked(q)
  BY DEF Claims, Parked
<1>2. (\A q \in Run \ {r} : Returns(q)' = Returns(q)) /\ Returns(r)' = {}
  BY DEF Returns
<1>3. \A g \in Returns(r) : g = file[obj[r]]
  BY DEF Returns
<1>4. \A q, p \in Run : q # p => Claims(q)' \cap Claims(p)' = {}
  BY <1>1 DEF FilesInv
<1>5. \A q, p \in Run : q # p => Returns(q)' \cap Returns(p)' = {}
  BY <1>2 DEF FilesInv
<1>6. \A q \in Run : Returns(q)' \cap resume' = {}
  BY <1>2 DEF FilesInv
<1>7. \A q \in Run : \A g \in Claims(q)' \cap resume' : Parked(q)' /\ file'[q] = g
  <2> SUFFICES ASSUME NEW q \in Run, NEW g \in Claims(q) \cap resume' PROVE Parked(q) /\ file[q] = g
    BY <1>1
  <2>1. CASE g \in resume
    BY <2>1 DEF FilesInv
  <2>2. CASE g \in Returns(r)
    BY <1>3, <2>2 DEF FilesInv
  <2> QED
    BY <2>1, <2>2
<1>8. \A q, p \in Run : Claims(q)' \cap Returns(p)' # {} =>
        q = obj'[p] /\ Parked(q)' /\ pc'[p] = "persisting"
  BY <1>1, <1>2 DEF FilesInv
<1>9. \A q \in Run : Fresh(q)' => Fresh(q) /\ (Drives(q)' <=> Drives(q))
  BY DEF Fresh, Drives
<1>10. \A q \in Run : Fresh(q)' =>
         /\ q \notin resume'
         /\ \A p \in Run : q \notin Returns(p)'
         /\ \A p \in Run : q \in Claims(p)' => Drives(q)' /\ p = obj'[q]
  BY <1>1, <1>2, <1>9 DEF FilesInv, Fresh
<1> QED
  BY <1>4, <1>5, <1>6, <1>7, <1>8, <1>10 DEF FilesInv, Fresh

LEMMA FilesStep ==
  ASSUME SessionInv, SessionAssumption, NEW r \in Run, StepOf(r), TypeOK',
         \A q \in Run : PlaceInv(q)' /\ FileInv(q)'
  PROVE  FilesInv'
<1>0. /\ TypeOK /\ None \notin Run /\ DriverInv /\ ParkedInv /\ FilesInv
      /\ \A q \in Run : PlaceInv(q) /\ FileInv(q)
      /\ \A i \in DOMAIN parked :
           /\ parked[i][1] \in Run /\ parked[i][2] \in Run
           /\ phase[parked[i][2]] = "live" /\ file[parked[i][2]] = parked[i][1]
  BY DEF SessionInv, SessionAssumption, ParkedInv, TypeOK
\* Steps that leave the sessions and the files in the hands that have them.
<1>k. ASSUME UNCHANGED <<want, file, parked, resume>>,
             \A s \in Run :
               /\ \/ phase'[s] \notin {"dirs", "load", "live"} /\ pc'[s] # "displacing"
                  \/ phase[s] \in {"dirs", "load", "live"} \/ pc[s] = "displacing"
               /\ pc'[s] \in {"persisting", "stopping"} => pc'[s] = pc[s]
               /\ pc[s] \in {"persisting", "stopping"} => obj'[s] = obj[s]
               /\ Returns(s) # {} /\ pc[s] = "persisting" => pc'[s] = "persisting"
               /\ Fresh(s)' => Fresh(s) /\ (Drives(s) => Drives(s)' /\ obj'[s] = obj[s])
      PROVE  FilesInv'
  <2>1. \A s \in Run : Claims(s)' \subseteq Claims(s) /\ Parked(s)' = Parked(s)
    BY <1>k DEF Claims, Parked
  <2>2. \A s \in Run : Returns(s)' \subseteq Returns(s)
    BY <1>k DEF Returns
  <2>3. \A s \in Run : Returns(s)' # {} /\ pc[s] = "persisting" =>
                         pc'[s] = "persisting" /\ obj'[s] = obj[s]
    BY <1>k, <2>2
  <2>4. resume' \subseteq resume
    BY <1>k
  <2> QED
    BY <1>0, <1>k, <2>1, <2>2, <2>3, <2>4, FilesKept
<1>1. CASE \/ Continue(r) \/ \E t \in Run : TurnEnds(r, t)
           \/ \E t \in Run, kind \in {"result", "approval"} : Calls(r, t, kind)
           \/ \E t \in Run, kind \in {"result", "approval"} : Answers(r, <<t, kind>>)
  <2>1. Quiet
    BY <1>0, <1>1, QuietSteps
  <2> QED
    BY <1>k, <2>1 DEF Quiet, Drives, Fresh
<1>2. ASSUME NEW f \in Run \cup {None}, StartCold(r, f) PROVE FilesInv'
  <2>1. /\ pc[r] = "idle" /\ phase[r] = "none" /\ file[r] = None
        /\ f \in resume \cup {None} /\ resume' = resume \ {f}
        /\ \A i \in DOMAIN parked : parked[i][1] # f
        /\ pc' = [pc EXCEPT ![r] = "starting"] /\ phase' = [phase EXCEPT ![r] = "dirs"]
        /\ want' = [want EXCEPT ![r] = f] /\ obj' = [obj EXCEPT ![r] = r]
        /\ UNCHANGED <<file, parked>>
    BY <1>0, <1>2 DEF StartCold, CanStart, Acquire, PlaceInv, FileInv
  <2>2. \A s \in Run : f \notin Claims(s)
    <3> SUFFICES ASSUME NEW s \in Run, f \in Claims(s) PROVE FALSE
      OBVIOUS
    <3>1. f \in resume
      BY <2>1 DEF Claims
    <3>2. Parked(s) /\ file[s] = f
      BY <1>0, <3>1 DEF FilesInv
    <3> QED
      BY <1>0, <2>1, <3>2 DEF Parked
  <2>3. \A s \in Run \ {r} : /\ Claims(s)' = Claims(s) /\ pc'[s] = pc[s]
                             /\ Fresh(s)' = Fresh(s) /\ Drives(s)' = Drives(s)
    BY <1>0, <2>1 DEF Claims, Fresh, Drives, TypeOK
  <2>4. Claims(r)' = {f} \ {None} /\ Fresh(r)' /\ ~Drives(r)' /\ ~Drives(r)
    BY <1>0, <2>1 DEF Claims, Fresh, Drives, TypeOK
  <2>5. \A s \in Run : /\ Returns(s)' = Returns(s) /\ (s # r => obj'[s] = obj[s]) /\ Parked(s)' = Parked(s)
                       /\ (s = r => Returns(s) = {})
    BY <1>0, <2>1 DEF Returns, Parked, TypeOK
  <2> QED
    BY <1>0, <2>1, <2>2, <2>3, <2>4, <2>5, FileTaken
<1>3. ASSUME NEW i \in DOMAIN parked, TakeParked(r, i) PROVE FilesInv'
  <2> DEFINE u == parked[i][2]
             f == parked[i][1]
  <2>1. /\ pc[r] = "idle" /\ pc' = [pc EXCEPT ![r] = "driving"] /\ obj' = [obj EXCEPT ![r] = u]
        /\ f \in resume /\ resume' = resume \ {f} /\ parked' = Unparked(f)
        /\ UNCHANGED <<phase, want, file>>
    BY <1>3 DEF TakeParked, CanStart
  <2>2. u \in Run /\ file[u] = f /\ phase[u] = "live" /\ f \in Run
    BY <1>0
  <2>3. \A q \in Run : Parked(q)' <=> Parked(q) /\ q # u
    BY <1>0, <2>1, TakenEffect
  <2> HIDE DEF u, f
  <2>4. \A s \in Run : /\ Claims(s)' = Claims(s) /\ Returns(s)' = Returns(s)
                       /\ s # r => obj'[s] = obj[s] /\ pc'[s] = pc[s]
    BY <1>0, <2>1 DEF Claims, Returns, TypeOK
  <2>5. \A q, p \in Run : q # p => Claims(q)' \cap Claims(p)' = {} /\ Returns(q)' \cap Returns(p)' = {}
    BY <1>0, <2>4 DEF FilesInv
  <2>6. \A q \in Run : Returns(q)' \cap resume' = {}
    BY <1>0, <2>1, <2>4 DEF FilesInv
  <2>7. \A q \in Run : \A g \in Claims(q)' \cap resume' : Parked(q)' /\ file'[q] = g
    <3> SUFFICES ASSUME NEW q \in Run, NEW g \in Claims(q) \cap resume, g # f
                 PROVE  Parked(q)' /\ file'[q] = g
      BY <2>1, <2>4
    <3>1. Parked(q) /\ file[q] = g
      BY <1>0 DEF FilesInv
    <3> QED
      BY <2>1, <2>2, <2>3, <3>1
  <2>8. \A q, p \in Run : Claims(q)' \cap Returns(p)' # {} =>
          q = obj'[p] /\ Parked(q)' /\ pc'[p] = "persisting"
    <3> SUFFICES ASSUME NEW q \in Run, NEW p \in Run, NEW g \in Claims(q), g \in Returns(p)
                 PROVE  q = obj'[p] /\ Parked(q)' /\ pc'[p] = "persisting"
      BY <2>4
    <3>1. q = obj[p] /\ Parked(q) /\ pc[p] = "persisting" /\ g = file[q]
      BY <1>0 DEF FilesInv, Returns
    <3>2. q # u
      BY <1>0, <2>1, <2>2, <3>1 DEF FilesInv
    <3>3. p # r
      BY <2>1, <3>1
    <3> QED
      BY <2>3, <2>4, <3>1, <3>2, <3>3
  <2>9. \A q \in Run : /\ Fresh(q)' = Fresh(q)
                       /\ Drives(q) => q # r /\ Drives(q)'
    BY <1>0, <2>1, <2>4 DEF Fresh, Drives, TypeOK
  <2>10. \A q \in Run : Fresh(q)' =>
           /\ q \notin resume'
           /\ \A p \in Run : q \notin Returns(p)'
           /\ \A p \in Run : q \in Claims(p)' => Drives(q)' /\ p = obj'[q]
    BY <1>0, <2>1, <2>4, <2>9 DEF FilesInv, Fresh
  <2> QED
    BY <2>5, <2>6, <2>7, <2>8, <2>10 DEF FilesInv, Fresh
<1>4. ASSUME NEW i \in DOMAIN parked, Displace(r, i) PROVE FilesInv'
  <2> DEFINE u == parked[i][2]
             f == parked[i][1]
  <2>1. /\ pc[r] = "idle" /\ pc' = [pc EXCEPT ![r] = "displacing"] /\ obj' = [obj EXCEPT ![r] = u]
        /\ f \in resume /\ resume' = resume \ {f} /\ parked' = Unparked(f)
        /\ want' = [want EXCEPT ![r] = f] /\ file' = file
        /\ \A q \in Run : phase'[q] = IF q = u THEN "shutdown" ELSE phase[q]
    BY <1>4 DEF Displace, CanStart, Stopped
  <2>2. u \in Run /\ file[u] = f /\ phase[u] = "live" /\ f \in Run
    BY <1>0
  <2>3. \A q \in Run : Parked(q)' <=> Parked(q) /\ q # u
    BY <1>0, <2>1, TakenEffect
  <2> HIDE DEF u, f
  <2>4. phase[r] = "none" /\ file[r] = None /\ r # u /\ pc[u] # "displacing"
    BY <1>0, <2>1, <2>2 DEF PlaceInv, FileInv
  <2>5. \A s \in Run \ {r} : /\ Claims(s)' = IF s = u THEN {} ELSE Claims(s)
                             /\ pc'[s] = pc[s] /\ obj'[s] = obj[s]
                             /\ Fresh(s)' = Fresh(s) /\ Drives(s)' = Drives(s)
    BY <1>0, <2>1, <2>4 DEF Claims, Fresh, Drives, TypeOK
  <2>6. Claims(r)' = {f} \ {None} /\ Fresh(r)' /\ ~Drives(r)' /\ ~Drives(r) /\ Claims(r) = {}
    BY <1>0, <2>1, <2>4 DEF Claims, Fresh, Drives, TypeOK
  <2>7. \A s \in Run : Returns(s)' = Returns(s) /\ (s = r => Returns(s) = {})
    BY <1>0, <2>1 DEF Returns, TypeOK
  <2>8. \A s \in Run : f \in Claims(s) => s = u
    <3>1. f \in Claims(u)
      BY <1>0, <2>2 DEF Claims
    <3> QED
      BY <1>0, <2>2, <3>1 DEF FilesInv
  <2>9. \A s \in Run : f \in Claims(s) => Claims(s)' = {}
    BY <2>4, <2>5, <2>8
  <2>10. \A s \in Run : Claims(s)' # {} /\ Parked(s) => Parked(s)' /\ file'[s] = file[s]
    <3> SUFFICES ASSUME NEW s \in Run, Claims(s)' # {}, Parked(s) PROVE s # u
      BY <2>1, <2>3
    <3> QED
      BY <2>4, <2>5
  <2>11. f \in resume /\ (\A s \in Run : Returns(s) # {} \/ Drives(s) => obj'[s] = obj[s])
    BY <2>1, <2>5, <2>6, <2>7
  <2>12. pc[r] = "idle" /\ resume' = resume \ {f}
    BY <2>1
  <2>13. \A s \in Run \ {r} : /\ Claims(s)' \subseteq Claims(s)
                              /\ Fresh(s)' => Fresh(s) /\ (Drives(s) => Drives(s)')
                              /\ pc[s] = "persisting" => pc'[s] = "persisting"
    BY <2>5
  <2> QED
    BY <1>0, <2>6, <2>7, <2>9, <2>10, <2>11, <2>12, <2>13, FileTaken
<1>5. CASE Displaced(r)
  <2>1. /\ pc[r] = "displacing" /\ pc' = [pc EXCEPT ![r] = "starting"]
        /\ phase' = [phase EXCEPT ![r] = "dirs"] /\ obj' = [obj EXCEPT ![r] = r]
        /\ want' = [want EXCEPT ![r] = want[r]] /\ UNCHANGED <<file, parked, resume>>
    BY <1>5 DEF Displaced, Acquire
  <2>2. want' = want
    BY <1>0, <2>1 DEF TypeOK
  <2> QED
    BY <1>0, <1>k, <2>1, <2>2 DEF TypeOK, Drives, Fresh
<1>6. CASE Mount(r)
  BY <1>0, <1>k, <1>6 DEF Mount, TypeOK, Drives, Fresh
<1>7. CASE Loaded(r)
  BY <1>0, <1>k, <1>7 DEF Loaded, PlaceInv, TypeOK, Drives, Fresh
<1>8. CASE SetupFails(r)
  <2>1. /\ pc[r] = "starting" /\ pc' = [pc EXCEPT ![r] = "leaving"]
        /\ \E p \in {"removing", "closed"} : phase' = [phase EXCEPT ![r] = p]
        /\ UNCHANGED <<obj, want, file, parked, resume>>
    BY <1>0, <1>8 DEF SetupFails, Release, PlaceInv
  <2> QED
    BY <1>0, <1>k, <2>1 DEF TypeOK, Drives, Fresh
<1>9. CASE Prompt(r)
  BY <1>0, <1>k, <1>9 DEF Prompt, TypeOK, Drives, Fresh
<1>10. CASE Suspends(r)
  <2>1. /\ pc[r] = "driving" /\ pc' = [pc EXCEPT ![r] = "aborting"]
        /\ UNCHANGED <<obj, phase, want, file, parked, resume>>
    BY <1>10 DEF Suspends
  <2> QED
    BY <1>0, <1>k, <2>1 DEF TypeOK, Drives, Fresh
<1>11. CASE Starts(r)
  <2> DEFINE s == obj[r]
  <2>1. /\ pc[r] = "preparing" /\ pc' = [pc EXCEPT ![r] = "driving"]
        /\ UNCHANGED <<obj, phase, want, parked, resume>> /\ Drives(r)
        /\ \/ file' = file
           \/ /\ s \in pulled /\ file' = [file EXCEPT ![s] = want[s]]
           \/ file' = [file EXCEPT ![s] = r]
    BY <1>11 DEF Starts, Drives
  <2>2. s \in Run /\ phase[s] = "live" /\ ~Parked(s) /\ (s \in pulled => want[s] \in Run)
    BY <1>0, <2>1 DEF DriverInv, PlaceInv, FileInv
  <2>3. \A q \in Run : Returns(q) # {} => obj[q] # s
    <3> SUFFICES ASSUME NEW q \in Run, Returns(q) # {}, obj[q] = s PROVE FALSE
      OBVIOUS
    <3>1. file[s] \in Returns(q) /\ file[s] # None
      BY DEF Returns
    <3>2. file[s] \in Claims(s)
      BY <2>2, <3>1 DEF Claims
    <3>3. Parked(s)
      BY <1>0, <2>2, <3>1, <3>2 DEF FilesInv
    <3> QED
      BY <2>2, <3>3
  <2>4. \A q \in Run : /\ q # s => file'[q] = file[q]
                       /\ pc'[q] \in {"persisting", "stopping"} <=> pc[q] \in {"persisting", "stopping"}
                       /\ pc'[q] = "persisting" <=> pc[q] = "persisting"
                       /\ Fresh(q)' = Fresh(q) /\ Drives(q)' = Drives(q)
                       /\ pc'[q] = "displacing" <=> pc[q] = "displacing"
                       /\ Parked(q)' = Parked(q)
    BY <1>0, <2>1 DEF TypeOK, Fresh, Drives, Parked
  <2>5. \A q \in Run : Returns(q)' = Returns(q)
    <3> SUFFICES ASSUME NEW q \in Run PROVE Returns(q)' = Returns(q)
      OBVIOUS
    <3>1. CASE pc[q] \notin {"persisting", "stopping"}
      BY <2>4, <3>1 DEF Returns
    <3>2. CASE pc[q] \in {"persisting", "stopping"}
      <4>1. obj[q] # s
        <5>1. CASE pc[q] = "persisting"
          <6>1. file[obj[q]] # None
            BY <1>0, <5>1 DEF PlaceInv
          <6> QED
            BY <2>3, <5>1, <6>1 DEF Returns
        <5>2. CASE pc[q] = "stopping"
          BY <1>0, <2>2, <5>2 DEF PlaceInv, Over
        <5> QED
          BY <3>2, <5>1, <5>2
      <4>2. obj[q] \in Run /\ file'[obj[q]] = file[obj[q]]
        BY <1>0, <2>4, <3>2, <4>1 DEF PlaceInv
      <4> QED
        BY <2>1, <2>4, <3>2, <4>2 DEF Returns
    <3> QED
      BY <3>1, <3>2
  <2>6. \A q \in Run \ {s} : Claims(q)' = Claims(q)
    BY <2>1, <2>4 DEF Claims
  <2>7. CASE file' = file \/ (s \in pulled /\ file' = [file EXCEPT ![s] = want[s]])
    <3>1. Claims(s)' \subseteq Claims(s)
      BY <1>0, <2>1, <2>2, <2>4, <2>7 DEF Claims, TypeOK
    <3>2. \A q \in Run : Parked(q) => q # s
      BY <2>2
    <3> QED
      BY <1>0, <2>1, <2>4, <2>5, <2>6, <3>1, <3>2, FilesKept
  <2>8. CASE file' = [file EXCEPT ![s] = r]
    <3>1. \A q \in Run : q = s => Claims(q)' \subseteq Claims(q) \cup {r}
      BY <1>0, <2>1, <2>2, <2>4, <2>8 DEF Claims, TypeOK
    <3>2. /\ r \notin resume /\ \A q \in Run : r \notin Returns(q)
          /\ \A q \in Run : r \in Claims(q) => q = s
      BY <1>0, <2>1 DEF FilesInv
    <3> HIDE DEF s
    <3>3. \A q, p \in Run : q # p => Claims(q)' \cap Claims(p)' = {}
      BY <1>0, <2>6, <3>1, <3>2 DEF FilesInv
    <3>4. \A q, p \in Run : q # p => Returns(q)' \cap Returns(p)' = {}
      BY <1>0, <2>5 DEF FilesInv
    <3>5. \A q \in Run : Returns(q)' \cap resume' = {}
      BY <1>0, <2>1, <2>5 DEF FilesInv
    <3>6. \A q \in Run : \A g \in Claims(q)' \cap resume' : Parked(q)' /\ file'[q] = g
      <4> SUFFICES ASSUME NEW q \in Run, NEW g \in Claims(q)' \cap resume' PROVE Parked(q)' /\ file'[q] = g
        OBVIOUS
      <4>1. g \in Claims(q) /\ g \in resume
        BY <2>1, <2>6, <3>1, <3>2
      <4>2. Parked(q) /\ file[q] = g
        BY <1>0, <4>1 DEF FilesInv
      <4> QED
        BY <2>2, <2>4, <4>2
    <3>7. \A q, p \in Run : Claims(q)' \cap Returns(p)' # {} =>
            q = obj'[p] /\ Parked(q)' /\ pc'[p] = "persisting"
      <4> SUFFICES ASSUME NEW q \in Run, NEW p \in Run, NEW g \in Claims(q)', g \in Returns(p)'
                   PROVE  q = obj'[p] /\ Parked(q)' /\ pc'[p] = "persisting"
        OBVIOUS
      <4>1. g \in Claims(q) /\ g \in Returns(p)
        BY <2>5, <2>6, <3>1, <3>2
      <4>2. q = obj[p] /\ Parked(q) /\ pc[p] = "persisting"
        BY <1>0, <4>1 DEF FilesInv
      <4> QED
        BY <2>1, <2>4, <4>2
    <3>8. \A q \in Run : Fresh(q)' =>
            /\ q \notin resume'
            /\ \A p \in Run : q \notin Returns(p)'
            /\ \A p \in Run : q \in Claims(p)' => Drives(q)' /\ p = obj'[q]
      <4> SUFFICES ASSUME NEW q \in Run, Fresh(q)
                   PROVE  /\ q \notin resume
                          /\ \A p \in Run : q \notin Returns(p)
                          /\ \A p \in Run : q \in Claims(p)' => Drives(q) /\ p = obj[q]
        BY <2>1, <2>4, <2>5
      <4>1. /\ q \notin resume
            /\ \A p \in Run : q \notin Returns(p)
            /\ \A p \in Run : q \in Claims(p) => Drives(q) /\ p = obj[q]
        BY <1>0 DEF FilesInv, Fresh
      <4>2. \A p \in Run : q \in Claims(p)' => q \in Claims(p) \/ (p = s /\ q = r)
        BY <2>6, <3>1
      <4> QED
        BY <2>1, <4>1, <4>2 DEF s
    <3> QED
      BY <3>3, <3>4, <3>5, <3>6, <3>7, <3>8 DEF FilesInv, Fresh
  <2> QED
    BY <2>1, <2>7, <2>8
<1>12. CASE StartFails(r)
  BY <1>0, <1>k, <1>12 DEF StartFails, TypeOK, Drives, Fresh
<1>13. CASE Parks(r)
  <2> DEFINE s == obj[r]
  <2>1. /\ pc[r] = "driving" /\ (active[s] # None \/ pending[s] # {}) /\ Park(s)
        /\ pc' = [pc EXCEPT ![r] = "persisting"]
        /\ UNCHANGED <<obj, want, file, resume>>
    BY <1>13 DEF Parks, Live, Waits
  <2>2. s \in Run /\ file[s] # None /\ Drives(r) /\ phase[s] = "live"
    BY <1>0, <2>1 DEF FileInv, PlaceInv, Drives
  <2>3. PICK Q \in SUBSET Run :
          /\ StoppedFrom(Q, "shutdown")
          /\ s \in Q \/ Parked(s)'
          /\ \A q \in Run : Parked(q) => q \in Q \/ Parked(q)'
          /\ \A q \in Q : q = s \/ Parked(q)
    BY <2>1, <2>2, ParkEffect, NoEntry DEF SessionInv
  <2>4. \A q \in Run : /\ q \in Q => phase[q] = "live" /\ phase'[q] \notin {"dirs", "load", "live"}
                       /\ q \notin Q => phase'[q] = phase[q]
    BY <1>0, <2>2, <2>3 DEF StoppedFrom, Parked
  <2>5. pc'[r] = "persisting" /\ \A q \in Run \ {r} : pc'[q] = pc[q]
    BY <1>0, <2>1 DEF TypeOK
  <2> QED
    BY <2>1, <2>2, <2>3, <2>4, <2>5, FileLet
<1>14. CASE ParkPersisted(r)
  <2>1. /\ pc[r] = "persisting" /\ pc' = [pc EXCEPT ![r] = "done"]
        /\ UNCHANGED <<obj, phase, want, file, parked>>
        /\ resume' = resume \cup ({file[obj[r]]} \ {None})
    BY <1>14 DEF ParkPersisted
  <2>2. resume' = resume \cup Returns(r)
    BY <2>1 DEF Returns
  <2>3. pc'[r] = "done" /\ \A q \in Run \ {r} : pc'[q] = pc[q]
    BY <1>0, <2>1 DEF TypeOK
  <2> QED
    BY <1>0, <2>1, <2>2, <2>3, FileGiven
<1>15. CASE Ends(r)
  <2> DEFINE s == obj[r]
  <2>1. /\ Drives(r) /\ s \in Run /\ phase[s] = "live"
        /\ \E p \in {"persist", "shutdown"} : phase' = [phase EXCEPT ![s] = p]
        /\ \E p \in {"stopping", "leaving"} : pc' = [pc EXCEPT ![r] = p]
        /\ UNCHANGED <<obj, resume, identity, file, parked>>
    BY <1>15, EndEffect
  <2>2. pc'[r] \in {"stopping", "leaving"} /\ \A q \in Run \ {r} : pc'[q] = pc[q]
    BY <1>0, <2>1 DEF TypeOK
  <2>3. \A q \in Run : /\ q \in {s} => phase[q] = "live" /\ phase'[q] \notin {"dirs", "load", "live"}
                       /\ q \notin {s} => phase'[q] = phase[q]
                       /\ Parked(q)' = Parked(q)
    BY <1>0, <2>1 DEF TypeOK, Parked
  <2> QED
    BY <2>1, <2>2, <2>3, FileLet
<1>16. CASE Persisted(r) \/ ShutDown(r) \/ RootRemoved(r)
  <2>1. /\ phase[r] \in {"persist", "shutdown", "removing"}
        /\ \E p \in {"shutdown", "removing", "closed"} : phase' = [phase EXCEPT ![r] = p]
        /\ UNCHANGED <<driver, identity, file, parked>>
    BY <1>0, <1>16, TeardownEffect
  <2> QED
    BY <1>0, <1>k, <2>1 DEF TypeOK, Drives, Fresh
<1>17. CASE Leaves(r)
  <2>1. /\ pc[r] \in {"stopping", "leaving"} /\ pc' = [pc EXCEPT ![r] = "done"]
        /\ UNCHANGED <<obj, phase, want, file, parked>>
        /\ resume' = IF pc[r] = "stopping" THEN resume \cup ({file[obj[r]]} \ {None}) ELSE resume
    BY <1>17 DEF Leaves
  <2>2. pc'[r] = "done" /\ \A q \in Run \ {r} : pc'[q] = pc[q]
    BY <1>0, <2>1 DEF TypeOK
  <2>3. CASE pc[r] = "stopping"
    <3>1. resume' = resume \cup Returns(r)
      BY <2>1, <2>3 DEF Returns
    <3> QED
      BY <1>0, <2>1, <2>2, <2>3, <3>1, FileGiven
  <2>4. CASE pc[r] = "leaving"
    BY <1>0, <1>k, <2>1, <2>2, <2>4 DEF Drives, Fresh
  <2> QED
    BY <2>1, <2>3, <2>4
<1> QED
  BY <1>1, <1>2, <1>3, <1>4, <1>5, <1>6, <1>7, <1>8, <1>9, <1>10, <1>11, <1>12, <1>13, <1>14, <1>15, <1>16, <1>17
  DEF StepOf, Advance, Ends

-----------------------------------------------------------------------------
(* What sessions hold is counted. *)

Held == {s \in Run : Holding(s)}

HeldPhases == {"dirs", "load", "live", "persist", "shutdown"}
MountPhases == {"load", "live", "persist", "shutdown"}

LEMMA CountKept ==
  ASSUME CountInv, UNCHANGED <<leases, tree, mounts, mounted>>,
         \A s \in Run : /\ phase'[s] \in HeldPhases <=> phase[s] \in HeldPhases
                        /\ phase'[s] \in MountPhases <=> phase[s] \in MountPhases
                        /\ phase[s] = "removing" => phase'[s] = "removing"
  PROVE  CountInv'
<1>1. {s \in Run : Holding(s)}' = {s \in Run : Holding(s)}
  BY DEF Holding, HeldPhases
<1>2. \A s \in Run : Holding(s)' = Holding(s)
  BY DEF Holding, HeldPhases
<1> QED
  BY <1>1, <1>2 DEF CountInv, MountPhases

LEMMA CountAcquired ==
  ASSUME CountInv, SessionAssumption, phase \in [Run -> Phase], NEW r \in Run, phase[r] = "none",
         phase' = [phase EXCEPT ![r] = "dirs"], leases' = leases + 1, UNCHANGED <<tree, mounts, mounted>>
  PROVE  CountInv'
<1>1. Held' = Held \cup {r} /\ r \notin Held
  BY DEF Held, Holding
<1>2. IsFiniteSet(Held)
  BY FS_Subset DEF Held, SessionAssumption
<1>3. Cardinality(Held') = Cardinality(Held) + 1
  BY <1>1, <1>2, FS_AddElement
<1>4. \A s \in Run : /\ Holding(s) => Holding(s)'
                     /\ phase[s] = "removing" => phase'[s] = "removing"
                     /\ phase'[s] \in MountPhases <=> phase[s] \in MountPhases
  BY DEF Holding, MountPhases
<1> QED
  BY <1>3, <1>4 DEF CountInv, Held, MountPhases

\* A session gives back what it holds; without others the tree goes too.
LEMMA CountReleased ==
  ASSUME CountInv, SessionAssumption, phase \in [Run -> Phase], mounted \subseteq Run,
         NEW s \in Run, Holding(s), Release(s), tree' = tree
  PROVE  CountInv'
<1>1. PICK p \in {"removing", "closed"} :
        phase' = [phase EXCEPT ![s] = p] /\ p = (IF leases = 1 THEN "removing" ELSE "closed")
  BY DEF Release
<1>2. Held' = Held \ {s} /\ s \in Held
  BY <1>1 DEF Held, Holding
<1>3. IsFiniteSet(Held) /\ IsFiniteSet(mounted)
  BY FS_Subset DEF Held, SessionAssumption
<1>4. Cardinality(Held') = Cardinality(Held) - 1
  BY <1>2, <1>3, FS_RemoveElement
<1>5. leases' = Cardinality(Held')
  BY <1>4 DEF CountInv, Held, Release
<1>6. mounts' = Cardinality(mounted')
  <2>1. CASE s \in mounted
    BY <1>3, <2>1, FS_RemoveElement DEF CountInv, Release
  <2>2. CASE s \notin mounted
    <3>1. mounted' = mounted
      BY <2>2 DEF Release
    <3> QED
      BY <2>2, <3>1 DEF CountInv, Release
  <2> QED
    BY <2>1, <2>2
<1>7. \A q \in Run : q \in mounted' <=> phase'[q] \in {"load", "live", "persist", "shutdown"}
  BY <1>1 DEF CountInv, Release
<1>8. tree' => \E q \in Run : Holding(q)' \/ phase'[q] = "removing"
  <2>1. CASE leases = 1
    BY <1>1, <2>1
  <2>2. CASE leases # 1
    <3>1. Held \ {s} # {}
      <4>1. SUFFICES ASSUME Held = {s} PROVE FALSE
        BY <1>2
      <4>2. Cardinality({s}) = 1
        BY FS_Singleton
      <4> QED
        BY <2>2, <4>1, <4>2 DEF CountInv, Held
    <3>2. PICK q \in Held : q # s
      BY <3>1
    <3> QED
      BY <1>2, <3>2 DEF Held
  <2> QED
    BY <2>1, <2>2
<1> QED
  BY <1>5, <1>6, <1>7, <1>8 DEF CountInv, Held

LEMMA CountStep ==
  ASSUME SessionInv, SessionAssumption, NEW r \in Run, StepOf(r)
  PROVE  CountInv'
<1>0. /\ TypeOK /\ CountInv /\ phase \in [Run -> Phase] /\ \A q \in Run : PlaceInv(q)
      /\ \A i \in DOMAIN parked : parked[i][2] \in Run /\ phase[parked[i][2]] = "live"
  BY DEF SessionInv, ParkedInv, TypeOK
<1> USE DEF HeldPhases, MountPhases
<1>k. ASSUME UNCHANGED <<leases, tree, mounts, mounted>>, phase' = phase PROVE CountInv'
  BY <1>0, <1>k, CountKept
<1>1. CASE \/ Continue(r) \/ \E t \in Run : TurnEnds(r, t)
           \/ \E t \in Run, kind \in {"result", "approval"} : Calls(r, t, kind)
           \/ \E t \in Run, kind \in {"result", "approval"} : Answers(r, <<t, kind>>)
  <2>1. Quiet
    BY <1>0, <1>1, QuietSteps
  <2> QED
    BY <1>k, <2>1 DEF Quiet
<1>2. ASSUME NEW f \in Run \cup {None}, StartCold(r, f) PROVE CountInv'
  BY <1>0, <1>2, CountAcquired DEF StartCold, CanStart, Acquire, PlaceInv
<1>3. ASSUME NEW i \in DOMAIN parked, TakeParked(r, i) PROVE CountInv'
  BY <1>k, <1>3 DEF TakeParked
<1>4. ASSUME NEW i \in DOMAIN parked, Displace(r, i) PROVE CountInv'
  <2>1. /\ \A q \in Run : phase'[q] = IF q = parked[i][2] THEN "shutdown" ELSE phase[q]
        /\ UNCHANGED <<leases, tree, mounts, mounted>>
    BY <1>4 DEF Displace, Stopped
  <2> QED
    BY <1>0, <2>1, CountKept
<1>5. CASE Displaced(r)
  BY <1>0, <1>5, CountAcquired DEF Displaced, Acquire, PlaceInv
<1>6. CASE Mount(r)
  <2>1. /\ phase[r] = "dirs" /\ phase' = [phase EXCEPT ![r] = "load"]
        /\ mounted' = mounted \cup {r} /\ mounts' = mounts + 1 /\ leases' = leases
    BY <1>6 DEF Mount
  <2>2. r \notin mounted /\ IsFiniteSet(mounted)
    BY <1>0, <2>1, FS_Subset DEF CountInv, TypeOK, SessionAssumption
  <2>3. mounts' = Cardinality(mounted')
    BY <1>0, <2>1, <2>2, FS_AddElement DEF CountInv
  <2>4. Held' = Held /\ Holding(r)'
    BY <1>0, <2>1 DEF Held, Holding
  <2>5. \A q \in Run : q \in mounted' <=> phase'[q] \in {"load", "live", "persist", "shutdown"}
    BY <1>0, <2>1 DEF CountInv
  <2> QED
    BY <1>0, <2>1, <2>3, <2>4, <2>5 DEF CountInv, Held
<1>7. CASE Loaded(r)
  BY <1>0, <1>7, CountKept DEF Loaded
<1>8. CASE SetupFails(r)
  BY <1>0, <1>8, CountReleased DEF SetupFails, Holding, TypeOK
<1>9. CASE Prompt(r)
  BY <1>k, <1>9 DEF Prompt
<1>10. CASE Suspends(r)
  BY <1>k, <1>10 DEF Suspends
<1>11. CASE Starts(r)
  BY <1>k, <1>11 DEF Starts
<1>12. CASE StartFails(r)
  BY <1>k, <1>12 DEF StartFails
<1>13. CASE Parks(r)
  <2> DEFINE s == obj[r]
  <2>1. /\ pc[r] = "driving" /\ (active[s] # None \/ pending[s] # {}) /\ Park(s)
        /\ UNCHANGED <<leases, tree, mounts, mounted>>
    BY <1>13 DEF Parks, Live, Waits
  <2>2. s \in Run /\ file[s] # None /\ Drives(r) /\ phase[s] = "live"
    BY <1>0, <2>1 DEF SessionInv, FileInv, PlaceInv, Drives
  <2>3. PICK Q \in SUBSET Run : StoppedFrom(Q, "shutdown") /\ \A q \in Q : q = s \/ Parked(q)
    BY <2>1, <2>2, ParkEffect, NoEntry DEF SessionInv
  <2>4. \A q \in Run : /\ q \in Q => phase[q] = "live" /\ phase'[q] = "shutdown"
                       /\ q \notin Q => phase'[q] = phase[q]
    BY <1>0, <2>2, <2>3 DEF StoppedFrom, Parked
  <2> QED
    BY <1>0, <2>1, <2>4, CountKept
<1>14. CASE ParkPersisted(r)
  BY <1>k, <1>14 DEF ParkPersisted
<1>15. CASE Ends(r)
  <2> DEFINE s == obj[r]
  <2>1. /\ s \in Run /\ phase[s] = "live"
        /\ \E p \in {"persist", "shutdown"} : phase' = [phase EXCEPT ![s] = p]
        /\ UNCHANGED <<leases, tree, mounts, mounted>>
    BY <1>15, EndEffect
  <2>2. \A q \in Run : phase'[q] = phase[q]
                       \/ (phase[q] = "live" /\ phase'[q] \in {"persist", "shutdown"})
    BY <1>0, <2>1
  <2> QED
    BY <1>0, <2>1, <2>2, CountKept
<1>16. CASE Persisted(r)
  BY <1>0, <1>16, CountKept DEF Persisted
<1>17. CASE ShutDown(r)
  BY <1>0, <1>17, CountReleased DEF ShutDown, Holding, TypeOK
<1>18. CASE RootRemoved(r)
  <2>1. /\ phase[r] = "removing" /\ phase' = [phase EXCEPT ![r] = "closed"]
        /\ tree' = FALSE /\ UNCHANGED <<leases, mounts, mounted>>
    BY <1>18 DEF RootRemoved
  <2>2. Held' = Held
    BY <1>0, <2>1 DEF Held, Holding
  <2>3. \A q \in Run : q \in mounted' <=> phase'[q] \in {"load", "live", "persist", "shutdown"}
    BY <1>0, <2>1 DEF CountInv
  <2> QED
    BY <1>0, <2>1, <2>2, <2>3 DEF CountInv, Held
<1>19. CASE Leaves(r)
  BY <1>k, <1>19 DEF Leaves
<1> QED
  BY <1>1, <1>2, <1>3, <1>4, <1>5, <1>6, <1>7, <1>8, <1>9, <1>10, <1>11, <1>12, <1>13, <1>14, <1>15, <1>16, <1>17, <1>18, <1>19
  DEF StepOf, Advance, Ends

-----------------------------------------------------------------------------
(* The invariant, and what follows from it. *)

LEMMA SessionInit == ASSUME SessionAssumption, Init PROVE SessionInv
<1>1. /\ None \notin Run /\ MaxParked \in Nat /\ \A s \in Run : phase[s] = "none" /\ pc[s] = "idle"
      /\ parked = <<>> /\ mounted = {} /\ leases = 0 /\ mounts = 0 /\ tree = FALSE /\ resume = {}
      /\ want = [s \in Run |-> None] /\ file = [s \in Run |-> None]
  BY DEF SessionAssumption, Init
<1>2. TypeOK
  BY <1>1 DEF Init, TypeOK, Place, Phase, File
<1>3. \A r \in Run : PlaceInv(r) /\ FileInv(r)
  BY <1>1 DEF Init, PlaceInv, FileInv, Drives
<1>4. DriverInv
  BY <1>1 DEF DriverInv, Drives
<1>5. ParkedInv
  BY <1>1 DEF ParkedInv
<1>6. FilesInv
  <2>1. \A s \in Run : Claims(s) = {} /\ Returns(s) = {}
    BY <1>1 DEF Claims, Returns
  <2> QED
    BY <1>1, <2>1 DEF FilesInv
<1>7. CountInv
  <2>1. {s \in Run : Holding(s)} = {} /\ Cardinality({}) = 0
    BY <1>1, FS_EmptySet DEF Holding
  <2> QED
    BY <1>1, <2>1 DEF CountInv
<1> QED
  BY <1>2, <1>3, <1>4, <1>5, <1>6, <1>7 DEF SessionInv

LEMMA SessionStep == ASSUME SessionAssumption, SessionInv, [Next]_vars PROVE SessionInv'
<1>1. CASE UNCHANGED vars
  <2>1. \A r \in Run : (PlaceInv(r) <=> PlaceInv(r)') /\ (FileInv(r) <=> FileInv(r)')
    BY <1>1 DEF vars, PlaceInv, FileInv, Drives
  <2>2. TypeOK'
    BY <1>1 DEF vars, SessionInv, TypeOK
  <2>3. DriverInv' /\ ParkedInv'
    <3>1. \A s \in Run : Parked(s)' = Parked(s) /\ Drives(s)' = Drives(s)
      BY <1>1 DEF vars, Parked, Drives
    <3> QED
      BY <1>1, <3>1, HandsKept DEF vars, SessionInv, Drives
  <2>4. FilesInv'
    <3>1. \A s \in Run : Claims(s)' = Claims(s) /\ Returns(s)' = Returns(s) /\ Parked(s)' = Parked(s)
                         /\ Drives(s)' = Drives(s) /\ Fresh(s)' = Fresh(s)
      BY <1>1 DEF vars, Claims, Returns, Parked, Drives, Fresh
    <3> QED
      BY <1>1, <3>1, FilesKept DEF vars, SessionInv
  <2>5. CountInv'
    BY <1>1, CountKept DEF vars, SessionInv
  <2> QED
    BY <2>1, <2>2, <2>3, <2>4, <2>5 DEF SessionInv
<1>2. ASSUME NEW r \in Run, StepOf(r) PROVE SessionInv'
  <2>1. Drives(r) => \A i \in DOMAIN parked : parked[i][1] # file[obj[r]]
    BY NoEntry
  <2>2. TypeOK'
    BY <1>2, <2>1, TypeStep DEF SessionInv
  <2>3. \A q \in Run : PlaceInv(q)' /\ FileInv(q)'
    BY <1>2, PlaceStep
  <2> QED
    BY <1>2, <2>2, <2>3, HandsStep, FilesStep, CountStep DEF SessionInv
<1> QED
  BY <1>1, <1>2 DEF Next, StepOf

LEMMA SessionInvariant == Spec => []SessionInv
<1>1. Init => SessionInv
  BY SessionAssumption, SessionInit
<1>2. SessionInv /\ [Next]_vars => SessionInv'
  BY SessionAssumption, SessionStep
<1> QED
  BY <1>1, <1>2, PTL DEF Spec

\* Every request of a run, in whatever session it drives, fresh or handed over,
\* is admitted by the gate of that run (gateHolder.current).
THEOREM OwnGateOnly == Spec => []OwnGate
<1>1. SessionInv => OwnGate
  BY DEF SessionInv, PlaceInv, OwnGate
<1> QED
  BY <1>1, SessionInvariant, PTL

\* Leases, mounts and the tree agree with the sessions, and each live session is
\* driven by one run or parked under its journal file: somebody can end it.
THEOREM HeldWhileLive == Spec => []HeldIffLive
<1>1. ASSUME SessionInv, NEW s \in Run, phase[s] = "live"
      PROVE  Cardinality({r \in Run : Drives(r) /\ obj[r] = s}
                         \cup {i \in DOMAIN parked : parked[i][2] = s}) = 1
  <2> DEFINE D == {r \in Run : Drives(r) /\ obj[r] = s}
             P == {i \in DOMAIN parked : parked[i][2] = s}
  <2>1. \A r, q \in D : r = q
    BY <1>1 DEF SessionInv, DriverInv
  <2>2. \A i, j \in P : i = j
    BY <1>1 DEF SessionInv, ParkedInv
  <2>3. D = {} \/ P = {}
    BY <1>1 DEF SessionInv, DriverInv, Parked
  <2>4. D # {} \/ P # {}
    BY <1>1 DEF SessionInv, DriverInv, Parked
  <2> HIDE DEF D, P
  <2>5. \E x : D \cup P = {x}
    <3>1. CASE D # {}
      <4>1. PICK x \in D : TRUE
        BY <3>1
      <4>2. D \cup P = {x}
        BY <2>1, <2>3, <3>1, <4>1
      <4> QED
        BY <4>2
    <3>2. CASE P # {}
      <4>1. PICK x \in P : TRUE
        BY <3>2
      <4>2. D \cup P = {x}
        BY <2>2, <2>3, <3>2, <4>1
      <4> QED
        BY <4>2
    <3> QED
      BY <2>4, <3>1, <3>2
  <2>6. Cardinality(D \cup P) = 1
    BY <2>5, FS_Singleton
  <2> QED
    BY <2>6 DEF D, P
<1>2. SessionInv => HeldIffLive
  BY <1>1 DEF SessionInv, CountInv, ParkedInv, HeldIffLive
<1> QED
  BY <1>2, SessionInvariant, PTL

\* No journal file is written by two sessions at a time, whatever files the
\* application resumes from and in whatever order (sessionFileName).
OneWriter ==
  \A s, q \in Run : s # q /\ phase[s] = "live" /\ phase[q] = "live" /\ file[s] # None =>
    file[q] # file[s]

\* The journals of live sessions are different files: what one session has put
\* in its journal is not overwritten by another one that resumed from it.
THEOREM JournalsApart == Spec => []OneWriter
<1>1. SessionInv => OneWriter
  BY DEF SessionInv, FilesInv, Claims, OneWriter
<1> QED
  BY <1>1, SessionInvariant, PTL

-----------------------------------------------------------------------------
(* The tree, and the one way in which a session loses it. *)

\* A session takes its lease while the tree is being removed: the directory
\* entry is gone from hostRootLeases and rm has not ended.
LeaseDuringRemoval == (\E s \in Run : phase[s] = "removing") /\ leases' > leases

SetUp == {"load", "live"}

\* While the tree is being removed nobody holds a lease on it.
TreeInv ==
  /\ (\E s \in Run : phase[s] = "removing") => leases = 0
  /\ TreeKept

\* Sessions come up with the tree, their end is all that removes it, and only
\* the end of the last one begins that.
TreeEffect(r) ==
  /\ \A q \in Run : phase'[q] \in SetUp => phase[q] \in SetUp \/ tree'
  /\ tree' = tree \/ tree' \/ ((\E s \in Run : phase[s] = "removing") /\ leases' = leases)
  /\ \A q \in Run : phase'[q] = "removing" => phase[q] = "removing" \/ leases' = 0

LEMMA TreeStep ==
  ASSUME SessionInv, SessionAssumption, NEW r \in Run, StepOf(r)
  PROVE  TreeEffect(r)
<1>0. TypeOK /\ phase \in [Run -> Phase] /\ \A q \in Run : PlaceInv(q)
  BY DEF SessionInv, TypeOK
<1> USE DEF SetUp
<1>k. ASSUME UNCHANGED tree, phase' = phase PROVE TreeEffect(r)
  BY <1>k DEF TreeEffect
<1>e. ASSUME UNCHANGED tree, NEW s \in Run, NEW p \in {"dirs", "persist", "shutdown", "closed"},
             phase' = [phase EXCEPT ![s] = p]
      PROVE  TreeEffect(r)
  BY <1>0, <1>e DEF TreeEffect
<1>r. ASSUME Release(r), UNCHANGED tree PROVE TreeEffect(r)
  BY <1>0, <1>r DEF TreeEffect, Release
<1>1. CASE \/ Continue(r) \/ \E t \in Run : TurnEnds(r, t)
           \/ \E t \in Run, kind \in {"result", "approval"} : Calls(r, t, kind)
           \/ \E t \in Run, kind \in {"result", "approval"} : Answers(r, <<t, kind>>)
  <2>1. Quiet
    BY <1>0, <1>1, QuietSteps
  <2> QED
    BY <1>k, <2>1 DEF Quiet
<1>2. ASSUME NEW f \in Run \cup {None}, StartCold(r, f) PROVE TreeEffect(r)
  BY <1>e, <1>2 DEF StartCold, Acquire
<1>3. ASSUME NEW i \in DOMAIN parked, TakeParked(r, i) PROVE TreeEffect(r)
  BY <1>k, <1>3 DEF TakeParked
<1>4. ASSUME NEW i \in DOMAIN parked, Displace(r, i) PROVE TreeEffect(r)
  <2>1. /\ \A q \in Run : phase'[q] = IF q = parked[i][2] THEN "shutdown" ELSE phase[q]
        /\ tree' = tree
    BY <1>4 DEF Displace, Stopped
  <2> QED
    BY <2>1 DEF TreeEffect
<1>5. CASE Displaced(r)
  BY <1>e, <1>5 DEF Displaced, Acquire
<1>6. CASE Mount(r)
  BY <1>0, <1>6 DEF Mount, TreeEffect
<1>7. CASE Loaded(r)
  BY <1>0, <1>7 DEF Loaded, TreeEffect
<1>8. CASE SetupFails(r)
  BY <1>r, <1>8 DEF SetupFails
<1>9. CASE Prompt(r) \/ Suspends(r) \/ Starts(r) \/ StartFails(r)
  BY <1>k, <1>9 DEF Prompt, Suspends, Starts, StartFails
<1>10. CASE ParkPersisted(r) \/ Leaves(r)
  BY <1>k, <1>10 DEF ParkPersisted, Leaves
<1>11. CASE Parks(r)
  <2>1. Park(obj[r]) /\ tree' = tree
    BY <1>11 DEF Parks
  <2>2. PICK Q : phase' = [s \in Run |-> IF s \in Q THEN "shutdown" ELSE phase[s]]
    BY <2>1 DEF Park, Stopped
  <2> QED
    BY <2>1, <2>2 DEF TreeEffect
<1>12. CASE Ends(r)
  BY <1>e, <1>12, EndEffect
<1>13. CASE Persisted(r)
  BY <1>e, <1>13 DEF Persisted
<1>14. CASE ShutDown(r)
  BY <1>r, <1>14 DEF ShutDown
<1>15. CASE RootRemoved(r)
  BY <1>0, <1>15 DEF RootRemoved, TreeEffect
<1> QED
  BY <1>1, <1>2, <1>3, <1>4, <1>5, <1>6, <1>7, <1>8, <1>9, <1>10, <1>11, <1>12, <1>13, <1>14, <1>15
  DEF StepOf, Advance, Ends

LEMMA CountOfRuns ==
  ASSUME SessionAssumption, NEW S \in SUBSET Run
  PROVE  Cardinality(S) \in Nat /\ (Cardinality(S) = 0 => S = {})
<1>1. IsFiniteSet(S)
  BY FS_Subset DEF SessionAssumption
<1> QED
  BY <1>1, FS_CardinalityType, FS_EmptySet

LEMMA TreeInvStep ==
  ASSUME SessionAssumption, SessionInv, SessionInv', TreeInv, [Next]_vars, [~LeaseDuringRemoval]_vars
  PROVE  TreeInv'
<1>1. CASE UNCHANGED vars
  BY <1>1 DEF vars, TreeInv, TreeKept
<1>2. ASSUME NEW r \in Run, StepOf(r), ~UNCHANGED vars PROVE TreeInv'
  <2>1. TreeEffect(r)
    BY <1>2, TreeStep
  <2>2. /\ leases \in Nat /\ leases' \in Nat
        /\ leases' = 0 => \A s \in Run : ~Holding(s)'
    <3>1. Held \in SUBSET Run /\ Held' \in SUBSET Run
      BY DEF Held
    <3>2. leases = Cardinality(Held) /\ leases' = Cardinality(Held')
      BY DEF SessionInv, CountInv, Held
    <3>3. Held' = {} => \A s \in Run : ~Holding(s)'
      BY DEF Held
    <3> QED
      BY <3>1, <3>2, <3>3, CountOfRuns
  <2>3. (\E s \in Run : phase[s] = "removing") => leases' = 0
    BY <1>2, <2>2 DEF LeaseDuringRemoval, TreeInv
  <2>4. (\E s \in Run : phase'[s] = "removing") => leases' = 0
    BY <2>1, <2>3 DEF TreeEffect
  <2>5. ASSUME NEW q \in Run, phase'[q] \in SetUp PROVE tree'
    <3>1. leases' # 0
      BY <2>2, <2>5 DEF Holding, SetUp
    <3>2. tree' = tree \/ tree'
      BY <2>1, <2>3, <3>1 DEF TreeEffect
    <3>3. phase[q] \in SetUp \/ tree'
      BY <2>1, <2>5 DEF TreeEffect
    <3> QED
      BY <3>2, <3>3 DEF TreeInv, TreeKept, SetUp
  <2> QED
    BY <2>4, <2>5 DEF TreeInv, TreeKept, SetUp
<1> QED
  BY <1>1, <1>2 DEF Next, StepOf

\* The lease taken during the removal (acquireHostRoot after releaseHostRoot has
\* dropped the entry and before rm has ended) is the only way to lose a tree:
\* in a behaviour without one, every session that is set up has its tree.
THEOREM OnlyRemovalLosesTheTree == Spec /\ [][~LeaseDuringRemoval]_vars => []TreeKept
<1>1. Init => TreeInv
  BY DEF Init, TreeInv, TreeKept
<1>2. SessionInv /\ SessionInv' /\ TreeInv /\ [Next]_vars /\ [~LeaseDuringRemoval]_vars => TreeInv'
  BY SessionAssumption, TreeInvStep
<1>3. TreeInv => TreeKept
  BY DEF TreeInv
<1> QED
  BY <1>1, <1>2, <1>3, SessionInvariant, PTL DEF Spec
=============================================================================
