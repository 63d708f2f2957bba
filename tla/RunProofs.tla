------------------------------ MODULE RunProofs ------------------------------
(***************************************************************************)
(* Proofs about what a run shows to the two sides it serves.               *)
(*                                                                         *)
(* The stream (AgentStream), for every set of tools, every number of Pi    *)
(* events and turns, and either setting of sendReasoning: the client       *)
(* understands every chunk, and a body that closes is whole.               *)
(*                                                                         *)
(* The slots (RunConcurrency), for every set of requests and every lease   *)
(* lifetime: no slot leaks, the local expiry never outlives the limiter's, *)
(* every running provider request is covered by its permit, and the slot   *)
(* is returned before Pi goes on.                                          *)
(*                                                                         *)
(* The two specifications share no variable; neither part cites the other. *)
(***************************************************************************)
EXTENDS AgentStream, RunConcurrency, TLAPS, SequenceTheorems, WellFoundedInduction

-----------------------------------------------------------------------------
(* The stream. *)

\* What Pi has emitted and the converter has not seen, in order: the part in
\* the reader's hand, the queue, and what the run has not read.
Rest == (IF reader = "has part" THEN <<hand>> ELSE <<>>) \o (buffer \o wire)

Opens(p, k) == p.type \in {"start", "delta"} /\ p.kind = k
Ends(p, k) == p.type = "end" /\ p.kind = k

\* After the first n parts of q no block of kind k is open; o has the kinds
\* that were open before.
Shut(q, o, k, n) ==
  /\ k \in o => \E l \in 1..n : Ends(q[l], k)
  /\ \A j \in 1..n : Opens(q[j], k) => \E l \in j..n : Ends(q[l], k)

\* A block starts only when the one before it of its kind has ended.
Bracketed(q, o) ==
  \A i \in 1..Len(q) : q[i].type = "start" => Shut(q, o, q[i].kind, i - 1)

\* The calls in q are of different tools, none of the set seen.
CallsOnce(q, seen) ==
  \A i \in 1..Len(q) : q[i].type = "call" =>
    /\ q[i].id \notin seen
    /\ \A j \in 1..Len(q) : q[j].type = "call" /\ q[j].id = q[i].id => i = j

\* A result comes after the call.
ResultsFollow(q, seen) ==
  \A i \in 1..Len(q) : q[i].type = "result" /\ q[i].id \notin seen =>
    \E j \in 1..i - 1 : q[j].type = "call" /\ q[j].id = q[i].id

\* The tools called, made, and those the client knows of, seen; all, if every
\* visible call the client does not know of is in q.
Calls(q, seen, made, all) ==
  /\ seen \subseteq made \ Hidden
  /\ \A i \in 1..Len(q) : q[i].type = "call" => q[i].id \in made
  /\ CallsOnce(q, seen)
  /\ ResultsFollow(q, Hidden \cup seen)
  /\ all => \A t \in made \ (Hidden \cup seen) :
       \E i \in 1..Len(q) : q[i].type = "call" /\ q[i].id = t

-----------------------------------------------------------------------------
(* The inductive invariant. *)

IsSign(p) == p.type \in {"finish", "error"}

Conv == [started : BOOLEAN, step : BOOLEAN, open : [Kind -> 0..MaxEvents]]
Client == [started : BOOLEAN, step : BOOLEAN, open : [Kind -> SUBSET Ids],
           inputs : SUBSET Tool, over : BOOLEAN, lost : BOOLEAN]

Standing == {"set up", "turn", "turn over", "turn failed", "resolved", "cut short", "rejected"}

Types ==
  /\ pi \in {"off", "turn", "message"}
  /\ running \subseteq called /\ called \subseteq Tool
  /\ events \in 0..MaxEvents
  /\ block \in [Kind -> 0..MaxEvents] /\ nextId \in 1..events + 1
  /\ wire \in Seq(Part) /\ buffer \in Seq(Part) /\ hand \in Part
  /\ turns \in 0..MaxTurns
  /\ run \in Standing
  /\ reader \in {"next", "waits", "has part", "has end", "stopped"}
  /\ conv \in Conv
  /\ response \in {"open", "left", "closed", "error"}
  /\ client \in Client

\* How far Pi, run, reader and response can be apart.
PhaseInv ==
  /\ pi # "off" => run = "turn"
  /\ pi = "turn" => \A k \in Kind : block[k] = 0
  /\ running # {} => pi # "off"
  /\ run # "turn" => wire = <<>>
  /\ run = "turn" /\ pi = "off" => wire # <<>> /\ IsSign(wire[Len(wire)])
  /\ \A i \in 1..Len(wire) : IsSign(wire[i]) => pi = "off" /\ i = Len(wire)
  /\ reader = "waits" => buffer = <<>> /\ ~ Done
  /\ reader = "has end" => buffer = <<>> /\ Done
  /\ reader = "stopped" <=> response \in {"closed", "error"}

\* The client has seen what the converter thinks it has.
MirrorInv(c, s) ==
  /\ ~ s.lost /\ ~ s.over
  /\ s.started = c.started /\ s.step = c.step
  /\ \A k \in Kind : s.open[k] = {c.open[k]} \ {0}
  /\ c.step => c.started
  /\ \A k \in Kind : c.open[k] # 0 => c.step

OpenKinds == {k \in Kind : conv.open[k] # 0}

\* More blocks may come.
MoreToCome ==
  \/ run \in {"set up", "turn over"}
  \/ run = "turn" /\ (pi = "off" => wire[Len(wire)].type = "finish")

BlockInv ==
  /\ Bracketed(Rest, OpenKinds)
  /\ MoreToCome => \A k \in Kind : pi = "off" \/ block[k] = 0 => Shut(Rest, OpenKinds, k, Len(Rest))

\* The runs that have ended with parts unread.
Cut == {"cut short", "rejected"}

CallInv == Calls(Rest, client.inputs, called, run \notin Cut)

BodyInv ==
  response = "closed" =>
    /\ Done /\ buffer = <<>> /\ client.over
    /\ run = "resolved" => client.inputs = called \ Hidden

StreamInv ==
  /\ Types /\ PhaseInv /\ BodyInv /\ ~ client.lost
  /\ response = "open" => MirrorInv(conv, client) /\ BlockInv /\ CallInv
-----------------------------------------------------------------------------
(* Reading chunks one after the other. *)

\* Induction, for a set of numbers.
LEMMA NatInductionSet ==
  ASSUME NEW S, 0 \in S, \A n \in Nat : n \in S => n + 1 \in S
  PROVE  Nat \subseteq S
<1> DEFINE T == Nat \ S
           R == OpToRel(<, Nat)
<1>1. SUFFICES ASSUME T # {} PROVE FALSE
  OBVIOUS
<1>2. PICK m \in T : \A n \in T : <<n, m>> \notin R
  <2>1. IsWellFoundedOn(R, Nat)
    BY NatLessThanWellFounded
  <2> HIDE DEF R
  <2> QED
    BY <1>1, <2>1, WFMin
<1>3. m \in Nat \ {0} /\ m - 1 \in Nat /\ m - 1 < m
  OBVIOUS
<1>4. <<m - 1, m>> \in R
  BY <1>3 DEF OpToRel
<1>5. m - 1 \in S
  BY <1>2, <1>3, <1>4
<1> QED
  BY <1>3, <1>5

\* What the client has seen after the first n chunks, for n up to m.
SeenBy(f, s, q, m) == f = [n \in 0..m |-> IF n = 0 THEN s ELSE Takes(f[n - 1], q[n])]

\* The function of the definition of Reads exists.
LEMMA SeenExists ==
  ASSUME NEW s, NEW q, NEW m \in Nat
  PROVE  \E f : SeenBy(f, s, q, m)
<1> DEFINE E == {n \in Nat : \E f : SeenBy(f, s, q, n)}
<1>1. 0 \in E
  <2>1. SeenBy([n \in 0..0 |-> s], s, q, 0)
    BY DEF SeenBy
  <2> QED
    BY <2>1
<1>2. ASSUME NEW n \in Nat, n \in E PROVE n + 1 \in E
  <2>1. PICK f : SeenBy(f, s, q, n)
    BY <1>2
  <2> DEFINE g == [i \in 0..n + 1 |-> IF i = n + 1 THEN Takes(f[n], q[n + 1]) ELSE f[i]]
  <2>2. \A i \in 0..n : g[i] = f[i]
    OBVIOUS
  <2>3. ASSUME NEW i \in 0..n + 1 PROVE g[i] = IF i = 0 THEN s ELSE Takes(g[i - 1], q[i])
    <3>1. CASE i = n + 1
      <4>1. g[i] = Takes(f[n], q[i]) /\ i # 0 /\ i - 1 = n /\ n \in 0..n
        BY <3>1
      <4>2. g[n] = f[n]
        BY <2>2, <4>1
      <4> QED
        BY <4>1, <4>2
    <3>2. CASE i \in 0..n
      <4>1. g[i] = f[i] /\ f[i] = IF i = 0 THEN s ELSE Takes(f[i - 1], q[i])
        BY <2>1, <2>2, <3>2 DEF SeenBy
      <4>2. i # 0 => g[i - 1] = f[i - 1]
        <5>1. i # 0 => i - 1 \in 0..n
          BY <3>2
        <5> QED
          BY <2>2, <5>1
      <4> HIDE DEF g
      <4> QED
        BY <4>1, <4>2
    <3> QED
      BY <3>1, <3>2
  <2>4. SeenBy(g, s, q, n + 1)
    BY <2>3 DEF SeenBy
  <2> HIDE DEF g
  <2> QED
    BY <2>4
<1> HIDE DEF E
<1>3. m \in E
  BY <1>1, <1>2, NatInductionSet
<1> QED
  BY <1>3 DEF E

\* Sequences that agree so far have been read alike.
LEMMA SeenAlike ==
  ASSUME NEW s, NEW q, NEW r, NEW m \in Nat, NEW l \in Nat, m <= l, NEW f, NEW g,
         SeenBy(f, s, q, m), SeenBy(g, s, r, l), \A i \in 1..m : q[i] = r[i]
  PROVE  f[m] = g[m]
<1> DEFINE E == {n \in Nat : n <= m => f[n] = g[n]}
<1>1. 0 \in E
  BY DEF SeenBy
<1>2. ASSUME NEW n \in Nat, n \in E PROVE n + 1 \in E
  <2>1. SUFFICES ASSUME n + 1 <= m PROVE f[n + 1] = g[n + 1]
    OBVIOUS
  <2>2. f[n] = g[n] /\ n + 1 \in 1..m /\ n + 1 \in 0..m /\ n + 1 \in 0..l /\ n + 1 # 0 /\ (n + 1) - 1 = n
    BY <1>2, <2>1
  <2>3. f[n + 1] = Takes(f[n], q[n + 1]) /\ g[n + 1] = Takes(g[n], r[n + 1])
    BY <2>2 DEF SeenBy
  <2> QED
    BY <2>2, <2>3
<1> HIDE DEF E
<1>3. m \in E
  BY <1>1, <1>2, NatInductionSet
<1> QED
  BY <1>3 DEF E

\* Reads is the last value of that function.
LEMMA ReadsSeen ==
  ASSUME NEW s, NEW q, Len(q) \in Nat
  PROVE  \E f : SeenBy(f, s, q, Len(q)) /\ Reads(s, q) = f[Len(q)]
<1> DEFINE f == CHOOSE h : SeenBy(h, s, q, Len(q))
<1>1. SeenBy(f, s, q, Len(q))
  BY SeenExists
<1>2. Reads(s, q) = f[Len(q)]
  BY DEF Reads, SeenBy
<1> QED
  BY <1>1, <1>2

\* No chunk, nothing new.
LEMMA ReadsNothing == ASSUME NEW s PROVE Reads(s, <<>>) = s
<1>1. PICK f : SeenBy(f, s, <<>>, 0) /\ Reads(s, <<>>) = f[0]
  BY ReadsSeen
<1> QED
  BY <1>1 DEF SeenBy

\* One chunk is taken.
LEMMA ReadsOne == ASSUME NEW s, NEW c PROVE Reads(s, <<c>>) = Takes(s, c)
<1>1. PICK f : SeenBy(f, s, <<c>>, 1) /\ Reads(s, <<c>>) = f[1]
  BY ReadsSeen
<1>2. f[0] = s /\ f[1] = Takes(f[1 - 1], <<c>>[1])
  BY <1>1 DEF SeenBy
<1> QED
  BY <1>1, <1>2

\* The chunks of q and then those of r.
LEMMA ReadsBoth ==
  ASSUME NEW s, NEW S, NEW q \in Seq(S), NEW r \in Seq(S)
  PROVE  Reads(s, q \o r) = Reads(Reads(s, q), r)
<1> DEFINE b == q \o r
           m == Len(q)
           l == Len(r)
<1>1. /\ m \in Nat /\ l \in Nat /\ Len(b) = m + l
      /\ \A i \in 1..m : b[i] = q[i]
      /\ \A i \in 1..l : b[m + i] = r[i]
  OBVIOUS
<1> HIDE DEF b, m, l
<1>2. PICK f : SeenBy(f, s, q, m) /\ Reads(s, q) = f[m]
  <2>1. Len(q) \in Nat
    OBVIOUS
  <2>2. \E f : SeenBy(f, s, q, Len(q)) /\ Reads(s, q) = f[Len(q)]
    BY <2>1, ReadsSeen
  <2> QED
    BY <2>2 DEF m
<1>3. PICK g : SeenBy(g, s, b, m + l) /\ Reads(s, b) = g[m + l]
  <2>1. Len(b) = m + l /\ Len(b) \in Nat
    BY <1>1
  <2>2. \E g : SeenBy(g, s, b, Len(b)) /\ Reads(s, b) = g[Len(b)]
    BY <2>1, ReadsSeen
  <2> QED
    BY <2>1, <2>2
<1>4. PICK h : SeenBy(h, f[m], r, l) /\ Reads(f[m], r) = h[l]
  <2>1. Len(r) \in Nat
    OBVIOUS
  <2>2. \E h : SeenBy(h, f[m], r, Len(r)) /\ Reads(f[m], r) = h[Len(r)]
    BY <2>1, ReadsSeen
  <2> QED
    BY <2>2 DEF l
<1>5. f[m] = g[m]
  <2>1. m <= m + l /\ m + l \in Nat /\ \A i \in 1..m : q[i] = b[i]
    BY <1>1
  <2> QED
    BY <1>1, <1>2, <1>3, <2>1, SeenAlike
<1> DEFINE E == {n \in Nat : n <= l => g[m + n] = h[n]}
<1>6. 0 \in E
  BY <1>1, <1>4, <1>5 DEF SeenBy
<1>7. ASSUME NEW n \in Nat, n \in E PROVE n + 1 \in E
  <2>1. SUFFICES ASSUME n + 1 <= l PROVE g[m + (n + 1)] = h[n + 1]
    OBVIOUS
  <2>2. /\ g[m + n] = h[n] /\ n + 1 \in 1..l /\ n + 1 \in 0..l /\ (n + 1) - 1 = n /\ n + 1 # 0
        /\ m + (n + 1) \in 0..m + l /\ m + (n + 1) # 0 /\ (m + (n + 1)) - 1 = m + n
    BY <1>1, <1>7, <2>1
  <2>3. g[m + (n + 1)] = Takes(g[m + n], b[m + (n + 1)])
    BY <1>3, <2>2 DEF SeenBy
  <2>4. h[n + 1] = Takes(h[n], r[n + 1])
    BY <1>4, <2>2 DEF SeenBy
  <2> QED
    BY <1>1, <2>2, <2>3, <2>4
<1> HIDE DEF E
<1>8. l \in E
  BY <1>1, <1>6, <1>7, NatInductionSet
<1> QED
  BY <1>1, <1>2, <1>3, <1>4, <1>8 DEF E, b

-----------------------------------------------------------------------------
(* The client sees what the converter does. *)

Chunk == BlockPart \cup ToolPart
  \cup {Sign(type) : type \in {"message-start", "start-step", "finish-step", "finished", "failed"}}

Mirrors(c, s) == c \in Conv /\ s \in Client /\ MirrorInv(c, s)

\* Each chunk, taken when the converter may give it.
LEMMA TakesMessageStart ==
  ASSUME NEW c, NEW s, Mirrors(c, s), ~ c.started
  PROVE  LET t == Takes(s, Sign("message-start")) IN
         Mirrors([c EXCEPT !.started = TRUE], t) /\ t.inputs = s.inputs
BY DEF Mirrors, MirrorInv, Conv, Client, Takes, Fits, Sign

\* A step starts where none is open.
LEMMA TakesStartStep ==
  ASSUME NEW c, NEW s, Mirrors(c, s), c.started, ~ c.step
  PROVE  LET t == Takes(s, Sign("start-step")) IN
         Mirrors([c EXCEPT !.step = TRUE], t) /\ t.inputs = s.inputs
BY DEF Mirrors, MirrorInv, Conv, Client, Takes, Fits, Sign

\* A step finishes where no block is open.
LEMMA TakesFinishStep ==
  ASSUME NEW c, NEW s, Mirrors(c, s), c.step, \A k \in Kind : c.open[k] = 0
  PROVE  LET t == Takes(s, Sign("finish-step")) IN
         Mirrors([c EXCEPT !.step = FALSE], t) /\ t.inputs = s.inputs
<1> DEFINE t == Takes(s, Sign("finish-step"))
<1>1. c \in Conv /\ s \in Client /\ MirrorInv(c, s)
  BY DEF Mirrors
<1>2. \A k \in Kind : s.open[k] = {}
  BY <1>1 DEF MirrorInv
<1>3. Fits(s, Sign("finish-step"))
  BY <1>1, <1>2 DEF MirrorInv, Fits, Sign
<1>4. t = [s EXCEPT !.lost = FALSE, !.step = FALSE]
  BY <1>1, <1>3 DEF MirrorInv, Takes, Sign, Client
<1>5. t \in Client /\ [c EXCEPT !.step = FALSE] \in Conv
  BY <1>1, <1>4 DEF Conv, Client
<1>6. MirrorInv([c EXCEPT !.step = FALSE], t)
  BY <1>1, <1>4 DEF MirrorInv, Conv, Client
<1> QED
  BY <1>1, <1>4, <1>5, <1>6 DEF Mirrors, Client

\* The terminal chunk comes where neither block nor step is open.
LEMMA TakesTerminal ==
  ASSUME NEW c, NEW s, Mirrors(c, s), c.started, ~ c.step, NEW type \in {"finished", "failed"}
  PROVE  LET t == Takes(s, Sign(type)) IN
         t \in Client /\ ~ t.lost /\ t.over /\ t.inputs = s.inputs
<1>1. c \in Conv /\ s \in Client /\ MirrorInv(c, s)
  BY DEF Mirrors
<1>2. \A k \in Kind : s.open[k] = {}
  BY <1>1 DEF MirrorInv
<1>3. Fits(s, Sign(type))
  BY <1>1, <1>2 DEF MirrorInv, Fits, Sign
<1>4. Takes(s, Sign(type)) = [s EXCEPT !.lost = FALSE, !.over = TRUE]
  BY <1>1, <1>3 DEF MirrorInv, Takes, Sign, Client
<1> QED
  BY <1>1, <1>4 DEF Client

\* A block starts in a step, where none of its kind is open.
LEMMA TakesStart ==
  ASSUME NEW c, NEW s, Mirrors(c, s), c.step, NEW k \in Kind, c.open[k] = 0, NEW id \in Ids,
         MaxEvents \in Nat
  PROVE  LET t == Takes(s, BlockIs("start", k, id)) IN
         Mirrors([c EXCEPT !.open[k] = id], t) /\ t.inputs = s.inputs
<1> DEFINE p == BlockIs("start", k, id)
           t == Takes(s, p)
           d == [c EXCEPT !.open[k] = id]
<1>1. c \in Conv /\ s \in Client /\ MirrorInv(c, s)
  BY DEF Mirrors
<1>2. s.open[k] = {} /\ id \in 1..MaxEvents
  BY <1>1 DEF MirrorInv, Ids
<1>3. Fits(s, p)
  BY <1>1, <1>2 DEF MirrorInv, Fits, BlockIs
<1>4. t = [s EXCEPT !.lost = FALSE, !.open[k] = {id}]
  <2>1. s.open[k] \cup {id} = {id} /\ (s.lost \/ ~ Fits(s, p)) = FALSE
    BY <1>1, <1>2, <1>3 DEF MirrorInv
  <2>2. t = [[s EXCEPT !.lost = s.lost \/ ~ Fits(s, p)] EXCEPT !.open[k] = @ \cup {id}]
    BY DEF Takes, BlockIs
  <2>3. t = [[s EXCEPT !.lost = s.lost \/ ~ Fits(s, p)] EXCEPT !.open[k] = s.open[k] \cup {id}]
    BY <1>1, <2>2 DEF Client
  <2> HIDE DEF p, t
  <2>4. t = [[s EXCEPT !.lost = FALSE] EXCEPT !.open[k] = {id}]
    BY <2>1, <2>3
  <2> QED
    BY <1>1, <2>4 DEF Client
<1>5. t \in Client /\ d \in Conv
  <2>1. {id} \in SUBSET Ids /\ id \in 0..MaxEvents
    BY <1>2 DEF Ids
  <2> HIDE DEF t
  <2>2. t \in Client
    BY <1>1, <1>4, <2>1 DEF Client
  <2>3. d \in Conv
    BY <1>1, <2>1 DEF Conv
  <2> QED
    BY <2>2, <2>3
<1>6. \A j \in Kind : t.open[j] = {d.open[j]} \ {0}
  <2>1. \A j \in Kind : t.open[j] = IF j = k THEN {id} ELSE s.open[j]
    BY <1>1, <1>4, ZenonT(60) DEF Client
  <2>2. \A j \in Kind : d.open[j] = IF j = k THEN id ELSE c.open[j]
    BY <1>1 DEF Conv
  <2>3. {id} \ {0} = {id} /\ \A j \in Kind : s.open[j] = {c.open[j]} \ {0}
    BY <1>1, <1>2 DEF MirrorInv
  <2> HIDE DEF t, d
  <2> QED
    BY <2>1, <2>2, <2>3
<1>7. MirrorInv(d, t)
  BY <1>1, <1>2, <1>4, <1>6 DEF MirrorInv, Conv, Client
<1> QED
  BY <1>1, <1>4, <1>5, <1>7 DEF Mirrors, Client

\* A delta of the open block.
LEMMA TakesDelta ==
  ASSUME NEW c, NEW s, Mirrors(c, s), NEW k \in Kind, c.open[k] # 0
  PROVE  LET t == Takes(s, BlockIs("delta", k, c.open[k])) IN
         Mirrors(c, t) /\ t.inputs = s.inputs
BY DEF Mirrors, MirrorInv, Conv, Client, Takes, Fits, BlockIs

\* The end of the open block.
LEMMA TakesEnd ==
  ASSUME NEW c, NEW s, Mirrors(c, s), NEW k \in Kind, c.open[k] # 0, MaxEvents \in Nat
  PROVE  LET t == Takes(s, BlockIs("end", k, c.open[k])) IN
         Mirrors([c EXCEPT !.open[k] = 0], t) /\ t.inputs = s.inputs
<1> DEFINE p == BlockIs("end", k, c.open[k])
           t == Takes(s, p)
           d == [c EXCEPT !.open[k] = 0]
<1>1. c \in Conv /\ s \in Client /\ MirrorInv(c, s)
  BY DEF Mirrors
<1>2. s.open[k] = {c.open[k]}
  BY <1>1 DEF MirrorInv
<1>3. Fits(s, p)
  BY <1>1, <1>2 DEF MirrorInv, Fits, BlockIs
<1>4. t = [s EXCEPT !.lost = FALSE, !.open[k] = {}]
  <2>1. s.open[k] \ {c.open[k]} = {} /\ (s.lost \/ ~ Fits(s, p)) = FALSE
    BY <1>1, <1>2, <1>3 DEF MirrorInv
  <2>2. t = [[s EXCEPT !.lost = s.lost \/ ~ Fits(s, p)] EXCEPT !.open[k] = @ \ {c.open[k]}]
    BY DEF Takes, BlockIs
  <2>3. t = [[s EXCEPT !.lost = s.lost \/ ~ Fits(s, p)] EXCEPT !.open[k] = s.open[k] \ {c.open[k]}]
    BY <1>1, <2>2 DEF Client
  <2> HIDE DEF p, t
  <2>4. t = [[s EXCEPT !.lost = FALSE] EXCEPT !.open[k] = {}]
    BY <2>1, <2>3
  <2> QED
    BY <1>1, <2>4 DEF Client
<1>5. t \in Client /\ d \in Conv
  <2>1. {} \in SUBSET Ids /\ 0 \in 0..MaxEvents
    OBVIOUS
  <2> HIDE DEF t
  <2>2. t \in Client
    BY <1>1, <1>4, <2>1 DEF Client
  <2>3. d \in Conv
    BY <1>1, <2>1 DEF Conv
  <2> QED
    BY <2>2, <2>3
<1>6. \A j \in Kind : t.open[j] = {d.open[j]} \ {0}
  BY <1>1, <1>4 DEF MirrorInv, Conv, Client
<1>7. MirrorInv(d, t)
  BY <1>1, <1>4, <1>6 DEF MirrorInv, Conv, Client
<1> QED
  BY <1>1, <1>4, <1>5, <1>7 DEF Mirrors, Client

\* A call the client does not know of.
LEMMA TakesCall ==
  ASSUME NEW c, NEW s, Mirrors(c, s), c.step, NEW id \in Tool \ s.inputs
  PROVE  LET t == Takes(s, ToolIs("call", id)) IN
         Mirrors(c, t) /\ t.inputs = s.inputs \cup {id}
BY DEF Mirrors, MirrorInv, Conv, Client, Takes, Fits, ToolIs

\* The result of a call the client knows of.
LEMMA TakesResult ==
  ASSUME NEW c, NEW s, Mirrors(c, s), c.step, NEW id \in s.inputs
  PROVE  LET t == Takes(s, ToolIs("result", id)) IN
         Mirrors(c, t) /\ t.inputs = s.inputs
BY DEF Mirrors, MirrorInv, Conv, Client, Takes, Fits, ToolIs

\* A chunk alone, and none.
LEMMA ReadsFew ==
  ASSUME NEW s, NEW ch \in Chunk
  PROVE  /\ Reads(s, <<ch>>) = Takes(s, ch) /\ <<ch>> \in Seq(Chunk)
         /\ Reads(s, <<>>) = s /\ <<>> \in Seq(Chunk)
BY ReadsOne, ReadsNothing

\* A field of the converter set to the value it has changes nothing.
LEMMA ConvKeeps ==
  ASSUME NEW c \in Conv
  PROVE  /\ c.started => [c EXCEPT !.started = TRUE] = c
         /\ c.step => [c EXCEPT !.step = TRUE] = c
         /\ ~ c.step => [c EXCEPT !.step = FALSE] = c
         /\ \A k \in Kind : c.open[k] = 0 => [c EXCEPT !.open[k] = 0] = c
         /\ \A k \in Kind : [c EXCEPT !.open[k] = c.open[k]] = c
BY DEF Conv

\* The signs the converter sends are chunks.
LEMMA SignChunk ==
  \A type \in {"message-start", "start-step", "finish-step", "finished", "failed"} : Sign(type) \in Chunk
BY DEF Chunk

\* The parts of a block are chunks.
LEMMA BlockChunk ==
  \A type \in {"start", "delta", "end"}, k \in Kind, id \in Ids : BlockIs(type, k, id) \in Chunk
BY DEF Chunk, BlockPart, BlockIs

\* openMessageAndStep
LEMMA MessageReads ==
  ASSUME NEW c, NEW s, Mirrors(c, s)
  PROVE  LET q == IF c.started THEN <<>> ELSE <<Sign("message-start")>> IN
         /\ q \in Seq(Chunk)
         /\ Mirrors([c EXCEPT !.started = TRUE], Reads(s, q))
         /\ Reads(s, q).inputs = s.inputs
<1>1. c \in Conv
  BY DEF Mirrors
<1>2. CASE c.started
  BY <1>1, <1>2, ConvKeeps, ReadsFew, SignChunk
<1>3. CASE ~ c.started
  BY <1>3, TakesMessageStart, ReadsFew, SignChunk
<1> QED
  BY <1>2, <1>3

\* The client reads the chunk that starts a step.
LEMMA StepReads ==
  ASSUME NEW c, NEW s, Mirrors(c, s), c.started
  PROVE  LET q == IF c.step THEN <<>> ELSE <<Sign("start-step")>> IN
         /\ q \in Seq(Chunk)
         /\ Mirrors([c EXCEPT !.step = TRUE], Reads(s, q))
         /\ Reads(s, q).inputs = s.inputs
<1>1. c \in Conv
  BY DEF Mirrors
<1>2. CASE c.step
  BY <1>1, <1>2, ConvKeeps, ReadsFew, SignChunk
<1>3. CASE ~ c.step
  BY <1>3, TakesStartStep, ReadsFew, SignChunk
<1> QED
  BY <1>2, <1>3

\* The client follows openMessageAndStep.
LEMMA OpenReads ==
  ASSUME NEW c, NEW s, Mirrors(c, s)
  PROVE  /\ OpenChunks(c) \in Seq(Chunk)
         /\ Mirrors(Opened(c), Reads(s, OpenChunks(c)))
         /\ Reads(s, OpenChunks(c)).inputs = s.inputs
<1> DEFINE a == IF c.started THEN <<>> ELSE <<Sign("message-start")>>
           b == IF c.step THEN <<>> ELSE <<Sign("start-step")>>
           d == [c EXCEPT !.started = TRUE]
           t == Reads(s, a)
<1>1. a \in Seq(Chunk) /\ Mirrors(d, t) /\ t.inputs = s.inputs
  BY MessageReads
<1>2. d.started /\ d.step = c.step /\ [d EXCEPT !.step = TRUE] = Opened(c)
  BY DEF Mirrors, Conv, Opened
<1> HIDE DEF d, t
<1>3. b \in Seq(Chunk) /\ Mirrors([d EXCEPT !.step = TRUE], Reads(t, b)) /\ Reads(t, b).inputs = t.inputs
  BY <1>1, <1>2, StepReads
<1> HIDE DEF a, b
<1>4. a \o b \in Seq(Chunk) /\ Reads(s, a \o b) = Reads(t, b)
  BY <1>1, <1>3, ReadsBoth DEF t
<1>5. OpenChunks(c) = a \o b
  BY DEF OpenChunks, a, b
<1> QED
  BY <1>1, <1>2, <1>3, <1>4, <1>5

\* closeOpenBlocks
LEMMA EndReads ==
  ASSUME NEW c, NEW s, Mirrors(c, s), NEW k \in Kind
  PROVE  /\ EndChunk(c, k) \in Seq(Chunk)
         /\ Mirrors([c EXCEPT !.open[k] = 0], Reads(s, EndChunk(c, k)))
         /\ Reads(s, EndChunk(c, k)).inputs = s.inputs
<1>1. c \in Conv
  BY DEF Mirrors
<1>2. CASE c.open[k] = 0
  BY <1>1, <1>2, ConvKeeps, ReadsNothing DEF EndChunk
<1>3. CASE c.open[k] # 0
  <2>1. c.open[k] \in Ids
    BY <1>1, <1>3, StreamAssumption DEF Conv, Ids
  <2>2. BlockIs("end", k, c.open[k]) \in Chunk
    BY <2>1, BlockChunk
  <2> DEFINE ch == BlockIs("end", k, c.open[k])
  <2>3. Mirrors([c EXCEPT !.open[k] = 0], Takes(s, ch)) /\ Takes(s, ch).inputs = s.inputs
    BY <1>3, StreamAssumption, TakesEnd
  <2>4. EndChunk(c, k) = <<ch>> /\ ch \in Chunk
    BY <1>3, <2>2 DEF EndChunk
  <2> HIDE DEF ch
  <2> QED
    BY <2>3, <2>4, ReadsFew
<1> QED
  BY <1>2, <1>3

\* The client follows closeOpenBlocks.
LEMMA CloseReads ==
  ASSUME NEW c, NEW s, Mirrors(c, s)
  PROVE  /\ CloseChunks(c) \in Seq(Chunk)
         /\ Mirrors(Closed(c), Reads(s, CloseChunks(c)))
         /\ Reads(s, CloseChunks(c)).inputs = s.inputs
<1> DEFINE a == EndChunk(c, "text")
           d == [c EXCEPT !.open["text"] = 0]
           t == Reads(s, a)
<1>1. a \in Seq(Chunk) /\ Mirrors(d, t) /\ t.inputs = s.inputs
  BY EndReads DEF Kind
<1>2. d.open["reasoning"] = c.open["reasoning"] /\ [d EXCEPT !.open["reasoning"] = 0] = Closed(c)
  <2>1. c \in Conv
    BY DEF Mirrors
  <2>2. [[c.open EXCEPT !["text"] = 0] EXCEPT !["reasoning"] = 0] = [k \in Kind |-> 0]
    BY <2>1 DEF Conv, Kind
  <2> QED
    BY <2>1, <2>2 DEF Conv, Kind, Closed
<1> HIDE DEF d, t
<1>3. EndChunk(d, "reasoning") = EndChunk(c, "reasoning")
  BY <1>2 DEF EndChunk
<1> DEFINE b == EndChunk(c, "reasoning")
<1>4. b \in Seq(Chunk) /\ Mirrors(Closed(c), Reads(t, b)) /\ Reads(t, b).inputs = t.inputs
  <2>1. /\ EndChunk(d, "reasoning") \in Seq(Chunk)
        /\ Mirrors([d EXCEPT !.open["reasoning"] = 0], Reads(t, EndChunk(d, "reasoning")))
        /\ Reads(t, EndChunk(d, "reasoning")).inputs = t.inputs
    <3>1. "reasoning" \in Kind
      BY DEF Kind
    <3> QED
      BY <1>1, <3>1, EndReads
  <2> QED
    BY <1>2, <1>3, <2>1
<1>5. CloseChunks(c) = a \o b
  BY DEF CloseChunks
<1> HIDE DEF a, b
<1>6. a \o b \in Seq(Chunk) /\ Reads(s, a \o b) = Reads(t, b)
  BY <1>1, <1>4, ReadsBoth DEF t
<1> QED
  BY <1>1, <1>4, <1>5, <1>6

\* The handler's chunks are read, the client then sees what the converter
\* does, and a block is open only if the part opened it or left it open.
Handled(c, s, p, r, in) ==
  /\ r.chunks \in Seq(Chunk)
  /\ Mirrors(r.conv, Reads(s, r.chunks)) /\ Reads(s, r.chunks).inputs = in
  /\ \A k \in Kind : r.conv.open[k] # 0 => Opens(p, k) \/ (c.open[k] # 0 /\ ~ Ends(p, k))

\* One more chunk after the others.
LEMMA ReadsThen ==
  ASSUME NEW s, NEW q \in Seq(Chunk), NEW ch \in Chunk
  PROVE  q \o <<ch>> \in Seq(Chunk) /\ Reads(s, q \o <<ch>>) = Takes(Reads(s, q), ch)
<1> DEFINE r == <<ch>>
<1>1. r \in Seq(Chunk) /\ \A t : Reads(t, r) = Takes(t, ch)
  BY ReadsFew
<1> HIDE DEF r
<1>2. q \o r \in Seq(Chunk) /\ Reads(s, q \o r) = Reads(Reads(s, q), r)
  BY <1>1, ReadsBoth
<1> QED
  BY <1>1, <1>2 DEF r

\* An opened converter is a converter, with the same blocks.
LEMMA OpenedKeeps ==
  ASSUME NEW c \in Conv
  PROVE  /\ Opened(c) \in Conv /\ Opened(c).open = c.open /\ Opened(c).step /\ Opened(c).started
         /\ CloseChunks(Opened(c)) = CloseChunks(c)
BY DEF Opened, Conv, CloseChunks, EndChunk

\* The start of a block, when none of its kind is open.
LEMMA HandlesStart ==
  ASSUME NEW c, NEW s, Mirrors(c, s), NEW p \in BlockPart, p.type = "start", c.open[p.kind] = 0
  PROVE  Handled(c, s, p, OnStart(c, p), s.inputs)
<1> DEFINE a == OpenChunks(c)
           d == Opened(c)
           t == Reads(s, a)
           k == p.kind
<1>1. a \in Seq(Chunk) /\ Mirrors(d, t) /\ t.inputs = s.inputs
  BY OpenReads
<1>2. d \in Conv /\ d.open = c.open /\ d.step
  BY OpenedKeeps DEF Mirrors
<1>3. p = BlockIs("start", k, p.id) /\ k \in Kind /\ p.id \in Ids
  BY DEF BlockPart, BlockIs
<1>4. Takes(t, p).inputs = t.inputs /\ Mirrors([d EXCEPT !.open[k] = p.id], Takes(t, p))
  <2> HIDE DEF d, t, k
  <2>1. d.open[k] = 0 /\ d.step /\ MaxEvents \in Nat
    BY <1>2, StreamAssumption DEF k
  <2>2. LET u == Takes(t, BlockIs("start", k, p.id)) IN
        Mirrors([d EXCEPT !.open[k] = p.id], u) /\ u.inputs = t.inputs
    <3> DEFINE id == p.id
    <3>1. k \in Kind /\ id \in Ids
      BY <1>3
    <3> HIDE DEF id
    <3>2. LET u == Takes(t, BlockIs("start", k, id)) IN
          Mirrors([d EXCEPT !.open[k] = id], u) /\ u.inputs = t.inputs
      BY <1>1, <2>1, <3>1, TakesStart
    <3> QED
      BY <3>2 DEF id
  <2> QED
    BY <1>3, <2>2
<1>5. p \in Chunk
  BY DEF Chunk
<1>6. a \o <<p>> \in Seq(Chunk) /\ Reads(s, a \o <<p>>) = Takes(t, p)
  <2> HIDE DEF a
  <2> QED
    BY <1>1, <1>5, ReadsThen
<1>7. \A j \in Kind : [d EXCEPT !.open[k] = p.id].open[j] = IF j = k THEN p.id ELSE c.open[j]
  BY <1>2 DEF Conv
<1>8. OnStart(c, p).chunks = a \o <<p>> /\ OnStart(c, p).conv = [d EXCEPT !.open[k] = p.id]
  BY DEF OnStart, Gives
<1> HIDE DEF a, d, t
<1> QED
  BY <1>1, <1>4, <1>6, <1>7, <1>8 DEF Handled, Opens, Ends

\* A delta, whether its block is open or not.
LEMMA HandlesDelta ==
  ASSUME NEW c, NEW s, Mirrors(c, s), NEW p \in BlockPart, p.type = "delta"
  PROVE  Handled(c, s, p, OnDelta(c, p), s.inputs)
<1> DEFINE a == OpenChunks(c)
           d == Opened(c)
           t == Reads(s, a)
           k == p.kind
           id == IF c.open[k] = 0 THEN p.id ELSE c.open[k]
           b == IF c.open[k] = 0 THEN <<BlockIs("start", k, id)>> ELSE <<>>
           e == [d EXCEPT !.open[k] = id]
           ch == BlockIs("delta", k, id)
           u == Reads(t, b)
<1>1. a \in Seq(Chunk) /\ Mirrors(d, t) /\ t.inputs = s.inputs
  BY OpenReads
<1>2. d \in Conv /\ c \in Conv /\ d.open = c.open /\ d.step
  BY OpenedKeeps DEF Mirrors
<1>3. k \in Kind /\ p.id \in Ids /\ MaxEvents \in Nat
  BY StreamAssumption DEF BlockPart
<1>4. id \in Ids /\ id # 0
  BY <1>2, <1>3 DEF Conv, Ids
<1>5. ch \in Chunk /\ BlockIs("start", k, id) \in Chunk
  BY <1>3, <1>4, BlockChunk
<1>6. b \in Seq(Chunk) /\ Mirrors(e, u) /\ u.inputs = t.inputs
  <2>1. CASE c.open[k] = 0
    <3> HIDE DEF d, t, k, id
    <3>1. LET v == Takes(t, BlockIs("start", k, id)) IN Mirrors(e, v) /\ v.inputs = t.inputs
      BY <1>1, <1>2, <1>3, <1>4, <2>1, TakesStart
    <3> QED
      BY <2>1, <3>1, <1>5, ReadsFew
  <2>2. CASE c.open[k] # 0
    <3>1. b = <<>> /\ e = d
      BY <1>2, <1>3, <2>2, ConvKeeps
    <3> HIDE DEF b, e, d, t
    <3> QED
      BY <1>1, <3>1, ReadsNothing
  <2> QED
    BY <2>1, <2>2
<1>7. e.open[k] = id /\ \A j \in Kind : e.open[j] = IF j = k THEN id ELSE c.open[j]
  <2> HIDE DEF d, id, k
  <2> QED
    BY <1>2, <1>3 DEF Conv
<1>8. Mirrors(e, Takes(u, ch)) /\ Takes(u, ch).inputs = u.inputs
  <2> HIDE DEF e, u, id, k
  <2> QED
    BY <1>3, <1>4, <1>6, <1>7, TakesDelta
<1> HIDE DEF a, b, t, u, ch
<1>9. a \o b \in Seq(Chunk) /\ Reads(s, a \o b) = u
  BY <1>1, <1>6, ReadsBoth DEF t, u
<1>10. (a \o b) \o <<ch>> \in Seq(Chunk) /\ Reads(s, (a \o b) \o <<ch>>) = Takes(u, ch)
  <2> DEFINE q == a \o b
  <2>1. q \in Seq(Chunk) /\ Reads(s, q) = u /\ ch \in Chunk
    BY <1>5, <1>9 DEF ch
  <2> HIDE DEF q
  <2>2. q \o <<ch>> \in Seq(Chunk) /\ Reads(s, q \o <<ch>>) = Takes(u, ch)
    BY <2>1, ReadsThen
  <2> QED
    BY <2>2 DEF q
<1>11. OnDelta(c, p).chunks = (a \o b) \o <<ch>> /\ OnDelta(c, p).conv = e
  BY DEF OnDelta, Gives, a, b, ch
<1> HIDE DEF e
<1> QED
  BY <1>1, <1>6, <1>7, <1>8, <1>10, <1>11 DEF Handled, Opens, Ends

\* The end of a block; one that is not open gives no chunk.
LEMMA HandlesEnd ==
  ASSUME NEW c, NEW s, Mirrors(c, s), NEW p \in BlockPart, p.type = "end"
  PROVE  Handled(c, s, p, OnEnd(c, p), s.inputs)
<1> DEFINE k == p.kind
           d == [c EXCEPT !.open[k] = 0]
<1>1. k \in Kind /\ c \in Conv
  BY DEF BlockPart, Mirrors
<1>2. \A j \in Kind : d.open[j] = IF j = k THEN 0 ELSE c.open[j]
  BY <1>1 DEF Conv
<1>3. OnEnd(c, p).chunks = EndChunk(c, k) /\ OnEnd(c, p).conv = d
  BY DEF OnEnd, Gives
<1> HIDE DEF k
<1>4. /\ EndChunk(c, k) \in Seq(Chunk) /\ Mirrors(d, Reads(s, EndChunk(c, k)))
      /\ Reads(s, EndChunk(c, k)).inputs = s.inputs
  BY <1>1, EndReads
<1> HIDE DEF d
<1> QED
  BY <1>2, <1>3, <1>4 DEF Handled, Opens, Ends, k

\* A closed converter is a converter without blocks.
LEMMA ClosedKeeps ==
  ASSUME NEW c \in Conv
  PROVE  /\ Closed(c) \in Conv /\ Closed(c).step = c.step /\ Closed(c).started = c.started
         /\ \A k \in Kind : Closed(c).open[k] = 0
<1>1. [k \in Kind |-> 0] \in [Kind -> 0..MaxEvents]
  BY StreamAssumption
<1> QED
  BY <1>1 DEF Closed, Conv

\* A call closes the blocks and is sent on.
LEMMA HandlesCall ==
  ASSUME NEW c, NEW s, Mirrors(c, s), NEW p \in ToolPart, p.type = "call", p.id \notin s.inputs
  PROVE  Handled(c, s, p, OnCall(c, p), s.inputs \cup {p.id})
<1> DEFINE a == OpenChunks(c)
           b == CloseChunks(c)
           d == Opened(c)
           e == Closed(d)
           t == Reads(s, a)
           u == Reads(t, b)
           id == p.id
<1>1. a \in Seq(Chunk) /\ Mirrors(d, t) /\ t.inputs = s.inputs
  BY OpenReads
<1>2. d \in Conv /\ c \in Conv /\ d.step /\ CloseChunks(d) = b
  BY OpenedKeeps DEF Mirrors
<1>3. b \in Seq(Chunk) /\ Mirrors(e, u) /\ u.inputs = t.inputs
  <2> HIDE DEF d, t, b
  <2>1. LET q == CloseChunks(d) IN
        q \in Seq(Chunk) /\ Mirrors(Closed(d), Reads(t, q)) /\ Reads(t, q).inputs = t.inputs
    BY <1>1, CloseReads
  <2> QED
    BY <1>2, <2>1
<1>4. e.step /\ \A k \in Kind : e.open[k] = 0
  <2> HIDE DEF d
  <2> QED
    BY <1>2, ClosedKeeps
<1>5. p = ToolIs("call", id) /\ id \in Tool \ s.inputs /\ p \in Chunk
  BY DEF ToolPart, ToolIs, Chunk
<1>6. Mirrors(e, Takes(u, p)) /\ Takes(u, p).inputs = s.inputs \cup {id}
  <2> HIDE DEF e, u, id
  <2>1. id \in Tool \ u.inputs
    BY <1>1, <1>3, <1>5
  <2>2. LET v == Takes(u, ToolIs("call", id)) IN Mirrors(e, v) /\ v.inputs = u.inputs \cup {id}
    BY <1>3, <1>4, <2>1, TakesCall
  <2> QED
    BY <1>1, <1>3, <1>5, <2>2
<1> HIDE DEF a, b, t, u
<1>7. a \o b \in Seq(Chunk) /\ Reads(s, a \o b) = u
  BY <1>1, <1>3, ReadsBoth DEF t, u
<1>8. (a \o b) \o <<p>> \in Seq(Chunk) /\ Reads(s, (a \o b) \o <<p>>) = Takes(u, p)
  <2> DEFINE q == a \o b
  <2>1. q \in Seq(Chunk) /\ Reads(s, q) = u
    BY <1>7
  <2> HIDE DEF q
  <2>2. q \o <<p>> \in Seq(Chunk) /\ Reads(s, q \o <<p>>) = Takes(u, p)
    BY <1>5, <2>1, ReadsThen
  <2> QED
    BY <2>2 DEF q
<1>9. OnCall(c, p).chunks = (a \o b) \o <<p>> /\ OnCall(c, p).conv = e
  BY DEF OnCall, Gives, a, b
<1> HIDE DEF e
<1> QED
  BY <1>4, <1>6, <1>8, <1>9 DEF Handled

\* A result of a call the client knows of.
LEMMA HandlesResult ==
  ASSUME NEW c, NEW s, Mirrors(c, s), NEW p \in ToolPart, p.type = "result", p.id \in s.inputs
  PROVE  Handled(c, s, p, OnResult(c, p), s.inputs)
<1> DEFINE a == OpenChunks(c)
           d == Opened(c)
           t == Reads(s, a)
           id == p.id
<1>1. a \in Seq(Chunk) /\ Mirrors(d, t) /\ t.inputs = s.inputs
  BY OpenReads
<1>2. d.step /\ d.open = c.open
  BY OpenedKeeps DEF Mirrors
<1>3. p = ToolIs("result", id) /\ id \in s.inputs /\ p \in Chunk /\ p.kind = "tool"
  BY DEF ToolPart, ToolIs, Chunk
<1>4. Mirrors(d, Takes(t, p)) /\ Takes(t, p).inputs = s.inputs
  <2> HIDE DEF d, t, id
  <2>1. LET v == Takes(t, ToolIs("result", id)) IN Mirrors(d, v) /\ v.inputs = t.inputs
    <3>1. id \in t.inputs
      BY <1>1, <1>3
    <3> QED
      BY <1>1, <1>2, <3>1, TakesResult
  <2> QED
    BY <1>1, <1>3, <2>1
<1>5. a \o <<p>> \in Seq(Chunk) /\ Reads(s, a \o <<p>>) = Takes(t, p)
  <2> HIDE DEF a
  <2> QED
    BY <1>1, <1>3, ReadsThen
<1>6. OnResult(c, p).chunks = a \o <<p>> /\ OnResult(c, p).conv = d
  BY DEF OnResult, Gives
<1>7. \A k \in Kind : ~ Ends(p, k)
  BY <1>3 DEF Ends, Kind
<1> HIDE DEF a, d, t
<1> QED
  BY <1>2, <1>4, <1>5, <1>6, <1>7 DEF Handled

\* A part that gives no chunk changes nothing, unless it ends an open block.
LEMMA HandlesNothing ==
  ASSUME NEW c, NEW s, Mirrors(c, s), NEW p \in Part, \A k \in Kind : ~ Ends(p, k) \/ c.open[k] = 0
  PROVE  Handled(c, s, p, Gives(<<>>, c), s.inputs)
<1>1. <<>> \in Seq(Chunk) /\ Reads(s, <<>>) = s
  BY ReadsNothing
<1> QED
  BY <1>1 DEF Handled, Gives

\* The finish of a turn closes blocks and step.
LEMMA HandlesFinish ==
  ASSUME NEW c, NEW s, Mirrors(c, s), NEW p \in Part, p = Sign("finish")
  PROVE  Handled(c, s, p, OnFinish(c), s.inputs)
<1>1. \A k \in Kind : ~ Ends(p, k) /\ ~ Opens(p, k)
  BY DEF Sign, Ends, Opens
<1>2. CASE ~ c.step
  BY <1>1, <1>2, HandlesNothing DEF OnFinish
<1>3. CASE c.step
  <2> DEFINE b == CloseChunks(c)
             e == Closed(c)
             t == Reads(s, b)
             ch == Sign("finish-step")
             g == [e EXCEPT !.step = FALSE]
  <2>1. b \in Seq(Chunk) /\ Mirrors(e, t) /\ t.inputs = s.inputs
    BY CloseReads
  <2>2. e \in Conv /\ e.step /\ \A k \in Kind : e.open[k] = 0
    BY <1>3, ClosedKeeps DEF Mirrors
  <2> HIDE DEF e, t
  <2>3. Mirrors(g, Takes(t, ch)) /\ Takes(t, ch).inputs = t.inputs
    BY <2>1, <2>2, TakesFinishStep
  <2>4. ch \in Chunk
    BY SignChunk
  <2> HIDE DEF ch, b
  <2>5. b \o <<ch>> \in Seq(Chunk) /\ Reads(s, b \o <<ch>>) = Takes(t, ch)
    BY <2>1, <2>4, ReadsThen DEF t
  <2>6. OnFinish(c).chunks = b \o <<ch>> /\ OnFinish(c).conv = g
    BY <1>3 DEF OnFinish, Gives, b, ch, e
  <2>7. \A k \in Kind : g.open[k] = 0
    BY <2>2 DEF Conv
  <2> HIDE DEF g
  <2> QED
    BY <2>1, <2>3, <2>5, <2>6, <2>7 DEF Handled
<1> QED
  BY <1>2, <1>3

\* handlePart, for a part that may come now.
LEMMA Handles ==
  ASSUME NEW c, NEW s, Mirrors(c, s), NEW p \in Part,
         p.type = "start" => c.open[p.kind] = 0,
         p.type = "call" /\ p.id \notin Hidden => p.id \notin s.inputs,
         p.type = "result" /\ p.id \notin Hidden => p.id \in s.inputs
  PROVE  Handled(c, s, p, HandlePart(c, p),
                 IF p.type = "call" /\ p.id \notin Hidden THEN s.inputs \cup {p.id} ELSE s.inputs)
<1>1. CASE Dropped(p)
  <2>1. HandlePart(c, p) = Gives(<<>>, c)
    BY <1>1 DEF HandlePart
  <2>2. ~ (p.type = "call" /\ p.id \notin Hidden)
    BY <1>1 DEF Dropped, Part, BlockPart, ToolPart, Sign
  <2>3. \A k \in Kind : ~ Ends(p, k)
    BY <1>1 DEF Dropped, Part, BlockPart, ToolPart, Sign, Ends, Kind
  <2> QED
    BY <2>1, <2>2, <2>3, HandlesNothing
<1>2. CASE ~ Dropped(p) /\ p \in BlockPart
  <2>1. p.type \in {"start", "delta", "end"}
    BY <1>2 DEF BlockPart
  <2>2. CASE p.type = "start"
    BY <1>2, <2>2, HandlesStart DEF HandlePart
  <2>3. CASE p.type = "delta"
    BY <1>2, <2>3, HandlesDelta DEF HandlePart
  <2>4. CASE p.type = "end"
    BY <1>2, <2>4, HandlesEnd DEF HandlePart
  <2> QED
    BY <2>1, <2>2, <2>3, <2>4
<1>3. CASE ~ Dropped(p) /\ p \in ToolPart
  <2>1. p.type \in {"call", "result"} /\ p.id \notin Hidden
    BY <1>3 DEF ToolPart, Dropped
  <2>2. CASE p.type = "call"
    BY <1>3, <2>1, <2>2, HandlesCall DEF HandlePart
  <2>3. CASE p.type = "result"
    BY <1>3, <2>1, <2>3, HandlesResult DEF HandlePart
  <2> QED
    BY <2>1, <2>2, <2>3
<1>4. CASE ~ Dropped(p) /\ p \in {Sign("finish"), Sign("error")}
  <2>1. p = Sign("finish") /\ p.type = "finish"
    BY <1>4 DEF Dropped, Sign
  <2>2. HandlePart(c, p) = OnFinish(c)
    BY <1>4, <2>1 DEF HandlePart
  <2> QED
    BY <2>1, <2>2, HandlesFinish
<1> QED
  BY <1>1, <1>2, <1>3, <1>4 DEF Part

\* finish and fail: the client has its terminal chunk.
LEMMA TerminalReads ==
  ASSUME NEW c, NEW s, Mirrors(c, s), NEW type \in {"finished", "failed"}
  PROVE  LET t == Reads(s, Terminal(c, type)) IN
         t \in Client /\ ~ t.lost /\ t.over /\ t.inputs = s.inputs
<1> DEFINE a == IF c.started THEN <<>> ELSE <<Sign("message-start")>>
           d == [c EXCEPT !.started = TRUE]
           t == Reads(s, a)
           b == CloseChunks(c)
           e == Closed(d)
           u == Reads(t, b)
           f == IF c.step THEN <<Sign("finish-step")>> ELSE <<>>
           g == [e EXCEPT !.step = FALSE]
           v == Reads(u, f)
           ch == Sign(type)
<1>1. a \in Seq(Chunk) /\ Mirrors(d, t) /\ t.inputs = s.inputs
  BY MessageReads
<1>2. d \in Conv /\ d.step = c.step /\ d.started /\ CloseChunks(d) = b
  BY DEF Mirrors, Conv, CloseChunks, EndChunk
<1>3. b \in Seq(Chunk) /\ Mirrors(e, u) /\ u.inputs = t.inputs
  <2> HIDE DEF d, t, b
  <2>1. LET q == CloseChunks(d) IN
        q \in Seq(Chunk) /\ Mirrors(Closed(d), Reads(t, q)) /\ Reads(t, q).inputs = t.inputs
    BY <1>1, CloseReads
  <2> QED
    BY <1>2, <2>1
<1>4. e \in Conv /\ e.step = c.step /\ e.started /\ \A k \in Kind : e.open[k] = 0
  <2> HIDE DEF d
  <2> QED
    BY <1>2, ClosedKeeps
<1>5. f \in Seq(Chunk) /\ Mirrors(g, v) /\ v.inputs = u.inputs
  <2> HIDE DEF e, u
  <2>1. CASE c.step
    <3>1. LET w == Takes(u, Sign("finish-step")) IN Mirrors(g, w) /\ w.inputs = u.inputs
      BY <1>3, <1>4, <2>1, TakesFinishStep
    <3> QED
      BY <2>1, <3>1, ReadsFew, SignChunk
  <2>2. CASE ~ c.step
    <3>1. g = e /\ f = <<>>
      BY <1>4, <2>2, ConvKeeps
    <3> HIDE DEF g, f
    <3> QED
      BY <1>3, <3>1, ReadsNothing
  <2> QED
    BY <2>1, <2>2
<1>6. g.started /\ ~ g.step
  <2> HIDE DEF e
  <2> QED
    BY <1>4 DEF Conv
<1>7. LET w == Takes(v, ch) IN w \in Client /\ ~ w.lost /\ w.over /\ w.inputs = v.inputs
  <2> HIDE DEF g, v
  <2> QED
    BY <1>5, <1>6, TakesTerminal
<1>8. ch \in Chunk
  BY SignChunk
<1> HIDE DEF a, b, f, t, u, v, ch
<1>9. a \o b \in Seq(Chunk) /\ Reads(s, a \o b) = u
  BY <1>1, <1>3, ReadsBoth DEF t, u
<1>10. (a \o b) \o f \in Seq(Chunk) /\ Reads(s, (a \o b) \o f) = v
  <2> DEFINE q == a \o b
  <2>1. q \in Seq(Chunk) /\ Reads(s, q) = u
    BY <1>9
  <2> HIDE DEF q
  <2>2. q \o f \in Seq(Chunk) /\ Reads(s, q \o f) = v
    BY <1>5, <2>1, ReadsBoth DEF v
  <2> QED
    BY <2>2 DEF q
<1>11. Reads(s, ((a \o b) \o f) \o <<ch>>) = Takes(v, ch)
  <2> DEFINE q == (a \o b) \o f
  <2>1. q \in Seq(Chunk) /\ Reads(s, q) = v
    BY <1>10
  <2> HIDE DEF q
  <2>2. Reads(s, q \o <<ch>>) = Takes(v, ch)
    BY <1>8, <2>1, ReadsThen
  <2> QED
    BY <2>2 DEF q
<1>12. Terminal(c, type) = ((a \o b) \o f) \o <<ch>>
  BY DEF Terminal, a, b, f, ch
<1> QED
  BY <1>1, <1>3, <1>5, <1>7, <1>11, <1>12

-----------------------------------------------------------------------------
(* The parts on their way. *)

LEMMA PartAdded ==
  ASSUME NEW S, NEW q \in Seq(S), NEW p \in S
  PROVE  /\ q \o <<p>> \in Seq(S) /\ Len(q \o <<p>>) = Len(q) + 1 /\ Len(q) \in Nat
         /\ (q \o <<p>>)[Len(q) + 1] = p
         /\ \A i \in 1..Len(q) : (q \o <<p>>)[i] = q[i]
OBVIOUS

\* A sequence without its head.
LEMMA PartFirst ==
  ASSUME NEW S, NEW q \in Seq(S), NEW p \in S
  PROVE  /\ <<p>> \o q \in Seq(S) /\ Len(<<p>> \o q) = Len(q) + 1 /\ Len(q) \in Nat
         /\ (<<p>> \o q)[1] = p
         /\ \A i \in 1..Len(q) : (<<p>> \o q)[i + 1] = q[i]
OBVIOUS

\* A part more at the end: a kind that was shut stays so, if the part does not
\* open it, and the end of a block shuts its kind.
LEMMA ShutAdded ==
  ASSUME NEW q \in Seq(Part), NEW p \in Part, NEW o, NEW k,
         Ends(p, k) \/ (Shut(q, o, k, Len(q)) /\ ~ Opens(p, k))
  PROVE  Shut(q \o <<p>>, o, k, Len(q \o <<p>>))
<1> DEFINE r == q \o <<p>>
           n == Len(q)
<1>1. Len(r) = n + 1 /\ n \in Nat /\ r[n + 1] = p /\ \A i \in 1..n : r[i] = q[i]
  BY PartAdded
<1> HIDE DEF r
<1>2. CASE Ends(p, k)
  <2>1. n + 1 \in 1..n + 1 /\ Ends(r[n + 1], k) /\ \A j \in 1..n + 1 : n + 1 \in j..n + 1
    BY <1>1, <1>2
  <2> QED
    BY <1>1, <2>1 DEF Shut
<1>3. CASE Shut(q, o, k, n) /\ ~ Opens(p, k)
  <2>1. k \in o => \E l \in 1..n + 1 : Ends(r[l], k)
    BY <1>1, <1>3 DEF Shut
  <2>2. ASSUME NEW j \in 1..n + 1, Opens(r[j], k) PROVE \E l \in j..n + 1 : Ends(r[l], k)
    <3>1. j \in 1..n /\ Opens(q[j], k)
      BY <1>1, <1>3, <2>2
    <3>2. PICK l \in j..n : Ends(q[l], k)
      BY <1>3, <3>1 DEF Shut
    <3>3. l \in 1..n /\ l \in j..n + 1
      BY <1>1, <3>1
    <3> QED
      BY <1>1, <3>2, <3>3
  <2> QED
    BY <1>1, <2>1, <2>2 DEF Shut
<1> QED
  BY <1>2, <1>3 DEF r

\* Only what comes before tells whether a kind is shut.
LEMMA ShutBefore ==
  ASSUME NEW q, NEW r, NEW o, NEW k, NEW n \in Nat, \A i \in 1..n : r[i] = q[i], Shut(q, o, k, n)
  PROVE  Shut(r, o, k, n)
<1>1. k \in o => \E l \in 1..n : Ends(r[l], k)
  BY DEF Shut
<1>2. ASSUME NEW j \in 1..n, Opens(r[j], k) PROVE \E l \in j..n : Ends(r[l], k)
  <2>1. PICK l \in j..n : Ends(q[l], k)
    BY <1>2 DEF Shut
  <2> QED
    BY <2>1
<1> QED
  BY <1>1, <1>2 DEF Shut

\* A part that starts a block at the end of a bracketed sequence.
LEMMA BracketedAdded ==
  ASSUME NEW q \in Seq(Part), NEW p \in Part, NEW o, Bracketed(q, o),
         p.type = "start" => Shut(q, o, p.kind, Len(q))
  PROVE  Bracketed(q \o <<p>>, o)
<1> DEFINE r == q \o <<p>>
           n == Len(q)
<1>1. Len(r) = n + 1 /\ n \in Nat /\ r[n + 1] = p /\ \A i \in 1..n : r[i] = q[i]
  BY PartAdded
<1> HIDE DEF r
<1>2. ASSUME NEW i \in 1..n + 1, r[i].type = "start" PROVE Shut(r, o, r[i].kind, i - 1)
  <2>1. CASE i = n + 1
    <3>1. Shut(q, o, p.kind, n) /\ i - 1 = n /\ r[i] = p
      BY <1>1, <1>2, <2>1
    <3> QED
      BY <1>1, <3>1, ShutBefore
  <2>2. CASE i \in 1..n
    <3>1. Shut(q, o, r[i].kind, i - 1) /\ i - 1 \in Nat /\ \A j \in 1..i - 1 : r[j] = q[j]
      BY <1>1, <1>2, <2>2 DEF Bracketed
    <3> QED
      BY <3>1, ShutBefore
  <2> QED
    BY <1>1, <2>1, <2>2
<1> QED
  BY <1>1, <1>2 DEF Bracketed, r

\* The beginning of a bracketed sequence is bracketed.
LEMMA BracketedBefore ==
  ASSUME NEW q \in Seq(Part), NEW w \in Seq(Part), NEW o, Bracketed(q \o w, o)
  PROVE  Bracketed(q, o)
<1> DEFINE r == q \o w
<1>1. Len(r) = Len(q) + Len(w) /\ Len(q) \in Nat /\ Len(w) \in Nat /\ \A i \in 1..Len(q) : r[i] = q[i]
  OBVIOUS
<1> HIDE DEF r
<1>2. ASSUME NEW i \in 1..Len(q), q[i].type = "start" PROVE Shut(q, o, q[i].kind, i - 1)
  <2>1. i \in 1..Len(r) /\ r[i] = q[i] /\ i - 1 \in Nat /\ \A j \in 1..i - 1 : q[j] = r[j]
    BY <1>1
  <2>2. Shut(r, o, q[i].kind, i - 1)
    BY <1>2, <2>1 DEF Bracketed, r
  <2> QED
    BY <2>1, <2>2, ShutBefore
<1> QED
  BY <1>2 DEF Bracketed

\* The first part is handled: o are the kinds open before it, u after it.
LEMMA ShutRest ==
  ASSUME NEW q \in Seq(Part), NEW p \in Part, NEW o, NEW u, NEW k, NEW n \in 0..Len(q),
         k \in u => Opens(p, k) \/ (k \in o /\ ~ Ends(p, k)), Shut(<<p>> \o q, o, k, n + 1)
  PROVE  Shut(q, u, k, n)
<1> DEFINE r == <<p>> \o q
<1>1. Len(q) \in Nat /\ r[1] = p /\ \A i \in 1..Len(q) : r[i + 1] = q[i]
  BY PartFirst
<1> HIDE DEF r
<1>2. Shut(r, o, k, n + 1) /\ n \in Nat /\ \A i \in 1..n : r[i + 1] = q[i]
  BY <1>1 DEF r
<1>3. k \in u => \E l \in 1..n : Ends(q[l], k)
  <2>1. SUFFICES ASSUME k \in u PROVE \E l \in 1..n : Ends(q[l], k)
    OBVIOUS
  <2>2. PICK l \in 1..n + 1 : Ends(r[l], k)
    BY <1>1, <1>2, <2>1 DEF Shut
  <2>3. ~ Ends(r[1], k)
    BY <1>1, <2>1 DEF Opens, Ends
  <2>4. l # 1
    BY <2>2, <2>3
  <2>5. l - 1 \in 1..n /\ (l - 1) + 1 = l
    BY <1>2, <2>4
  <2> QED
    BY <1>2, <2>2, <2>5
<1>4. ASSUME NEW j \in 1..n, Opens(q[j], k) PROVE \E l \in j..n : Ends(q[l], k)
  <2>1. PICK l \in j + 1..n + 1 : Ends(r[l], k)
    <3>1. j + 1 \in 1..n + 1 /\ Opens(r[j + 1], k)
      BY <1>2, <1>4
    <3> QED
      BY <1>2, <3>1 DEF Shut
  <2>2. l - 1 \in j..n /\ l - 1 \in 1..n /\ r[(l - 1) + 1] = r[l]
    BY <1>2, <2>1
  <2> QED
    BY <1>2, <2>1, <2>2
<1> QED
  BY <1>3, <1>4 DEF Shut

\* The first part starts a block only where none of its kind is open.
LEMMA BracketedFirst ==
  ASSUME NEW q \in Seq(Part), NEW p \in Part, NEW o, Bracketed(<<p>> \o q, o), p.type = "start"
  PROVE  p.kind \notin o
<1> DEFINE r == <<p>> \o q
<1>1. Len(r) = Len(q) + 1 /\ Len(q) \in Nat /\ r[1] = p
  BY PartFirst
<1>2. \A i \in 1..Len(r) : r[i].type = "start" => Shut(r, o, r[i].kind, i - 1)
  BY DEF Bracketed
<1> HIDE DEF r
<1>3. 1 \in 1..Len(r) /\ r[1].type = "start" /\ r[1].kind = p.kind
  BY <1>1
<1>4. Shut(r, o, p.kind, 1 - 1)
  BY <1>2, <1>3
<1> QED
  BY <1>4 DEF Shut

\* What follows the first part is bracketed, from the kinds open after it.
LEMMA BracketedRest ==
  ASSUME NEW q \in Seq(Part), NEW p \in Part, NEW o, NEW u, Bracketed(<<p>> \o q, o),
         \A k \in Kind : k \in u => Opens(p, k) \/ (k \in o /\ ~ Ends(p, k))
  PROVE  Bracketed(q, u)
<1> DEFINE r == <<p>> \o q
<1>1. Len(r) = Len(q) + 1 /\ Len(q) \in Nat /\ r[1] = p /\ \A i \in 1..Len(q) : r[i + 1] = q[i]
  BY PartFirst
<1>2. \A i \in 1..Len(r) : r[i].type = "start" => Shut(r, o, r[i].kind, i - 1)
  BY DEF Bracketed
<1> HIDE DEF r
<1>3. ASSUME NEW i \in 1..Len(q), q[i].type = "start" PROVE Shut(q, u, q[i].kind, i - 1)
  <2> DEFINE k == q[i].kind
             n == i - 1
  <2>1. n \in 0..Len(q) /\ i + 1 \in 1..Len(r) /\ r[i + 1] = q[i] /\ (i + 1) - 1 = n + 1
    BY <1>1
  <2>2. Shut(r, o, k, n + 1)
    BY <1>2, <1>3, <2>1
  <2>3. k \in Kind
    <3>1. q[i] \in Part
      OBVIOUS
    <3> QED
      BY <1>3, <3>1 DEF Part, BlockPart, ToolPart, Sign
  <2> HIDE DEF k, n
  <2>4. Shut(q, u, k, n)
    BY <2>1, <2>2, <2>3, ShutRest DEF r
  <2> QED
    BY <2>4 DEF k, n
<1> QED
  BY <1>3 DEF Bracketed

\* The visible calls of one part, and of a sequence with one more part at its
\* end or its beginning.
LEMMA VisibleOne ==
  ASSUME NEW p
  PROVE  VisibleCalls(<<p>>) = IF p.type = "call" /\ p.id \notin Hidden THEN {p.id} ELSE {}
<1>1. DOMAIN <<p>> = {1} /\ <<p>>[1] = p
  OBVIOUS
<1> QED
  BY <1>1 DEF VisibleCalls

LEMMA VisibleAdded ==
  ASSUME NEW q \in Seq(Part), NEW p \in Part
  PROVE  /\ VisibleCalls(Append(q, p)) = VisibleCalls(q) \cup VisibleCalls(<<p>>)
         /\ VisibleCalls(<<p>> \o q) = VisibleCalls(q) \cup VisibleCalls(<<p>>)
<1> DEFINE r == Append(q, p)
           b == <<p>> \o q
           n == Len(q)
<1>1. n \in Nat /\ DOMAIN q = 1..n
  OBVIOUS
<1>2. DOMAIN r = 1..n + 1 /\ r[n + 1] = p /\ \A i \in 1..n : r[i] = q[i]
  OBVIOUS
<1>3. Len(b) = n + 1 /\ b[1] = p /\ (\A i \in 1..n : b[i + 1] = q[i]) /\ DOMAIN b = 1..n + 1
  <2>1. b \in Seq(Part)
    OBVIOUS
  <2> QED
    BY <2>1, PartFirst
<1> HIDE DEF r, b, n
<1>4. \A x : x \in VisibleCalls(r) <=> x \in VisibleCalls(q) \cup VisibleCalls(<<p>>)
  <2>1. \A i \in 1..n + 1 : i \in 1..n \/ i = n + 1
    BY <1>1
  <2>2. \A i \in 1..n : i \in 1..n + 1
    BY <1>1
  <2>3. n + 1 \in 1..n + 1
    BY <1>1
  <2> QED
    BY <1>1, <1>2, <2>1, <2>2, <2>3, VisibleOne DEF VisibleCalls
<1>5. \A x : x \in VisibleCalls(b) <=> x \in VisibleCalls(q) \cup VisibleCalls(<<p>>)
  <2>1. \A i \in 1..n + 1 : i = 1 \/ (i - 1 \in 1..n /\ b[i] = q[i - 1])
    <3>1. ASSUME NEW i \in 1..n + 1, i # 1 PROVE i - 1 \in 1..n /\ b[i] = q[i - 1]
      <4>1. i - 1 \in 1..n /\ (i - 1) + 1 = i
        BY <1>1, <3>1
      <4> QED
        BY <1>3, <4>1
    <3> QED
      BY <3>1
  <2>2. \A i \in 1..n : i + 1 \in 1..n + 1
    BY <1>1
  <2>3. 1 \in 1..n + 1
    BY <1>1
  <2>4. ASSUME NEW x \in VisibleCalls(b) PROVE x \in VisibleCalls(q) \cup VisibleCalls(<<p>>)
    <3>1. PICK i \in 1..n + 1 : b[i].type = "call" /\ b[i].id = x /\ x \notin Hidden
      BY <1>3 DEF VisibleCalls
    <3>2. i = 1 => x \in VisibleCalls(<<p>>)
      BY <1>3, <3>1, VisibleOne
    <3>3. i # 1 => x \in VisibleCalls(q)
      BY <1>1, <2>1, <3>1 DEF VisibleCalls
    <3> QED
      BY <3>2, <3>3
  <2>5. ASSUME NEW x \in VisibleCalls(q) PROVE x \in VisibleCalls(b)
    <3>1. PICK i \in 1..n : q[i].type = "call" /\ q[i].id = x /\ x \notin Hidden
      BY <1>1 DEF VisibleCalls
    <3>2. b[i + 1] = q[i] /\ i + 1 \in 1..n + 1
      BY <1>3, <2>2
    <3> QED
      BY <1>3, <3>1, <3>2 DEF VisibleCalls
  <2>6. VisibleCalls(<<p>>) \subseteq VisibleCalls(b)
    BY <1>3, <2>3, VisibleOne DEF VisibleCalls
  <2> QED
    BY <2>4, <2>5, <2>6
<1> QED
  BY <1>4, <1>5 DEF r, b

\* A part that is no call and no result, at the end.
LEMMA CallsOther ==
  ASSUME NEW q \in Seq(Part), NEW p \in Part, NEW seen, NEW made, NEW all, Calls(q, seen, made, all),
         p.type \notin {"call", "result"}
  PROVE  Calls(q \o <<p>>, seen, made, all)
<1> DEFINE r == q \o <<p>>
           n == Len(q)
<1>1. Len(r) = n + 1 /\ n \in Nat /\ r[n + 1] = p /\ \A i \in 1..n : r[i] = q[i]
  BY PartAdded
<1> HIDE DEF r
<1>2. \A i \in 1..n + 1 : r[i].type \in {"call", "result"} => i \in 1..n
  BY <1>1
<1>3. CallsOnce(r, seen)
  BY <1>1, <1>2 DEF Calls, CallsOnce
<1>4. ASSUME NEW i \in 1..n + 1, r[i].type = "result", r[i].id \notin Hidden \cup seen
      PROVE  \E j \in 1..i - 1 : r[j].type = "call" /\ r[j].id = r[i].id
  <2>1. i \in 1..n /\ r[i] = q[i]
    BY <1>1, <1>2, <1>4
  <2>2. PICK j \in 1..i - 1 : q[j].type = "call" /\ q[j].id = q[i].id
    BY <1>4, <2>1 DEF Calls, ResultsFollow
  <2>3. j \in 1..n
    BY <1>1, <2>1
  <2> QED
    BY <1>1, <2>1, <2>2, <2>3
<1>5. ResultsFollow(r, Hidden \cup seen)
  BY <1>1, <1>4 DEF ResultsFollow
<1>6. all => \A t \in made \ (Hidden \cup seen) : \E i \in 1..n + 1 : r[i].type = "call" /\ r[i].id = t
  <2>1. SUFFICES ASSUME all, NEW t \in made \ (Hidden \cup seen)
                 PROVE  \E i \in 1..n + 1 : r[i].type = "call" /\ r[i].id = t
    OBVIOUS
  <2>2. PICK i \in 1..n : q[i].type = "call" /\ q[i].id = t
    BY <1>1, <2>1 DEF Calls
  <2> QED
    BY <1>1, <2>2
<1>7. \A i \in 1..n + 1 : r[i].type = "call" => r[i].id \in made
  BY <1>1, <1>2 DEF Calls
<1> QED
  BY <1>1, <1>3, <1>5, <1>6, <1>7 DEF Calls, r

\* The call of a tool that was not called before.
LEMMA CallsMade ==
  ASSUME NEW q \in Seq(Part), NEW p \in Part, NEW seen, NEW made, NEW all, Calls(q, seen, made, all),
         p.type = "call", p.id \notin made
  PROVE  Calls(q \o <<p>>, seen, made \cup {p.id}, all)
<1> DEFINE r == q \o <<p>>
           n == Len(q)
           m == made \cup {p.id}
<1>1. Len(r) = n + 1 /\ n \in Nat /\ r[n + 1] = p /\ \A i \in 1..n : r[i] = q[i]
  BY PartAdded
<1> HIDE DEF r
<1>2. \A i \in 1..n : r[i].type = "call" => r[i].id \in made
  BY <1>1 DEF Calls
<1>3. CallsOnce(r, seen)
  <2>1. \A i \in 1..n + 1 : r[i].type = "call" => r[i].id \notin seen
    BY <1>1 DEF Calls, CallsOnce
  <2>2. ASSUME NEW i \in 1..n + 1, NEW j \in 1..n + 1, r[i].type = "call", r[j].type = "call", r[j].id = r[i].id
        PROVE  i = j
    <3>1. CASE i \in 1..n /\ j \in 1..n
      BY <1>1, <2>2, <3>1 DEF Calls, CallsOnce
    <3>2. CASE i = n + 1 /\ j \in 1..n
      BY <1>1, <1>2, <2>2, <3>2
    <3>3. CASE j = n + 1 /\ i \in 1..n
      BY <1>1, <1>2, <2>2, <3>3
    <3> QED
      BY <1>1, <3>1, <3>2, <3>3
  <2> QED
    BY <1>1, <2>1, <2>2 DEF CallsOnce
<1>4. ASSUME NEW i \in 1..n + 1, r[i].type = "result", r[i].id \notin Hidden \cup seen
      PROVE  \E j \in 1..i - 1 : r[j].type = "call" /\ r[j].id = r[i].id
  <2>1. i \in 1..n /\ r[i] = q[i]
    BY <1>1, <1>4
  <2>2. PICK j \in 1..i - 1 : q[j].type = "call" /\ q[j].id = q[i].id
    BY <1>4, <2>1 DEF Calls, ResultsFollow
  <2>3. j \in 1..n
    BY <1>1, <2>1
  <2> QED
    BY <1>1, <2>1, <2>2, <2>3
<1>5. ResultsFollow(r, Hidden \cup seen)
  BY <1>1, <1>4 DEF ResultsFollow
<1>6. all => \A t \in m \ (Hidden \cup seen) : \E i \in 1..n + 1 : r[i].type = "call" /\ r[i].id = t
  <2>1. SUFFICES ASSUME all, NEW t \in m \ (Hidden \cup seen)
                 PROVE  \E i \in 1..n + 1 : r[i].type = "call" /\ r[i].id = t
    OBVIOUS
  <2>2. CASE t = p.id
    BY <1>1, <2>2
  <2>3. CASE t # p.id
    <3>1. PICK i \in 1..n : q[i].type = "call" /\ q[i].id = t
      BY <1>1, <2>1, <2>3 DEF Calls
    <3> QED
      BY <1>1, <3>1
  <2> QED
    BY <2>2, <2>3
<1>7. \A i \in 1..n + 1 : r[i].type = "call" => r[i].id \in m
  BY <1>1, <1>2
<1> QED
  BY <1>1, <1>3, <1>5, <1>6, <1>7 DEF Calls, r

\* The result of a tool that was called.
LEMMA CallsEnded ==
  ASSUME NEW q \in Seq(Part), NEW p \in Part, NEW seen, NEW made, Calls(q, seen, made, TRUE),
         p.type = "result", p.id \in made
  PROVE  Calls(q \o <<p>>, seen, made, TRUE)
<1> DEFINE r == q \o <<p>>
           n == Len(q)
<1>1. Len(r) = n + 1 /\ n \in Nat /\ r[n + 1] = p /\ \A i \in 1..n : r[i] = q[i]
  BY PartAdded
<1> HIDE DEF r
<1>2. \A i \in 1..n + 1 : r[i].type = "call" => i \in 1..n
  BY <1>1
<1>3. CallsOnce(r, seen)
  BY <1>1, <1>2 DEF Calls, CallsOnce
<1>4. ASSUME NEW i \in 1..n + 1, r[i].type = "result", r[i].id \notin Hidden \cup seen
      PROVE  \E j \in 1..i - 1 : r[j].type = "call" /\ r[j].id = r[i].id
  <2>1. CASE i \in 1..n
    <3>1. r[i] = q[i]
      BY <1>1, <2>1
    <3>2. PICK j \in 1..i - 1 : q[j].type = "call" /\ q[j].id = q[i].id
      BY <1>4, <2>1, <3>1 DEF Calls, ResultsFollow
    <3>3. j \in 1..n
      BY <1>1, <2>1
    <3> QED
      BY <1>1, <3>1, <3>2, <3>3
  <2>2. CASE i = n + 1
    <3>1. p.id \in made \ (Hidden \cup seen) /\ r[i] = p
      BY <1>1, <1>4, <2>2
    <3>2. PICK j \in 1..n : q[j].type = "call" /\ q[j].id = p.id
      BY <3>1 DEF Calls
    <3>3. j \in 1..i - 1
      BY <1>1, <2>2
    <3> QED
      BY <1>1, <3>1, <3>2, <3>3
  <2> QED
    BY <1>1, <2>1, <2>2
<1>5. ResultsFollow(r, Hidden \cup seen)
  BY <1>1, <1>4 DEF ResultsFollow
<1>6. ASSUME NEW t \in made \ (Hidden \cup seen) PROVE \E i \in 1..n + 1 : r[i].type = "call" /\ r[i].id = t
  <2>1. PICK i \in 1..n : q[i].type = "call" /\ q[i].id = t
    BY <1>6 DEF Calls
  <2> QED
    BY <1>1, <2>1
<1>7. \A i \in 1..n + 1 : r[i].type = "call" => r[i].id \in made
  BY <1>1, <1>2 DEF Calls
<1> QED
  BY <1>1, <1>3, <1>5, <1>6, <1>7 DEF Calls, r

\* The run rejects: parts at the end are lost.
LEMMA CallsBefore ==
  ASSUME NEW q \in Seq(Part), NEW w \in Seq(Part), NEW seen, NEW made, NEW all, Calls(q \o w, seen, made, all)
  PROVE  Calls(q, seen, made, FALSE)
<1> DEFINE r == q \o w
<1>1. Len(r) = Len(q) + Len(w) /\ Len(q) \in Nat /\ Len(w) \in Nat /\ \A i \in 1..Len(q) : r[i] = q[i]
  OBVIOUS
<1> HIDE DEF r
<1>2. Calls(r, seen, made, all)
  BY DEF r
<1>3. \A i \in 1..Len(q) : i \in 1..Len(r)
  BY <1>1
<1>4. CallsOnce(q, seen)
  BY <1>1, <1>2, <1>3 DEF Calls, CallsOnce
<1>5. ASSUME NEW i \in 1..Len(q), q[i].type = "result", q[i].id \notin Hidden \cup seen
      PROVE  \E j \in 1..i - 1 : q[j].type = "call" /\ q[j].id = q[i].id
  <2>1. PICK j \in 1..i - 1 : r[j].type = "call" /\ r[j].id = r[i].id
    BY <1>1, <1>2, <1>3, <1>5 DEF Calls, ResultsFollow
  <2>2. j \in 1..Len(q)
    BY <1>1
  <2> QED
    BY <1>1, <2>1, <2>2
<1>6. ResultsFollow(q, Hidden \cup seen)
  BY <1>5 DEF ResultsFollow
<1>7. \A i \in 1..Len(q) : q[i].type = "call" => q[i].id \in made
  BY <1>1, <1>2, <1>3 DEF Calls
<1> QED
  BY <1>2, <1>4, <1>6, <1>7 DEF Calls

\* The first part is handled.
LEMMA CallsRest ==
  ASSUME NEW q \in Seq(Part), NEW p \in Part, NEW seen, NEW made, NEW all, Calls(<<p>> \o q, seen, made, all)
  PROVE  /\ Calls(q, IF p.type = "call" /\ p.id \notin Hidden THEN seen \cup {p.id} ELSE seen, made, all)
         /\ p.type = "call" => p.id \notin seen
         /\ p.type = "result" => p.id \in Hidden \cup seen
<1> DEFINE r == <<p>> \o q
           n == Len(q)
           now == IF p.type = "call" /\ p.id \notin Hidden THEN seen \cup {p.id} ELSE seen
<1>1. Len(r) = n + 1 /\ n \in Nat /\ r[1] = p /\ \A i \in 1..n : r[i + 1] = q[i]
  BY PartFirst
<1>2. Calls(r, seen, made, all)
  OBVIOUS
<1> HIDE DEF r
<1>3. /\ 1 \in 1..n + 1
      /\ \A i \in 1..n : i + 1 \in 1..n + 1 /\ i + 1 # 1
      /\ \A j \in 1..n + 1 : j # 1 => j - 1 \in 1..n /\ q[j - 1] = r[j]
  BY <1>1
<1>4. \A i \in 1..n : q[i].type = "call" => q[i].id \in made
  BY <1>1, <1>2, <1>3 DEF Calls
<1>5. /\ \A i \in 1..n + 1 : r[i].type = "call" => r[i].id \notin seen
      /\ \A i, j \in 1..n + 1 : r[i].type = "call" /\ r[j].type = "call" /\ r[j].id = r[i].id => i = j
  BY <1>1, <1>2 DEF Calls, CallsOnce
<1>6. CallsOnce(q, now)
  <2>1. ASSUME NEW i \in 1..n, q[i].type = "call" PROVE q[i].id \notin now
    BY <1>1, <1>3, <1>5, <2>1
  <2>2. ASSUME NEW i \in 1..n, NEW j \in 1..n, q[i].type = "call", q[j].type = "call", q[j].id = q[i].id
        PROVE  i = j
    <3>1. i + 1 = j + 1
      BY <1>1, <1>3, <1>5, <2>2
    <3> QED
      BY <3>1
  <2> QED
    BY <2>1, <2>2 DEF CallsOnce
<1>7. ASSUME NEW i \in 1..n, q[i].type = "result", q[i].id \notin Hidden \cup now
      PROVE  \E j \in 1..i - 1 : q[j].type = "call" /\ q[j].id = q[i].id
  <2>1. r[i + 1] = q[i] /\ i + 1 \in 1..n + 1 /\ q[i].id \notin Hidden \cup seen
    BY <1>1, <1>3, <1>7
  <2>2. PICK j \in 1..(i + 1) - 1 : r[j].type = "call" /\ r[j].id = r[i + 1].id
    BY <1>1, <1>2, <1>7, <2>1 DEF Calls, ResultsFollow
  <2>3. j # 1
    BY <1>1, <1>7, <2>1, <2>2
  <2>4. j - 1 \in 1..i - 1 /\ j \in 1..n + 1
    BY <1>1, <2>3
  <2> QED
    BY <1>3, <2>1, <2>2, <2>3, <2>4
<1>8. ResultsFollow(q, Hidden \cup now)
  BY <1>7 DEF ResultsFollow
<1>9. all => \A t \in made \ (Hidden \cup now) : \E i \in 1..n : q[i].type = "call" /\ q[i].id = t
  <2>1. SUFFICES ASSUME all, NEW t \in made \ (Hidden \cup now)
                 PROVE  \E i \in 1..n : q[i].type = "call" /\ q[i].id = t
    OBVIOUS
  <2>2. t \in made \ (Hidden \cup seen)
    BY <2>1
  <2>3. PICK i \in 1..n + 1 : r[i].type = "call" /\ r[i].id = t
    BY <1>1, <1>2, <2>1, <2>2 DEF Calls
  <2>4. i # 1
    BY <1>1, <2>1, <2>3
  <2> QED
    BY <1>3, <2>3, <2>4
<1>10. now \subseteq made \ Hidden
  BY <1>1, <1>2, <1>3 DEF Calls
<1>11. p.type = "result" => p.id \in Hidden \cup seen
  <2>1. SUFFICES ASSUME p.type = "result", p.id \notin Hidden \cup seen PROVE FALSE
    OBVIOUS
  <2>2. \E j \in 1..1 - 1 : r[j].type = "call" /\ r[j].id = r[1].id
    BY <1>1, <1>2, <1>3, <2>1 DEF Calls, ResultsFollow
  <2> QED
    BY <2>2
<1>12. p.type = "call" => p.id \notin seen
  BY <1>1, <1>3, <1>5
<1> QED
  BY <1>4, <1>6, <1>8, <1>9, <1>10, <1>11, <1>12 DEF Calls

-----------------------------------------------------------------------------
(* What the steps do to the parts on their way. *)

LEMMA SeqFacts ==
  ASSUME NEW S, NEW q \in Seq(S)
  PROVE  /\ q \o <<>> = q /\ <<>> \o q = q
         /\ \A p : Append(q, p) = q \o <<p>>
         /\ q # <<>> => q = <<Head(q)>> \o Tail(q) /\ Head(q) \in S /\ Tail(q) \in Seq(S)
OBVIOUS

\* Concatenation of parts is associative.
LEMMA Regroup == \A q, r, w \in Seq(Part) : q \o r \in Seq(Part) /\ (q \o r) \o w = q \o (r \o w)
BY ConcatAssociative

\* What the translator makes are parts.
LEMMA PartTypes ==
  /\ \A type \in {"start", "delta", "end"}, k \in Kind, id \in Ids : BlockIs(type, k, id) \in BlockPart
  /\ \A type \in {"call", "result"}, t \in Tool : ToolIs(type, t) \in ToolPart
  /\ BlockPart \cup ToolPart \cup {Sign("finish"), Sign("error")} = Part
  /\ \A p \in BlockPart \cup ToolPart : ~ IsSign(p)
  /\ \A p \in Part : IsSign(p) <=> p \in {Sign("finish"), Sign("error")}
BY DEF BlockIs, BlockPart, ToolIs, ToolPart, Part, IsSign, Sign

InHand == IF reader = "has part" THEN <<hand>> ELSE <<>>

\* Rest is a sequence of parts.
LEMMA RestType ==
  ASSUME Types
  PROVE  /\ InHand \in Seq(Part) /\ buffer \in Seq(Part) /\ wire \in Seq(Part) /\ buffer \o wire \in Seq(Part)
         /\ Rest = InHand \o (buffer \o wire) /\ Rest \in Seq(Part)
<1>1. buffer \in Seq(Part) /\ wire \in Seq(Part) /\ hand \in Part
  BY DEF Types
<1>2. <<hand>> \in Seq(Part) /\ <<>> \in Seq(Part)
  BY <1>1
<1>3. InHand \in Seq(Part)
  BY <1>2 DEF InHand
<1>4. Rest = InHand \o (buffer \o wire)
  BY DEF InHand, Rest
<1> HIDE DEF InHand, Rest
<1> QED
  BY <1>1, <1>3, <1>4, Regroup

\* Pi emits parts.
LEMMA RestGrows ==
  ASSUME Types, NEW more \in Seq(Part), wire' = wire \o more, UNCHANGED queueVars
  PROVE  Rest' = Rest \o more
<1> DEFINE y == buffer \o wire
<1>1. Rest' = InHand \o (buffer \o (wire \o more))
  <2>1. buffer' = buffer /\ reader' = reader /\ hand' = hand
    BY DEF queueVars
  <2> QED
    BY <2>1 DEF Rest, InHand
<1>2. InHand \in Seq(Part) /\ buffer \in Seq(Part) /\ wire \in Seq(Part) /\ Rest = InHand \o y
  BY RestType
<1>3. more \in Seq(Part)
  OBVIOUS
<1>4. y \in Seq(Part) /\ buffer \o (wire \o more) = y \o more
  <2>1. buffer \in Seq(Part) /\ wire \in Seq(Part)
    BY <1>2
  <2> QED
    BY <1>3, <2>1, Regroup
<1> HIDE DEF y
<1>5. (InHand \o y) \o more = InHand \o (y \o more)
  <2>1. InHand \in Seq(Part) /\ y \in Seq(Part)
    BY <1>2, <1>4
  <2> QED
    BY <1>3, <2>1, Regroup
<1> QED
  BY <1>1, <1>2, <1>4, <1>5

\* The run hands a part on.
LEMMA RestPushed ==
  ASSUME Types, reader = "waits" => buffer = <<>>, wire # <<>>, wire' = Tail(wire), Push(Head(wire))
  PROVE  Rest' = Rest
<1> DEFINE h == Head(wire)
           w == Tail(wire)
<1>1. wire = <<h>> \o w /\ h \in Part /\ w \in Seq(Part)
  BY RestType, SeqFacts
<1> HIDE DEF h, w
<1>2. CASE reader = "waits"
  <2>1. buffer = <<>> /\ buffer' = <<>> /\ Rest = <<>> \o (<<>> \o wire) /\ Rest' = <<h>> \o (<<>> \o w)
    BY <1>2 DEF Push, Rest, h, w
  <2>2. <<>> \o wire = wire /\ <<>> \o w = w
    BY <1>1, RestType, SeqFacts
  <2> QED
    BY <1>1, <2>1, <2>2
<1>3. CASE reader # "waits"
  <2>1. buffer' = buffer \o <<h>> /\ reader' = reader /\ hand' = hand
    <3>1. buffer' = Append(buffer, h) /\ reader' = reader /\ hand' = hand
      BY <1>3 DEF Push, h
    <3>2. Append(buffer, h) = buffer \o <<h>>
      BY RestType, SeqFacts
    <3> QED
      BY <3>1, <3>2
  <2>2. Rest' = InHand \o ((buffer \o <<h>>) \o w)
    BY <2>1 DEF Rest, InHand, w
  <2>3. <<h>> \in Seq(Part)
    BY <1>1
  <2>4. (buffer \o <<h>>) \o w = buffer \o wire
    BY <1>1, <2>3, RestType, Regroup
  <2> QED
    BY <2>2, <2>4, RestType
<1> QED
  BY <1>2, <1>3

\* The reader takes a part from the queue.
LEMMA RestTaken ==
  ASSUME Types, ReaderNext
  PROVE  Rest' = Rest
<1>1. Rest = <<>> \o (buffer \o wire) /\ wire' = wire
  BY DEF ReaderNext, Rest
<1>2. CASE buffer # <<>>
  <2> DEFINE h == Head(buffer)
             b == Tail(buffer)
  <2>1. buffer = <<h>> \o b /\ h \in Part /\ b \in Seq(Part)
    BY <1>2, RestType, SeqFacts
  <2>2. Rest' = <<h>> \o (b \o wire)
    BY <1>2 DEF ReaderNext, Rest
  <2> HIDE DEF h, b
  <2>3. <<h>> \in Seq(Part)
    BY <2>1
  <2>4. <<h>> \o (b \o wire) = buffer \o wire
    <3>1. wire \in Seq(Part)
      BY RestType
    <3>2. (<<h>> \o b) \o wire = <<h>> \o (b \o wire)
      BY <2>1, <2>3, <3>1, Regroup
    <3> QED
      BY <2>1, <3>2
  <2>5. Rest = buffer \o wire
    BY <1>1, RestType, SeqFacts
  <2> QED
    BY <2>2, <2>4, <2>5
<1>3. CASE buffer = <<>>
  BY <1>1, <1>3 DEF ReaderNext, Rest
<1> QED
  BY <1>2, <1>3

\* A block part, or none, at the end.
LEMMA PieceAdded ==
  ASSUME NEW q \in Seq(Part), NEW p, NEW x, x = <<>> \/ (x = <<p>> /\ p \in BlockPart),
         NEW o, NEW seen, NEW made, NEW all, Bracketed(q, o), Calls(q, seen, made, all),
         x # <<>> /\ p.type = "start" => Shut(q, o, p.kind, Len(q))
  PROVE  /\ q \o x \in Seq(Part) /\ Bracketed(q \o x, o) /\ Calls(q \o x, seen, made, all)
         /\ \A k : Shut(q, o, k, Len(q)) /\ ~ Opens(p, k) => Shut(q \o x, o, k, Len(q \o x))
         /\ \A k : x # <<>> /\ Ends(p, k) => Shut(q \o x, o, k, Len(q \o x))
<1>1. CASE x = <<>>
  <2>1. q \o x = q
    BY <1>1, SeqFacts
  <2> QED
    BY <1>1, <2>1
<1>2. CASE x # <<>>
  <2>1. x = <<p>> /\ p \in Part /\ p.type \notin {"call", "result"}
    BY <1>2 DEF Part, BlockPart
  <2>2. q \o <<p>> \in Seq(Part) /\ Bracketed(q \o <<p>>, o) /\ Calls(q \o <<p>>, seen, made, all)
    BY <1>2, <2>1, PartAdded, BracketedAdded, CallsOther
  <2>3. \A k : Ends(p, k) \/ (Shut(q, o, k, Len(q)) /\ ~ Opens(p, k)) => Shut(q \o <<p>>, o, k, Len(q \o <<p>>))
    BY <2>1, ShutAdded
  <2> QED
    BY <2>1, <2>2, <2>3
<1> QED
  BY <1>1, <1>2

NoSigns(w) == w \in Seq(Part) /\ \A i \in 1..Len(w) : ~ IsSign(w[i])

\* One more part that is no sign.
LEMMA SignsAdded ==
  ASSUME NEW w, NoSigns(w), NEW p, NEW x, x = <<>> \/ (x = <<p>> /\ p \in BlockPart \cup ToolPart)
  PROVE  NoSigns(w \o x)
<1>1. CASE x = <<>>
  BY <1>1, SeqFacts DEF NoSigns
<1>2. CASE x # <<>>
  <2>1. x = <<p>> /\ p \in Part /\ ~ IsSign(p) /\ w \in Seq(Part)
    BY <1>2, PartTypes DEF Part, NoSigns
  <2>2. w \o <<p>> \in Seq(Part) /\ \A i \in 1..Len(w \o <<p>>) : (w \o <<p>>)[i] = p \/ (i \in 1..Len(w) /\ (w \o <<p>>)[i] = w[i])
    BY <2>1, PartAdded
  <2> QED
    BY <2>1, <2>2 DEF NoSigns
<1> QED
  BY <1>1, <1>2

\* One part of a block, or none.
Piece(x) == x = <<>> \/ \E p \in BlockPart : x = <<p>>

\* A piece is a sequence of parts without signs.
LEMMA PieceSeq ==
  ASSUME NEW x, Piece(x)
  PROVE  /\ x \in Seq(Part)
         /\ \A w : NoSigns(w) => NoSigns(w \o x)
<1>1. CASE x = <<>>
  BY <1>1, SeqFacts DEF NoSigns
<1>2. CASE x # <<>>
  <2>1. PICK p \in BlockPart : x = <<p>>
    BY <1>2 DEF Piece
  <2>2. p \in Part
    BY DEF Part
  <2> QED
    BY <2>1, <2>2, SignsAdded
<1> QED
  BY <1>1, <1>2

\* Three pieces at the end of a sequence, as one.
LEMMA RegroupFour ==
  ASSUME NEW q \in Seq(Part), NEW a \in Seq(Part), NEW b \in Seq(Part), NEW c \in Seq(Part)
  PROVE  ((q \o a) \o b) \o c = q \o ((a \o b) \o c) /\ (a \o b) \o c \in Seq(Part)
<1> DEFINE x == a \o b
<1>1. x \in Seq(Part) /\ (q \o a) \o b = q \o x
  BY Regroup
<1> HIDE DEF x
<1>2. (q \o x) \o c = q \o (x \o c) /\ x \o c \in Seq(Part)
  BY <1>1, Regroup
<1> QED
  BY <1>1, <1>2 DEF x

-----------------------------------------------------------------------------
(* The steps. *)

LEMMA Parted ==
  ASSUME StreamInv
  PROVE  /\ Types /\ PhaseInv /\ BodyInv /\ ~ client.lost
         /\ response = "open" => Mirrors(conv, client) /\ BlockInv /\ CallInv
         /\ pi # "off" => NoSigns(wire) /\ run = "turn"
         /\ MaxEvents \in Nat
BY StreamAssumption DEF StreamInv, Mirrors, Types, PhaseInv, NoSigns

\* An event of Pi: what it leaves as it is, and what is to be shown of it.
Emitted == run = "turn" /\ pi # "off" /\ UNCHANGED <<run, turns, queueVars, chunkVars>>

\* An event that emits no sign keeps PhaseInv.
LEMMA PhaseEmitted ==
  ASSUME StreamInv, Emitted, pi' \in {"turn", "message"}, NoSigns(wire'),
         pi' = "turn" => \A k \in Kind : block'[k] = 0
  PROVE  PhaseInv'
BY Parted DEF PhaseInv, NoSigns, Emitted, queueVars, chunkVars, Done

\* What is to be shown of an event of Pi, for the invariant.
LEMMA InvEmitted ==
  ASSUME StreamInv, Emitted, Types', PhaseInv', response = "open" => BlockInv' /\ CallInv'
  PROVE  StreamInv'
<1>1. /\ UNCHANGED <<conv, response, client>> /\ run = "turn"
      /\ BodyInv /\ ~ client.lost
      /\ response = "open" => Mirrors(conv, client)
  BY Parted DEF Emitted, chunkVars
<1>2. BodyInv'
  BY <1>1 DEF BodyInv, Done
<1>3. response' = "open" => MirrorInv(conv', client')
  BY <1>1 DEF Mirrors
<1> QED
  BY <1>1, <1>2, <1>3 DEF StreamInv

\* A message starts: no block is open.
LEMMA MessageStartsStep ==
  ASSUME StreamInv, MessageStarts PROVE StreamInv'
<1>1. /\ Types /\ pi = "turn" /\ events < MaxEvents /\ MaxEvents \in Nat /\ NoSigns(wire)
      /\ \A k \in Kind : block[k] = 0
  BY Parted DEF MessageStarts, Event, PhaseInv
<1>2. /\ Emitted /\ pi' = "message" /\ events' = events + 1 /\ block' = [k \in Kind |-> 0]
      /\ UNCHANGED <<running, called, nextId, wire>>
  BY <1>1, Parted DEF MessageStarts, Event, Emitted
<1>3. UNCHANGED <<turns, run, buffer, hand, reader, conv, response, client>>
  BY <1>2 DEF Emitted, queueVars, chunkVars
<1>4. Types'
  <2>1. events \in 0..MaxEvents /\ nextId \in 1..events + 1
    BY <1>1 DEF Types
  <2>2. events' \in 0..MaxEvents /\ nextId' \in 1..events' + 1
    BY <1>1, <1>2, <2>1
  <2>3. block' \in [Kind -> 0..MaxEvents]
    BY <1>1, <1>2
  <2> QED
    BY <1>1, <1>2, <1>3, <2>2, <2>3 DEF Types
<1>5. PhaseInv'
  BY <1>1, <1>2, PhaseEmitted
<1>6. Rest' = Rest /\ OpenKinds' = OpenKinds
  BY <1>2, <1>3 DEF Rest, OpenKinds
<1>7. ASSUME response = "open" PROVE BlockInv' /\ CallInv'
  <2>1. BlockInv /\ CallInv /\ MoreToCome
    BY <1>1, <1>2, <1>7, Parted DEF MoreToCome, Emitted
  <2>2. BlockInv'
    BY <1>1, <1>6, <2>1 DEF BlockInv
  <2>3. CallInv'
    BY <1>2, <1>3, <1>6, <2>1 DEF CallInv
  <2> QED
    BY <2>2, <2>3
<1> QED
  BY <1>2, <1>4, <1>5, <1>7, InvEmitted

\* Up to three parts of blocks at once.
LEMMA PiecesEmitted ==
  ASSUME StreamInv, Emitted, NEW a, NEW b, NEW c, Piece(a), Piece(b), Piece(c),
         wire' = ((wire \o a) \o b) \o c
  PROVE  NoSigns(wire') /\ Rest' = ((Rest \o a) \o b) \o c
<1>1. Types /\ NoSigns(wire) /\ UNCHANGED queueVars
  BY Parted DEF Emitted
<1>2. NoSigns(wire')
  <2>1. NoSigns(wire \o a)
    BY <1>1, PieceSeq
  <2>2. NoSigns((wire \o a) \o b)
    BY <2>1, PieceSeq
  <2>3. NoSigns(((wire \o a) \o b) \o c)
    BY <2>2, PieceSeq
  <2> QED
    BY <2>3
<1>3. Rest' = ((Rest \o a) \o b) \o c
  <2>1. a \in Seq(Part) /\ b \in Seq(Part) /\ c \in Seq(Part)
    BY PieceSeq
  <2>2. wire' = wire \o ((a \o b) \o c) /\ (a \o b) \o c \in Seq(Part)
    <3>1. wire \in Seq(Part)
      BY <1>1 DEF NoSigns
    <3>2. ((wire \o a) \o b) \o c = wire \o ((a \o b) \o c) /\ (a \o b) \o c \in Seq(Part)
      BY <2>1, <3>1, RegroupFour
    <3> QED
      BY <3>2
  <2>3. Rest' = Rest \o ((a \o b) \o c)
    BY <1>1, <2>2, RestGrows
  <2>4. Rest \in Seq(Part)
    BY <1>1, RestType
  <2> DEFINE q == Rest
  <2> HIDE DEF q
  <2>5. ((q \o a) \o b) \o c = q \o ((a \o b) \o c) /\ (a \o b) \o c \in Seq(Part)
    <3>1. q \in Seq(Part)
      BY <2>4 DEF q
    <3>2. a \in Seq(Part) /\ b \in Seq(Part) /\ c \in Seq(Part)
      BY <2>1
    <3> QED
      BY <3>1, <3>2, RegroupFour
  <2> QED
    BY <2>3, <2>5 DEF q
<1> QED
  BY <1>2, <1>3

\* A delta closes the other kind, opens its own if need be.
LEMMA DeltaStep ==
  ASSUME StreamInv, NEW k \in Kind, Delta(k) PROVE StreamInv'
<1> DEFINE o == Other(k)
           id == IF block[k] = 0 THEN nextId ELSE block[k]
           pa == BlockIs("end", o, block[o])
           pb == BlockIs("start", k, id)
           pc == BlockIs("delta", k, id)
           a == IF block[o] # 0 THEN <<pa>> ELSE <<>>
           b == IF block[k] = 0 THEN <<pb>> ELSE <<>>
           c == <<pc>>
<1>1. /\ Types /\ pi = "message" /\ events < MaxEvents /\ MaxEvents \in Nat /\ NoSigns(wire)
      /\ events \in 0..MaxEvents /\ nextId \in 1..events + 1 /\ block \in [Kind -> 0..MaxEvents]
  BY Parted DEF Delta, Event, Types
<1>2. /\ Emitted /\ pi' = "message" /\ events' = events + 1
      /\ wire' = ((wire \o a) \o b) \o c /\ block' = [block EXCEPT ![k] = id, ![o] = 0]
      /\ nextId' = (IF block[k] = 0 THEN nextId + 1 ELSE nextId)
      /\ UNCHANGED <<running, called>>
  BY <1>1, Parted DEF Delta, Event, Emitted
<1>3. o \in Kind /\ o # k /\ Kind = {k, o}
  BY DEF Other, Kind
<1>4. id \in Ids
  BY <1>1 DEF Ids
<1>5. /\ a = <<>> \/ (a = <<pa>> /\ pa \in BlockPart)
      /\ b = <<>> \/ (b = <<pb>> /\ pb \in BlockPart)
      /\ c = <<>> \/ (c = <<pc>> /\ pc \in BlockPart)
  <2>1. block[o] # 0 => block[o] \in Ids
    BY <1>1, <1>3 DEF Ids
  <2> HIDE DEF id, o
  <2>2. pb \in BlockPart /\ pc \in BlockPart /\ (block[o] # 0 => pa \in BlockPart)
    BY <1>3, <1>4, <2>1, PartTypes
  <2> HIDE DEF pa, pb, pc
  <2> QED
    BY <2>2
<1>6. /\ \A j : Opens(pa, j) = FALSE /\ Ends(pa, j) = (j = o)
      /\ \A j : Opens(pb, j) = (j = k) /\ Opens(pc, j) = (j = k)
      /\ pa.type = "end" /\ pb.type = "start" /\ pb.kind = k /\ pc.type = "delta"
  BY DEF Opens, Ends, BlockIs
<1>7. block' \in [Kind -> 0..MaxEvents] /\ block'[k] # 0 /\ block'[o] = 0
  <2> HIDE DEF id, o
  <2>1. id \in 0..MaxEvents /\ id # 0
    BY <1>4 DEF Ids
  <2> QED
    BY <1>1, <1>2, <1>3, <2>1
<1>8. nextId' \in 1..events' + 1
  BY <1>1, <1>2
<1> HIDE DEF o, id, pa, pb, pc
<1>9. (a # <<>> <=> block[o] # 0) /\ (b # <<>> <=> block[k] = 0) /\ c # <<>>
  OBVIOUS
<1> HIDE DEF a, b, c
<1>10. NoSigns(wire') /\ Rest' = ((Rest \o a) \o b) \o c
  <2>1. Piece(a) /\ Piece(b) /\ Piece(c)
    BY <1>5 DEF Piece
  <2> QED
    BY <1>2, <2>1, PiecesEmitted, ZenonT(60)
<1>11. UNCHANGED <<turns, run, buffer, hand, reader, conv, response, client>>
  BY <1>2 DEF Emitted, queueVars, chunkVars
<1>12. Types'
  <2>1. events' \in 0..MaxEvents /\ wire' \in Seq(Part)
    BY <1>1, <1>2, <1>10 DEF NoSigns
  <2> QED
    BY <1>1, <1>2, <1>7, <1>8, <1>11, <2>1 DEF Types
<1>13. PhaseInv'
  BY <1>2, <1>10, PhaseEmitted
<1>14. OpenKinds' = OpenKinds
  BY <1>11 DEF OpenKinds
<1>15. ASSUME response = "open" PROVE BlockInv' /\ CallInv'
  <2> DEFINE q == Rest
             s == client.inputs
             all == run \notin Cut
             O == OpenKinds
             q1 == q \o a
             q2 == q1 \o b
             q3 == q2 \o c
  <2>1. /\ q \in Seq(Part) /\ Bracketed(q, O) /\ Calls(q, s, called, all)
        /\ \A j \in Kind : block[j] = 0 => Shut(q, O, j, Len(q))
    <3>1. BlockInv /\ CallInv /\ MoreToCome
      BY <1>1, <1>2, <1>15, Parted DEF MoreToCome, Emitted
    <3> QED
      BY <1>1, <3>1, RestType DEF BlockInv, CallInv
  <2> HIDE DEF q, s, all, O
  <2>2. /\ q1 \in Seq(Part) /\ Bracketed(q1, O) /\ Calls(q1, s, called, all)
        /\ \A j : Shut(q, O, j, Len(q)) /\ ~ Opens(pa, j) => Shut(q1, O, j, Len(q1))
        /\ \A j : a # <<>> /\ Ends(pa, j) => Shut(q1, O, j, Len(q1))
    BY <1>5, <1>6, <2>1, PieceAdded
  <2>3. Shut(q1, O, o, Len(q1)) /\ (block[k] = 0 => Shut(q1, O, k, Len(q1)))
    BY <1>3, <1>6, <1>9, <2>1, <2>2
  <2> HIDE DEF q1
  <2>4. /\ q2 \in Seq(Part) /\ Bracketed(q2, O) /\ Calls(q2, s, called, all)
        /\ \A j : Shut(q1, O, j, Len(q1)) /\ ~ Opens(pb, j) => Shut(q2, O, j, Len(q2))
    <3>1. b # <<>> /\ pb.type = "start" => Shut(q1, O, pb.kind, Len(q1))
      BY <1>6, <1>9, <2>3
    <3> QED
      BY <1>5, <2>2, <3>1, PieceAdded
  <2>5. Shut(q2, O, o, Len(q2))
    BY <1>3, <1>6, <2>3, <2>4
  <2> HIDE DEF q2
  <2>6. /\ q3 \in Seq(Part) /\ Bracketed(q3, O) /\ Calls(q3, s, called, all)
        /\ \A j : Shut(q2, O, j, Len(q2)) /\ ~ Opens(pc, j) => Shut(q3, O, j, Len(q3))
    <3>1. c # <<>> /\ pc.type = "start" => Shut(q2, O, pc.kind, Len(q2))
      BY <1>6
    <3> QED
      BY <1>5, <2>4, <3>1, PieceAdded
  <2>7. Shut(q3, O, o, Len(q3))
    BY <1>3, <1>6, <2>5, <2>6
  <2>8. Rest' = q3
    BY <1>10 DEF q3, q2, q1, q
  <2> HIDE DEF q3
  <2>9. BlockInv'
    BY <1>2, <1>3, <1>7, <1>14, <2>6, <2>7, <2>8 DEF BlockInv, O
  <2>10. CallInv'
    BY <1>2, <1>11, <2>6, <2>8 DEF CallInv, s, all
  <2> QED
    BY <2>9, <2>10
<1> QED
  BY <1>2, <1>12, <1>13, <1>15, InvEmitted

\* The end of a message shuts both kinds.
LEMMA MessageEndsStep ==
  ASSUME StreamInv, NEW gap, MessageEnds(gap) PROVE StreamInv'
<1> DEFINE pa == BlockIs("delta", "text", block["text"])
           pb == BlockIs("end", "text", block["text"])
           pc == BlockIs("end", "reasoning", block["reasoning"])
           a == IF gap /\ block["text"] # 0 THEN <<pa>> ELSE <<>>
           b == IF block["text"] # 0 THEN <<pb>> ELSE <<>>
           c == IF block["reasoning"] # 0 THEN <<pc>> ELSE <<>>
<1>1. /\ Types /\ pi = "message" /\ events < MaxEvents /\ MaxEvents \in Nat
      /\ events \in 0..MaxEvents /\ nextId \in 1..events + 1 /\ block \in [Kind -> 0..MaxEvents]
  BY Parted DEF MessageEnds, Event, Types
<1>2. /\ Emitted /\ pi' = "turn" /\ events' = events + 1
      /\ wire' = ((wire \o a) \o b) \o c /\ block' = [k \in Kind |-> 0]
      /\ UNCHANGED <<running, called, nextId>>
  BY <1>1, Parted DEF MessageEnds, Event, Emitted
<1>3. "text" \in Kind /\ "reasoning" \in Kind /\ Kind = {"text", "reasoning"}
  BY DEF Kind
<1>4. /\ a = <<>> \/ (a = <<pa>> /\ pa \in BlockPart)
      /\ b = <<>> \/ (b = <<pb>> /\ pb \in BlockPart)
      /\ c = <<>> \/ (c = <<pc>> /\ pc \in BlockPart)
  <2>1. \A k \in Kind : block[k] # 0 => block[k] \in Ids
    BY <1>1 DEF Ids
  <2>2. /\ block["text"] # 0 => pa \in BlockPart /\ pb \in BlockPart
        /\ block["reasoning"] # 0 => pc \in BlockPart
    BY <1>3, <2>1, PartTypes
  <2> HIDE DEF pa, pb, pc
  <2> QED
    BY <2>2
<1>5. /\ \A j : Opens(pa, j) = (j = "text") /\ Opens(pb, j) = FALSE /\ Opens(pc, j) = FALSE
      /\ Ends(pb, "text") /\ Ends(pc, "reasoning")
      /\ pa.type = "delta" /\ pb.type = "end" /\ pc.type = "end"
  BY DEF Opens, Ends, BlockIs
<1> HIDE DEF pa, pb, pc
<1>6. (a # <<>> => block["text"] # 0) /\ (b # <<>> <=> block["text"] # 0) /\ (c # <<>> <=> block["reasoning"] # 0)
  OBVIOUS
<1> HIDE DEF a, b, c
<1>7. NoSigns(wire') /\ Rest' = ((Rest \o a) \o b) \o c
  <2>1. Piece(a) /\ Piece(b) /\ Piece(c)
    BY <1>4 DEF Piece
  <2>2. Emitted /\ wire' = ((wire \o a) \o b) \o c
    BY <1>2
  <2> QED
    BY <2>1, <2>2, PiecesEmitted, ZenonT(60)
<1>8. UNCHANGED <<turns, run, buffer, hand, reader, conv, response, client>>
  BY <1>2 DEF Emitted, queueVars, chunkVars
<1>9. Types'
  <2>1. events' \in 0..MaxEvents /\ nextId' \in 1..events' + 1
    BY <1>1, <1>2
  <2>2. block' \in [Kind -> 0..MaxEvents] /\ wire' \in Seq(Part)
    BY <1>1, <1>2, <1>7 DEF NoSigns
  <2> QED
    BY <1>1, <1>2, <1>8, <2>1, <2>2 DEF Types
<1>10. PhaseInv'
  BY <1>2, <1>7, PhaseEmitted
<1>11. OpenKinds' = OpenKinds
  BY <1>8 DEF OpenKinds
<1>12. ASSUME response = "open" PROVE BlockInv' /\ CallInv'
  <2> DEFINE q == Rest
             s == client.inputs
             all == run \notin Cut
             O == OpenKinds
             q1 == q \o a
             q2 == q1 \o b
             q3 == q2 \o c
  <2>1. /\ q \in Seq(Part) /\ Bracketed(q, O) /\ Calls(q, s, called, all)
        /\ \A j \in Kind : block[j] = 0 => Shut(q, O, j, Len(q))
    <3>1. BlockInv /\ CallInv /\ MoreToCome
      BY <1>1, <1>2, <1>12, Parted DEF MoreToCome, Emitted
    <3> QED
      BY <1>1, <3>1, RestType DEF BlockInv, CallInv
  <2> HIDE DEF q, s, all, O
  <2>2. /\ q1 \in Seq(Part) /\ Bracketed(q1, O) /\ Calls(q1, s, called, all)
        /\ \A j : Shut(q, O, j, Len(q)) /\ ~ Opens(pa, j) => Shut(q1, O, j, Len(q1))
    <3>1. ~ (a # <<>> /\ pa.type = "start")
      BY <1>5
    <3> QED
      BY <1>4, <2>1, <3>1, PieceAdded
  <2>3. block["text"] = 0 => q1 = q
    BY <1>6, <2>1, SeqFacts
  <2> HIDE DEF q1
  <2>4. /\ q2 \in Seq(Part) /\ Bracketed(q2, O) /\ Calls(q2, s, called, all)
        /\ \A j : Shut(q1, O, j, Len(q1)) /\ ~ Opens(pb, j) => Shut(q2, O, j, Len(q2))
        /\ \A j : b # <<>> /\ Ends(pb, j) => Shut(q2, O, j, Len(q2))
    <3>1. ~ (b # <<>> /\ pb.type = "start")
      BY <1>5
    <3> QED
      BY <1>4, <2>2, <3>1, PieceAdded
  <2>5. Shut(q2, O, "text", Len(q2))
    BY <1>3, <1>5, <1>6, <2>1, <2>3, <2>4
  <2>6. block["reasoning"] = 0 => Shut(q2, O, "reasoning", Len(q2))
    BY <1>3, <1>5, <2>1, <2>2, <2>4
  <2> HIDE DEF q2
  <2>7. /\ q3 \in Seq(Part) /\ Bracketed(q3, O) /\ Calls(q3, s, called, all)
        /\ \A j : Shut(q2, O, j, Len(q2)) /\ ~ Opens(pc, j) => Shut(q3, O, j, Len(q3))
        /\ \A j : c # <<>> /\ Ends(pc, j) => Shut(q3, O, j, Len(q3))
    <3>1. ~ (c # <<>> /\ pc.type = "start")
      BY <1>5
    <3> QED
      BY <1>4, <2>4, <3>1, PieceAdded
  <2>8. Shut(q3, O, "text", Len(q3)) /\ Shut(q3, O, "reasoning", Len(q3))
    BY <1>5, <1>6, <2>5, <2>6, <2>7
  <2>9. Rest' = q3
    BY <1>7 DEF q3, q2, q1, q
  <2> HIDE DEF q3
  <2>10. BlockInv'
    BY <1>3, <1>11, <2>7, <2>8, <2>9 DEF BlockInv, O
  <2>11. CallInv'
    BY <1>2, <1>8, <2>7, <2>9 DEF CallInv, s, all
  <2> QED
    BY <2>10, <2>11
<1>13. pi' = "turn" => \A k \in Kind : block'[k] = 0
  BY <1>2
<1> QED
  BY <1>2, <1>9, <1>10, <1>12, InvEmitted

\* A call is added, of a tool not called before.
LEMMA ToolStartsStep ==
  ASSUME StreamInv, NEW t \in Tool, ToolStarts(t) PROVE StreamInv'
<1> DEFINE p == ToolIs("call", t)
<1>1. /\ Types /\ pi = "turn" /\ events < MaxEvents /\ MaxEvents \in Nat /\ NoSigns(wire) /\ wire \in Seq(Part)
      /\ t \notin called /\ events \in 0..MaxEvents /\ nextId \in 1..events + 1
      /\ \A k \in Kind : block[k] = 0
  BY Parted DEF ToolStarts, Event, Types, PhaseInv
<1>2. p \in ToolPart /\ p \in Part /\ p.type = "call" /\ p.id = t
  BY PartTypes DEF ToolIs, Part
<1>3. /\ Emitted /\ events' = events + 1
      /\ running' = running \cup {t} /\ called' = called \cup {t}
      /\ wire' = Append(wire, p)
      /\ UNCHANGED <<pi, block, nextId>>
  BY <1>1, Parted DEF ToolStarts, Event, Emitted
<1>4. \A k : ~ Opens(p, k)
  BY <1>2 DEF Opens
<1> HIDE DEF p
<1>5. wire' = wire \o <<p>> /\ <<p>> \in Seq(Part)
  BY <1>1, <1>2, <1>3, SeqFacts
<1>6. NoSigns(wire')
  BY <1>1, <1>2, <1>5, SignsAdded
<1>7. UNCHANGED <<turns, run, buffer, hand, reader, conv, response, client>>
  BY <1>3 DEF Emitted, queueVars, chunkVars
<1>8. Types'
  <2>1. events' \in 0..MaxEvents /\ nextId' \in 1..events' + 1
    BY <1>1, <1>3
  <2>2. wire' \in Seq(Part) /\ running' \subseteq called' /\ called' \subseteq Tool
    BY <1>1, <1>3, <1>6 DEF NoSigns, Types
  <2> QED
    BY <1>1, <1>3, <1>7, <2>1, <2>2 DEF Types
<1>9. PhaseInv'
  BY <1>1, <1>3, <1>6, PhaseEmitted
<1>10. Rest' = Rest \o <<p>> /\ OpenKinds' = OpenKinds /\ Rest \in Seq(Part)
  BY <1>1, <1>3, <1>5, <1>7, RestGrows, RestType DEF Emitted, OpenKinds
<1>11. ASSUME response = "open" PROVE BlockInv' /\ CallInv'
  <2>1. BlockInv /\ CallInv /\ MoreToCome
    BY <1>1, <1>3, <1>11, Parted DEF MoreToCome, Emitted
  <2>2. \A k \in Kind : Shut(Rest, OpenKinds, k, Len(Rest))
    BY <1>1, <2>1 DEF BlockInv
  <2>3. \A k \in Kind : Shut(Rest', OpenKinds, k, Len(Rest'))
    BY <1>2, <1>4, <1>10, <2>2, ShutAdded
  <2>4. Bracketed(Rest', OpenKinds)
    BY <1>2, <1>10, <2>1, BracketedAdded DEF BlockInv
  <2>5. Calls(Rest', client.inputs, called', run \notin Cut)
    BY <1>1, <1>2, <1>3, <1>10, <2>1, CallsMade DEF CallInv
  <2> QED
    BY <1>7, <1>10, <2>3, <2>4, <2>5 DEF BlockInv, CallInv
<1> QED
  BY <1>3, <1>8, <1>9, <1>11, InvEmitted

\* A result is added, after its call.
LEMMA ToolEndsStep ==
  ASSUME StreamInv, NEW t \in Tool, ToolEnds(t) PROVE StreamInv'
<1> DEFINE p == ToolIs("result", t)
<1>1. /\ Types /\ pi = "turn" /\ events < MaxEvents /\ MaxEvents \in Nat /\ NoSigns(wire) /\ wire \in Seq(Part)
      /\ t \in called /\ events \in 0..MaxEvents /\ nextId \in 1..events + 1
      /\ \A k \in Kind : block[k] = 0
  BY Parted DEF ToolEnds, Event, Types, PhaseInv
<1>2. p \in ToolPart /\ p \in Part /\ p.type = "result" /\ p.id = t
  BY PartTypes DEF ToolIs, Part
<1>3. /\ Emitted /\ run = "turn" /\ events' = events + 1
      /\ running' = running \ {t}
      /\ wire' = Append(wire, p)
      /\ UNCHANGED <<pi, called, block, nextId>>
  BY <1>1, Parted DEF ToolEnds, Event, Emitted
<1>4. \A k : ~ Opens(p, k)
  BY <1>2 DEF Opens
<1> HIDE DEF p
<1>5. wire' = wire \o <<p>> /\ <<p>> \in Seq(Part)
  BY <1>1, <1>2, <1>3, SeqFacts
<1>6. NoSigns(wire')
  BY <1>1, <1>2, <1>5, SignsAdded
<1>7. UNCHANGED <<turns, run, buffer, hand, reader, conv, response, client>>
  BY <1>3 DEF Emitted, queueVars, chunkVars
<1>8. Types'
  <2>1. events' \in 0..MaxEvents /\ nextId' \in 1..events' + 1
    BY <1>1, <1>3
  <2>2. wire' \in Seq(Part) /\ running' \subseteq called'
    BY <1>1, <1>3, <1>6 DEF NoSigns, Types
  <2> QED
    BY <1>1, <1>3, <1>7, <2>1, <2>2 DEF Types
<1>9. PhaseInv'
  BY <1>1, <1>3, <1>6, PhaseEmitted
<1>10. Rest' = Rest \o <<p>> /\ OpenKinds' = OpenKinds /\ Rest \in Seq(Part)
  BY <1>1, <1>3, <1>5, <1>7, RestGrows, RestType DEF Emitted, OpenKinds
<1>11. ASSUME response = "open" PROVE BlockInv' /\ CallInv'
  <2>1. BlockInv /\ CallInv /\ MoreToCome
    BY <1>1, <1>3, <1>11, Parted DEF MoreToCome
  <2>2. \A k \in Kind : Shut(Rest, OpenKinds, k, Len(Rest))
    BY <1>1, <2>1 DEF BlockInv
  <2>3. \A k \in Kind : Shut(Rest', OpenKinds, k, Len(Rest'))
    BY <1>2, <1>4, <1>10, <2>2, ShutAdded
  <2>4. Bracketed(Rest', OpenKinds)
    BY <1>2, <1>10, <2>1, BracketedAdded DEF BlockInv
  <2>5. Calls(Rest', client.inputs, called, TRUE)
    <3>1. Calls(Rest, client.inputs, called, TRUE)
      BY <1>3, <2>1 DEF CallInv, Cut
    <3> QED
      BY <1>1, <1>2, <1>10, <3>1, CallsEnded
  <2>6. (run' \notin Cut) = TRUE
    BY <1>3, <1>7 DEF Cut
  <2> QED
    BY <1>3, <1>7, <1>10, <2>3, <2>4, <2>5, <2>6 DEF BlockInv, CallInv
<1> QED
  BY <1>3, <1>8, <1>9, <1>11, InvEmitted

\* The sign of a turn is its last part.
LEMMA TurnSettlesStep ==
  ASSUME StreamInv, TurnSettles PROVE StreamInv'
<1>1. /\ Types /\ PhaseInv /\ run = "turn" /\ pi # "off" /\ NoSigns(wire) /\ wire \in Seq(Part)
      /\ MaxEvents \in Nat
  BY Parted DEF TurnSettles, Types
<1>2. PICK p \in {Sign("finish"), Sign("error")} :
        wire' = Append(wire, p) /\ (p = Sign("finish") => pi = "turn")
  BY DEF TurnSettles, Sign
<1>3. /\ pi' = "off" /\ running' = {}
      /\ UNCHANGED <<called, events, block, nextId, turns, run, buffer, reader, hand, conv, response, client>>
      /\ UNCHANGED queueVars
  BY DEF TurnSettles, queueVars, chunkVars
<1>4. p \in Part /\ IsSign(p) /\ p.type \in {"finish", "error"} /\ (p.type = "finish" => pi = "turn")
  BY <1>2 DEF Part, IsSign, Sign
<1>5. \A k : ~ Opens(p, k)
  BY <1>4 DEF Opens
<1>6. wire' = wire \o <<p>> /\ <<p>> \in Seq(Part)
  BY <1>1, <1>2, <1>4, SeqFacts
<1>7. /\ wire' \in Seq(Part) /\ Len(wire') = Len(wire) + 1 /\ Len(wire) \in Nat /\ wire'[Len(wire')] = p
      /\ \A i \in 1..Len(wire') : IsSign(wire'[i]) => i = Len(wire')
  <2>1. /\ wire' \in Seq(Part) /\ Len(wire') = Len(wire) + 1 /\ Len(wire) \in Nat /\ wire'[Len(wire) + 1] = p
        /\ \A i \in 1..Len(wire) : wire'[i] = wire[i]
    BY <1>1, <1>4, <1>6, PartAdded
  <2> QED
    BY <1>1, <2>1 DEF NoSigns
<1>8. Types'
  BY <1>1, <1>3, <1>7 DEF Types
<1>9. PhaseInv'
  <2>1. wire' # <<>> /\ IsSign(wire'[Len(wire')])
    BY <1>4, <1>7
  <2> QED
    BY <1>1, <1>3, <1>7, <2>1 DEF PhaseInv, Done
<1>10. Rest' = Rest \o <<p>> /\ OpenKinds' = OpenKinds /\ Rest \in Seq(Part)
  BY <1>1, <1>3, <1>6, RestGrows, RestType DEF OpenKinds
<1>11. ASSUME response = "open" PROVE MirrorInv(conv', client') /\ BlockInv' /\ CallInv'
  <2>1. BlockInv /\ CallInv /\ MoreToCome /\ MirrorInv(conv, client)
    BY <1>1, <1>11, Parted DEF MoreToCome, Mirrors
  <2>2. Bracketed(Rest', OpenKinds)
    BY <1>4, <1>10, <2>1, BracketedAdded DEF BlockInv
  <2>3. MoreToCome' => \A k \in Kind : Shut(Rest', OpenKinds, k, Len(Rest'))
    <3>1. SUFFICES ASSUME MoreToCome' PROVE \A k \in Kind : Shut(Rest', OpenKinds, k, Len(Rest'))
      OBVIOUS
    <3>2. p.type = "finish"
      BY <1>1, <1>3, <1>7, <3>1 DEF MoreToCome
    <3>3. \A k \in Kind : Shut(Rest, OpenKinds, k, Len(Rest))
      BY <1>1, <1>4, <2>1, <3>2 DEF BlockInv, PhaseInv
    <3> QED
      BY <1>4, <1>5, <1>10, <3>3, ShutAdded
  <2>4. Calls(Rest', client.inputs, called, run \notin Cut)
    BY <1>4, <1>10, <2>1, CallsOther DEF CallInv
  <2> QED
    BY <1>3, <1>10, <2>1, <2>2, <2>3, <2>4 DEF BlockInv, CallInv
<1>12. BodyInv' /\ ~ client'.lost
  BY <1>1, <1>3, Parted DEF BodyInv, Done
<1> QED
  BY <1>3, <1>8, <1>9, <1>11, <1>12 DEF StreamInv

\* A turn starts after one that has finished: both kinds are shut.
LEMMA TurnStartsStep ==
  ASSUME StreamInv, TurnStarts PROVE StreamInv'
<1>1. /\ Types /\ PhaseInv /\ run \in {"set up", "turn over"} /\ turns < MaxTurns /\ pi = "off" /\ wire = <<>>
      /\ MaxTurns \in Nat
  BY Parted, StreamAssumption DEF TurnStarts, PhaseInv
<1>2. /\ run' = "turn" /\ turns' = turns + 1 /\ pi' = "turn" /\ block' = [k \in Kind |-> 0]
      /\ UNCHANGED <<running, called, events, nextId, wire, buffer, reader, hand, conv, response, client>>
  BY DEF TurnStarts, queueVars, chunkVars
<1>3. Types'
  <2>1. turns \in 0..MaxTurns /\ MaxEvents \in Nat
    BY <1>1, Parted DEF Types
  <2>2. turns' \in 0..MaxTurns
    <3>1. turns' = turns + 1 /\ turns < MaxTurns /\ MaxTurns \in Nat
      BY <1>1, <1>2
    <3> QED
      BY <2>1, <3>1
  <2>3. block' \in [Kind -> 0..MaxEvents]
    BY <1>2, <2>1
  <2>4. /\ run' = "turn" /\ pi' = "turn"
        /\ UNCHANGED <<running, called, events, nextId, wire, buffer, reader, hand, conv, response, client>>
    BY <1>2
  <2> QED
    BY <1>1, <2>2, <2>3, <2>4 DEF Types, Standing
<1>4. PhaseInv'
  <2>1. /\ reader # "has end" /\ (reader = "waits" => buffer = <<>>)
        /\ reader = "stopped" <=> response \in {"closed", "error"}
    BY <1>1 DEF PhaseInv, Done
  <2>2. /\ run' = "turn" /\ pi' = "turn" /\ \A k \in Kind : block'[k] = 0
        /\ wire' = <<>> /\ UNCHANGED <<buffer, reader, response>>
    BY <1>1, <1>2
  <2>3. \A i \in 1..Len(wire') : FALSE
    BY <2>2
  <2>4. ~ Done' /\ (reader' = "waits" => buffer' = <<>>) /\ reader' # "has end"
    BY <2>1, <2>2 DEF Done
  <2>5. reader' = "stopped" <=> response' \in {"closed", "error"}
    BY <2>1, <2>2
  <2>6. pi' # "off" /\ run' = "turn"
    BY <2>2
  <2> QED
    BY <2>2, <2>3, <2>4, <2>5, <2>6 DEF PhaseInv
<1>5. Rest' = Rest /\ OpenKinds' = OpenKinds
  BY <1>2 DEF Rest, OpenKinds
<1>6. ASSUME response = "open" PROVE MirrorInv(conv', client') /\ BlockInv' /\ CallInv'
  <2>1. BlockInv /\ CallInv /\ MoreToCome /\ MirrorInv(conv, client)
    BY <1>1, <1>6, Parted DEF MoreToCome, Mirrors
  <2>2. BlockInv'
    BY <1>1, <1>5, <2>1 DEF BlockInv
  <2>3. CallInv'
    BY <1>1, <1>2, <1>5, <2>1 DEF CallInv, Cut
  <2> QED
    BY <1>2, <2>1, <2>2, <2>3
<1>7. BodyInv' /\ ~ client'.lost
  BY <1>1, <1>2, Parted DEF BodyInv, Done
<1> QED
  BY <1>2, <1>3, <1>4, <1>6, <1>7 DEF StreamInv

\* The head of a sequence and the rest of it.
LEMMA TailFacts ==
  ASSUME NEW q \in Seq(Part), q # <<>>
  PROVE  /\ Head(q) \in Part /\ Tail(q) \in Seq(Part) /\ Head(q) = q[1]
         /\ Len(q) \in Nat \ {0} /\ Len(Tail(q)) = Len(q) - 1
         /\ \A i \in 1..Len(q) - 1 : Tail(q)[i] = q[i + 1]
OBVIOUS

\* Reading moves a part from the wire to the queue or the hand: Rest is the same.
LEMMA RunReadsStep ==
  ASSUME StreamInv, RunReads PROVE StreamInv'
<1> DEFINE h == Head(wire)
<1>1. /\ Types /\ PhaseInv /\ run = "turn" /\ wire # <<>> /\ wire \in Seq(Part) /\ wire' = Tail(wire)
      /\ Push(h) /\ (reader = "waits" => buffer = <<>>)
  BY Parted DEF RunReads, Types, PhaseInv
<1>2. /\ run' = (CASE h = Sign("finish") -> "turn over" [] h = Sign("error") -> "turn failed" [] OTHER -> run)
      /\ UNCHANGED <<pi, running, called, events, block, nextId, turns, conv, response, client>>
  BY DEF RunReads, piVars, chunkVars
<1>3. /\ h \in Part /\ wire' \in Seq(Part) /\ h = wire[1] /\ Len(wire) \in Nat \ {0} /\ Len(wire') = Len(wire) - 1
      /\ \A i \in 1..Len(wire) - 1 : wire'[i] = wire[i + 1]
  BY <1>1, TailFacts
<1> HIDE DEF h
<1>4. /\ IsSign(h) => pi = "off" /\ Len(wire) = 1 /\ wire' = <<>> /\ run' \in {"turn over", "turn failed"}
      /\ (IsSign(h) /\ run' = "turn over") => h.type = "finish"
      /\ ~ IsSign(h) => run' = "turn"
  <2>1. IsSign(h) => pi = "off" /\ 1 = Len(wire)
    <3>1. \A i \in 1..Len(wire) : IsSign(wire[i]) => pi = "off" /\ i = Len(wire)
      BY <1>1 DEF PhaseInv
    <3>2. 1 \in 1..Len(wire) /\ h = wire[1]
      BY <1>3
    <3> QED
      BY <3>1, <3>2
  <2>2. IsSign(h) <=> h \in {Sign("finish"), Sign("error")}
    BY <1>3, PartTypes
  <2>3. IsSign(h) => wire' = <<>>
    <3>0. Len(wire') = Len(wire) - 1 /\ wire' \in Seq(Part)
      BY <1>3
    <3>1. IsSign(h) => Len(wire') = 0 /\ wire' \in Seq(Part)
      BY <2>1, <3>0
    <3> QED
      BY <3>1
  <2>4. Sign("finish") # Sign("error") /\ Sign("finish").type = "finish"
    BY DEF Sign
  <2> QED
    BY <1>1, <1>2, <2>1, <2>2, <2>3, <2>4
<1>5. Types'
  <2>1. buffer' \in Seq(Part) /\ hand' \in Part /\ reader' \in {"next", "waits", "has part", "has end", "stopped"}
    <3>1. h \in Part /\ buffer \in Seq(Part) /\ hand \in Part
      BY <1>1, <1>3 DEF Types
    <3>2. Append(buffer, h) \in Seq(Part)
      BY <3>1
    <3>3. reader \in {"next", "waits", "has part", "has end", "stopped"}
      BY <1>1 DEF Types
    <3> QED
      BY <1>1, <3>1, <3>2, <3>3 DEF Push
  <2>2. run' \in Standing
    BY <1>4 DEF Standing
  <2> QED
    BY <1>1, <1>2, <1>3, <2>1, <2>2 DEF Types
<1>6. pi = "off" /\ ~ IsSign(h) => wire' # <<>> /\ wire'[Len(wire')] = wire[Len(wire)]
  <2>1. SUFFICES ASSUME pi = "off", ~ IsSign(h) PROVE wire' # <<>> /\ wire'[Len(wire')] = wire[Len(wire)]
    OBVIOUS
  <2>2. IsSign(wire[Len(wire)])
    BY <1>1, <2>1 DEF PhaseInv
  <2>3. Len(wire) # 1
    BY <1>3, <2>1, <2>2
  <2>4. Len(wire') \in 1..Len(wire) - 1 /\ Len(wire') + 1 = Len(wire)
    BY <1>3, <2>3
  <2> QED
    BY <1>3, <2>4
<1>7. PhaseInv'
  <2>1. pi' # "off" => run' = "turn"
    BY <1>1, <1>2, <1>4 DEF PhaseInv
  <2>2. pi' = "turn" => \A k \in Kind : block'[k] = 0
    BY <1>1, <1>2 DEF PhaseInv
  <2>3. running' # {} => pi' # "off"
    BY <1>1, <1>2 DEF PhaseInv
  <2>4. run' # "turn" => wire' = <<>>
    BY <1>4
  <2>5. run' = "turn" /\ pi' = "off" => wire' # <<>> /\ IsSign(wire'[Len(wire')])
    BY <1>1, <1>2, <1>4, <1>6 DEF PhaseInv
  <2>6. \A i \in 1..Len(wire') : IsSign(wire'[i]) => pi' = "off" /\ i = Len(wire')
    <3>1. ASSUME NEW i \in 1..Len(wire'), IsSign(wire'[i]) PROVE pi' = "off" /\ i = Len(wire')
      <4>1. i \in 1..Len(wire) - 1 /\ i + 1 \in 1..Len(wire) /\ wire'[i] = wire[i + 1]
        BY <1>3
      <4>2. pi = "off" /\ i + 1 = Len(wire)
        <5>1. \A j \in 1..Len(wire) : IsSign(wire[j]) => pi = "off" /\ j = Len(wire)
          BY <1>1 DEF PhaseInv
        <5> QED
          BY <3>1, <4>1, <5>1
      <4>3. Len(wire') = Len(wire) - 1 /\ Len(wire) \in Nat /\ pi' = pi
        BY <1>2, <1>3
      <4> QED
        BY <4>1, <4>2, <4>3
    <3> QED
      BY <3>1
  <2>7. /\ reader' # "waits" /\ reader' # "has end"
        /\ reader' = "stopped" <=> reader = "stopped"
    <3>1. reader # "has end"
      BY <1>1 DEF PhaseInv, Done
    <3>2. reader' = IF reader = "waits" THEN "has part" ELSE reader
      BY <1>1 DEF Push
    <3> QED
      BY <3>1, <3>2
  <2>8. reader' = "stopped" <=> response' \in {"closed", "error"}
    BY <1>1, <1>2, <2>7 DEF PhaseInv
  <2> QED
    BY <2>1, <2>2, <2>3, <2>4, <2>5, <2>6, <2>7, <2>8 DEF PhaseInv
<1>8. Rest' = Rest /\ OpenKinds' = OpenKinds
  <2>1. reader = "waits" => buffer = <<>>
    BY <1>1
  <2> QED
    BY <1>1, <1>2, <2>1, RestPushed DEF OpenKinds, h
<1>9. ASSUME response = "open" PROVE MirrorInv(conv', client') /\ BlockInv' /\ CallInv'
  <2>1. BlockInv /\ CallInv /\ MirrorInv(conv, client)
    BY <1>9, Parted DEF Mirrors
  <2>2. MoreToCome' => MoreToCome
    <3>1. CASE IsSign(h)
      <4>1. MoreToCome' => h.type = "finish"
        BY <1>4, <3>1 DEF MoreToCome
      <4>2. wire[Len(wire)] = h
        BY <1>3, <1>4, <3>1
      <4> QED
        BY <1>1, <4>1, <4>2 DEF MoreToCome
    <3>2. CASE ~ IsSign(h)
      BY <1>1, <1>2, <1>4, <1>6, <3>2 DEF MoreToCome
    <3> QED
      BY <3>1, <3>2
  <2>3. BlockInv'
    BY <1>2, <1>8, <2>1, <2>2 DEF BlockInv
  <2>4. (run' \notin Cut) = (run \notin Cut)
    BY <1>1, <1>4 DEF Cut
  <2>5. CallInv'
    BY <1>2, <1>8, <2>1, <2>4 DEF CallInv
  <2> QED
    BY <1>2, <2>1, <2>3, <2>5
<1>10. BodyInv' /\ ~ client'.lost
  BY <1>1, <1>2, Parted DEF BodyInv, Done
<1> QED
  BY <1>2, <1>5, <1>7, <1>9, <1>10 DEF StreamInv

\* The result drops the wire: only after a rejection is something lost.
LEMMA RunSettlesStep ==
  ASSUME StreamInv, RunSettles PROVE StreamInv'
<1>1. /\ Types /\ PhaseInv /\ run \in {"set up", "turn", "turn over", "turn failed"} /\ ~ Done
      /\ reader # "has end" /\ (reader = "waits" => buffer = <<>>)
      /\ (reader = "stopped" <=> response \in {"closed", "error"})
  BY Parted DEF RunSettles, PhaseInv, Done
<1>2. /\ run' \in {"resolved", "cut short", "rejected"} /\ pi' = "off" /\ running' = {} /\ wire' = <<>>
      /\ reader' = (IF reader = "waits" THEN "has end" ELSE reader)
      /\ UNCHANGED <<called, events, block, nextId, turns, buffer, hand, conv, response, client>>
  BY DEF RunSettles, Close, chunkVars
<1>3. run' = "resolved" => run \in {"turn over", "turn failed"}
  BY DEF RunSettles
<1>4. Types'
  <2>1. wire' \in Seq(Part) /\ reader' \in {"next", "waits", "has part", "has end", "stopped"}
    <3>1. wire' \in Seq(Part)
      <4>1. wire' = <<>>
        BY <1>2
      <4> QED
        BY <4>1
    <3>2. reader \in {"next", "waits", "has part", "has end", "stopped"}
      BY <1>1 DEF Types
    <3> QED
      BY <1>2, <3>1, <3>2
  <2>2. run' \in Standing /\ running' \subseteq called'
    BY <1>2 DEF Standing
  <2> QED
    BY <1>1, <1>2, <2>1, <2>2 DEF Types
<1>5. PhaseInv'
  <2>1. \A i \in 1..Len(wire') : FALSE
    <3>1. wire' = <<>>
      BY <1>2
    <3> QED
      BY <3>1
  <2>2. /\ Done' /\ reader' # "waits" /\ (reader' = "has end" => buffer' = <<>>)
        /\ (reader' = "stopped" <=> response' \in {"closed", "error"})
    BY <1>1, <1>2 DEF Done
  <2>3. pi' = "off" /\ running' = {} /\ wire' = <<>> /\ run' # "turn"
    BY <1>2
  <2> QED
    BY <2>1, <2>2, <2>3 DEF PhaseInv
<1>6. OpenKinds' = OpenKinds
  BY <1>2 DEF OpenKinds
<1>7. ~ MoreToCome'
  BY <1>2 DEF MoreToCome
<1> DEFINE q == InHand \o buffer
<1>8. /\ Rest = q \o wire /\ q \in Seq(Part) /\ wire \in Seq(Part) /\ Rest' = q
  <2>1. InHand \in Seq(Part) /\ buffer \in Seq(Part) /\ wire \in Seq(Part) /\ Rest = InHand \o (buffer \o wire)
    BY <1>1, RestType
  <2>2. (reader' = "has part") = (reader = "has part")
    BY <1>2
  <2>3. Rest' = InHand \o (buffer \o <<>>)
    BY <1>2, <2>2 DEF Rest, InHand
  <2>4. buffer \o <<>> = buffer
    BY <2>1, SeqFacts
  <2>5. q \in Seq(Part) /\ q \o wire = InHand \o (buffer \o wire)
    <3>1. InHand \in Seq(Part) /\ buffer \in Seq(Part) /\ wire \in Seq(Part)
      BY <2>1
    <3> QED
      BY <3>1, Regroup
  <2> QED
    BY <2>1, <2>3, <2>4, <2>5
<1> HIDE DEF q
<1>9. ASSUME response = "open" PROVE MirrorInv(conv', client') /\ BlockInv' /\ CallInv'
  <2>1. BlockInv /\ CallInv /\ MirrorInv(conv, client)
    BY <1>9, Parted DEF Mirrors
  <2>2. Bracketed(q, OpenKinds)
    BY <1>8, <2>1, BracketedBefore DEF BlockInv
  <2>3. BlockInv'
    BY <1>6, <1>7, <1>8, <2>2 DEF BlockInv
  <2>4. CASE run' \in Cut
    <3>1. Calls(q \o wire, client.inputs, called, run \notin Cut)
      BY <1>8, <2>1 DEF CallInv
    <3>2. Calls(q, client.inputs, called, FALSE)
      BY <1>8, <3>1, CallsBefore
    <3>3. (run' \notin Cut) = FALSE
      BY <2>4
    <3> QED
      BY <1>2, <1>8, <2>1, <2>3, <3>2, <3>3 DEF CallInv
  <2>5. CASE run' = "resolved"
    <3>1. wire = <<>>
      BY <1>1, <1>3, <2>5 DEF PhaseInv
    <3>2. q \o <<>> = q
      BY <1>8, SeqFacts
    <3>3. Calls(q, client.inputs, called, run \notin Cut)
      BY <1>8, <2>1, <3>1, <3>2 DEF CallInv
    <3>4. (run' \notin Cut) = TRUE /\ (run \notin Cut) = TRUE
      BY <1>1, <2>5 DEF Cut
    <3> QED
      BY <1>2, <1>8, <2>1, <2>3, <3>3, <3>4 DEF CallInv
  <2> QED
    BY <1>2, <2>4, <2>5 DEF Cut
<1>10. BodyInv' /\ ~ client'.lost
  BY <1>1, <1>2, Parted DEF BodyInv
<1> QED
  BY <1>2, <1>4, <1>5, <1>9, <1>10 DEF StreamInv

\* Taking a part from the buffer leaves Rest the same.
LEMMA ReaderNextStep ==
  ASSUME StreamInv, ReaderNext PROVE StreamInv'
<1>1. /\ Types /\ PhaseInv /\ reader = "next" /\ response \in {"open", "left"}
  BY Parted DEF ReaderNext, PhaseInv, Types
<1>2. UNCHANGED <<pi, running, called, events, block, nextId, wire, turns, run, conv, response, client>>
  BY DEF ReaderNext, piVars, chunkVars
<1>3. Types'
  <2>1. buffer' \in Seq(Part) /\ hand' \in Part /\ reader' \in {"next", "waits", "has part", "has end", "stopped"}
    <3>1. buffer \in Seq(Part) /\ hand \in Part
      BY <1>1 DEF Types
    <3>2. buffer # <<>> => Head(buffer) \in Part /\ Tail(buffer) \in Seq(Part)
      BY <3>1, SeqFacts
    <3> QED
      BY <3>1, <3>2 DEF ReaderNext
  <2> QED
    BY <1>1, <1>2, <2>1 DEF Types
<1>4. PhaseInv'
  <2>1. /\ reader' = "waits" => buffer' = <<>> /\ ~ Done
        /\ reader' = "has end" => buffer' = <<>> /\ Done
        /\ reader' # "stopped"
    BY DEF ReaderNext
  <2> QED
    BY <1>1, <1>2, <2>1 DEF PhaseInv, Done
<1>5. Rest' = Rest /\ OpenKinds' = OpenKinds
  BY <1>1, <1>2, RestTaken DEF OpenKinds
<1>6. ASSUME response = "open" PROVE MirrorInv(conv', client') /\ BlockInv' /\ CallInv'
  <2>1. BlockInv /\ CallInv /\ MirrorInv(conv, client)
    BY <1>6, Parted DEF Mirrors
  <2> QED
    BY <1>2, <1>5, <2>1 DEF BlockInv, CallInv, MoreToCome
<1>7. BodyInv' /\ ~ client'.lost
  BY <1>1, <1>2, Parted DEF BodyInv
<1> QED
  BY <1>2, <1>3, <1>4, <1>6, <1>7 DEF StreamInv

\* Converter and client keep their types, whatever the part.
LEMMA HandlesTyped ==
  ASSUME NEW c \in Conv, NEW p \in Part
  PROVE  HandlePart(c, p).conv \in Conv
<1>1. MaxEvents \in Nat /\ Opened(c) \in Conv /\ Closed(c) \in Conv /\ Closed(Opened(c)) \in Conv
  BY StreamAssumption, OpenedKeeps, ClosedKeeps
<1>2. CASE Dropped(p)
  BY <1>2 DEF HandlePart, Gives
<1>3. CASE ~ Dropped(p) /\ p \in BlockPart
  <2>1. p.type \in {"start", "delta", "end"} /\ p.kind \in Kind /\ p.id \in 0..MaxEvents
    BY <1>1, <1>3 DEF BlockPart, Ids
  <2>2. CASE p.type = "start"
    <3>1. HandlePart(c, p).conv = [Opened(c) EXCEPT !.open[p.kind] = p.id]
      BY <1>3, <2>2 DEF HandlePart, OnStart, Gives
    <3> QED
      BY <1>1, <2>1, <3>1 DEF Conv
  <2>3. CASE p.type = "delta"
    <3> DEFINE id == IF c.open[p.kind] = 0 THEN p.id ELSE c.open[p.kind]
    <3>1. HandlePart(c, p).conv = [Opened(c) EXCEPT !.open[p.kind] = id]
      BY <1>3, <2>3 DEF HandlePart, OnDelta, Gives
    <3>2. id \in 0..MaxEvents
      BY <2>1 DEF Conv
    <3> HIDE DEF id
    <3> QED
      BY <1>1, <2>1, <3>1, <3>2 DEF Conv
  <2>4. CASE p.type = "end"
    <3>1. HandlePart(c, p).conv = [c EXCEPT !.open[p.kind] = 0] /\ 0 \in 0..MaxEvents
      BY <1>1, <1>3, <2>4 DEF HandlePart, OnEnd, Gives
    <3> QED
      BY <2>1, <3>1 DEF Conv
  <2> QED
    BY <2>1, <2>2, <2>3, <2>4
<1>4. CASE ~ Dropped(p) /\ p \in ToolPart
  <2>1. p.type \in {"call", "result"}
    BY <1>4 DEF ToolPart
  <2>2. CASE p.type = "call"
    BY <1>1, <1>4, <2>2 DEF HandlePart, OnCall, Gives
  <2>3. CASE p.type = "result"
    BY <1>1, <1>4, <2>3 DEF HandlePart, OnResult, Gives
  <2> QED
    BY <2>1, <2>2, <2>3
<1>5. CASE ~ Dropped(p) /\ p \in {Sign("finish"), Sign("error")}
  <2>1. p.type \notin {"start", "delta", "end", "call", "result"}
    BY <1>5 DEF Sign
  <2>2. HandlePart(c, p) = OnFinish(c)
    BY <1>5, <2>1 DEF HandlePart
  <2>3. OnFinish(c).conv \in {c, [Closed(c) EXCEPT !.step = FALSE]}
    BY DEF OnFinish, Gives
  <2>4. [Closed(c) EXCEPT !.step = FALSE] \in Conv
    BY <1>1 DEF Conv
  <2> QED
    BY <2>2, <2>3, <2>4
<1> QED
  BY <1>2, <1>3, <1>4, <1>5 DEF Part

\* The converter handles the head of Rest.
LEMMA ReaderConvertsStep ==
  ASSUME StreamInv, ReaderConverts
  PROVE  /\ StreamInv'
         /\ response = "open" => client'.inputs = client.inputs \cup VisibleCalls(<<hand>>)
<1> DEFINE r == HandlePart(conv, hand)
           q == buffer \o wire
           s == client.inputs
           now == IF hand.type = "call" /\ hand.id \notin Hidden THEN s \cup {hand.id} ELSE s
<1>1. /\ Types /\ PhaseInv /\ reader = "has part" /\ response \in {"open", "left"}
      /\ hand \in Part /\ conv \in Conv /\ client \in Client
  BY Parted DEF ReaderConverts, PhaseInv, Types
<1>2. /\ conv' = r.conv
      /\ response = "open" => client' = Reads(client, r.chunks) /\ reader' = "next" /\ response' = "open"
      /\ response = "left" => client' = client /\ \/ reader' = "next" /\ response' = "left"
                                                  \/ reader' = "stopped" /\ response' = "error"
      /\ UNCHANGED <<pi, running, called, events, block, nextId, wire, turns, run, buffer, hand>>
  BY <1>1 DEF ReaderConverts, Send, piVars
<1>3. q \in Seq(Part) /\ Rest = <<hand>> \o q
  BY <1>1, RestType DEF Rest
<1>4. reader' # "has part" /\ Rest' = <<>> \o q
  BY <1>1, <1>2 DEF Rest
<1>5. Rest' = q
  BY <1>3, <1>4, SeqFacts
<1>6. conv' \in Conv
  BY <1>1, <1>2, HandlesTyped
<1>7. ASSUME response = "open"
      PROVE  Handled(conv, client, hand, r, now) /\ Bracketed(q, OpenKinds') /\ Calls(q, now, called, run \notin Cut)
  <2>1. BlockInv /\ CallInv /\ Mirrors(conv, client)
    BY <1>7, Parted
  <2> HIDE DEF q, r
  <2>2. /\ Calls(q, now, called, run \notin Cut)
        /\ hand.type = "call" => hand.id \notin s
        /\ hand.type = "result" => hand.id \in Hidden \cup s
    <3>1. Calls(<<hand>> \o q, s, called, run \notin Cut)
      BY <1>3, <2>1 DEF CallInv
    <3> QED
      BY <1>1, <1>3, <3>1, CallsRest
  <2>3. hand.type = "start" => hand.kind \notin OpenKinds /\ hand.kind \in Kind
    <3>1. Bracketed(<<hand>> \o q, OpenKinds)
      BY <1>3, <2>1 DEF BlockInv
    <3>2. hand.type = "start" => hand.kind \notin OpenKinds
      <4>1. q \in Seq(Part) /\ hand \in Part
        BY <1>1, <1>3
      <4> QED
        BY <3>1, <4>1, BracketedFirst
    <3>3. hand.type = "start" => hand.kind \in Kind
      <4>1. hand \in Part
        BY <1>1
      <4> QED
        BY <4>1 DEF Part, BlockPart, ToolPart, Sign
    <3> QED
      BY <3>2, <3>3
  <2>4. hand.type = "start" => conv.open[hand.kind] = 0
    BY <2>3 DEF OpenKinds
  <2>5. Handled(conv, client, hand, r, now)
    BY <1>1, <2>1, <2>2, <2>4, Handles DEF r
  <2>6. \A k \in Kind : k \in OpenKinds' => Opens(hand, k) \/ (k \in OpenKinds /\ ~ Ends(hand, k))
    BY <1>2, <2>5 DEF Handled, OpenKinds
  <2>7. Bracketed(q, OpenKinds')
    <3>1. Bracketed(<<hand>> \o q, OpenKinds)
      BY <1>3, <2>1 DEF BlockInv
    <3> QED
      BY <1>1, <1>3, <2>6, <3>1, BracketedRest
  <2> QED
    BY <2>2, <2>5, <2>7
<1> HIDE DEF r
<1>8. Types'
  <2>1. client' \in Client
    BY <1>1, <1>2, <1>7 DEF Handled, Mirrors
  <2>2. reader' \in {"next", "stopped"} /\ response' \in {"open", "left", "error"}
    BY <1>1, <1>2
  <2> QED
    BY <1>1, <1>2, <1>6, <2>1, <2>2 DEF Types
<1>9. PhaseInv'
  <2>1. reader' \notin {"waits", "has end"} /\ (reader' = "stopped" <=> response' \in {"closed", "error"})
    BY <1>1, <1>2
  <2> QED
    BY <1>1, <1>2, <2>1 DEF PhaseInv, Done
<1>10. ASSUME response' = "open" PROVE MirrorInv(conv', client') /\ BlockInv' /\ CallInv'
  <2>1. response = "open"
    BY <1>1, <1>2, <1>10
  <2>2. /\ Mirrors(conv', client') /\ client'.inputs = now
        /\ \A k \in Kind : k \in OpenKinds' => Opens(hand, k) \/ (k \in OpenKinds /\ ~ Ends(hand, k))
    BY <1>2, <1>7, <2>1 DEF Handled, OpenKinds
  <2>3. BlockInv
    BY <2>1, Parted
  <2>4. MoreToCome' => \A k \in Kind : pi' = "off" \/ block'[k] = 0 => Shut(Rest', OpenKinds', k, Len(Rest'))
    <3>1. SUFFICES ASSUME MoreToCome', NEW k \in Kind, pi' = "off" \/ block'[k] = 0
                   PROVE  Shut(q, OpenKinds', k, Len(q))
      BY <1>5
    <3>2. MoreToCome /\ (pi = "off" \/ block[k] = 0)
      BY <1>2, <3>1 DEF MoreToCome
    <3> HIDE DEF q
    <3>3. Shut(<<hand>> \o q, OpenKinds, k, Len(<<hand>> \o q))
      <4>1. Shut(Rest, OpenKinds, k, Len(Rest))
        BY <2>3, <3>2 DEF BlockInv
      <4> QED
        BY <1>3, <4>1
    <3>4. Len(<<hand>> \o q) = Len(q) + 1 /\ Len(q) \in 0..Len(q)
      <4>1. q \in Seq(Part) /\ hand \in Part
        BY <1>1, <1>3
      <4>2. Len(<<hand>> \o q) = Len(q) + 1 /\ Len(q) \in Nat
        BY <4>1, PartFirst
      <4> QED
        BY <4>2
    <3> QED
      BY <1>1, <1>3, <2>2, <3>3, <3>4, ShutRest
  <2>5. BlockInv'
    BY <1>5, <1>7, <2>1, <2>4 DEF BlockInv
  <2>6. CallInv'
    BY <1>2, <1>5, <1>7, <2>1, <2>2 DEF CallInv
  <2> QED
    BY <2>2, <2>5, <2>6 DEF Mirrors
<1>11. BodyInv' /\ ~ client'.lost
  <2>1. response' # "closed"
    BY <1>1, <1>2
  <2>2. ~ client'.lost
    BY <1>1, <1>2, <1>7, Parted DEF Handled, Mirrors, MirrorInv
  <2> QED
    BY <2>1, <2>2 DEF BodyInv
<1>12. response = "open" => client'.inputs = client.inputs \cup VisibleCalls(<<hand>>)
  BY <1>2, <1>7, VisibleOne DEF Handled
<1> QED
  BY <1>8, <1>9, <1>10, <1>11, <1>12 DEF StreamInv

\* The terminal chunks find nothing more to come.
LEMMA ReaderEndsStep ==
  ASSUME StreamInv, ReaderEnds
  PROVE  StreamInv' /\ (response = "open" => client'.inputs = client.inputs)
<1> DEFINE type == IF run = "rejected" THEN "failed" ELSE "finished"
<1>1. /\ Types /\ PhaseInv /\ Done /\ run # "turn" /\ buffer = <<>> /\ wire = <<>> /\ response \in {"open", "left"}
      /\ reader = "has end"
  BY Parted DEF ReaderEnds, PhaseInv, Types, Done
<1>2. /\ reader' = "stopped"
      /\ response = "open" => client' = Reads(client, Terminal(conv, type)) /\ response' = "closed"
      /\ response = "left" => client' = client /\ response' = "error"
      /\ UNCHANGED <<pi, running, called, events, block, nextId, wire, turns, run, buffer, hand, conv>>
  BY <1>1 DEF ReaderEnds, Send, piVars
<1>3. ASSUME response = "open"
      PROVE  client' \in Client /\ ~ client'.lost /\ client'.over /\ client'.inputs = client.inputs
  <2>1. Mirrors(conv, client) /\ type \in {"finished", "failed"}
    BY <1>3, Parted
  <2> HIDE DEF type
  <2>2. LET t == Reads(client, Terminal(conv, type)) IN t \in Client /\ ~ t.lost /\ t.over /\ t.inputs = client.inputs
    BY <2>1, TerminalReads
  <2> QED
    BY <1>2, <1>3, <2>2
<1> HIDE DEF type
<1>4. client' \in Client /\ ~ client'.lost /\ response' \in {"closed", "error"}
  BY <1>1, <1>2, <1>3, Parted DEF Types
<1>5. Types'
  BY <1>1, <1>2, <1>4 DEF Types
<1>6. PhaseInv'
  BY <1>1, <1>2, <1>4 DEF PhaseInv, Done
<1>7. BodyInv'
  <2>1. SUFFICES ASSUME response' = "closed"
                 PROVE  Done' /\ buffer' = <<>> /\ client'.over /\ (run' = "resolved" => client'.inputs = called' \ Hidden)
    BY DEF BodyInv
  <2>2. response = "open"
    BY <1>1, <1>2, <2>1
  <2>3. run = "resolved" => client.inputs = called \ Hidden
    <3>1. Rest = <<>>
      <4>1. Rest = <<>> \o (<<>> \o <<>>)
        BY <1>1 DEF Rest
      <4> QED
        BY <4>1
    <3>2. Calls(<<>>, client.inputs, called, run \notin Cut)
      BY <2>2, <3>1, Parted DEF CallInv
    <3>3. SUFFICES ASSUME run = "resolved" PROVE client.inputs = called \ Hidden
      OBVIOUS
    <3>4. Calls(<<>>, client.inputs, called, TRUE)
      BY <3>2, <3>3 DEF Cut
    <3>5. client.inputs \subseteq called \ Hidden /\ \A t \in called \ (Hidden \cup client.inputs) : \E i \in 1..0 : TRUE
      BY <3>4 DEF Calls
    <3> QED
      BY <3>5
  <2> QED
    BY <1>1, <1>2, <1>3, <2>2, <2>3 DEF Done
<1> QED
  BY <1>3, <1>4, <1>5, <1>6, <1>7 DEF StreamInv

\* A client that leaves keeps what it has understood.
LEMMA ClientLeavesStep ==
  ASSUME StreamInv, ClientLeaves PROVE StreamInv'
<1>1. Types /\ PhaseInv /\ response = "open" /\ ~ client.lost
  BY Parted DEF ClientLeaves
<1>2. /\ response' = "left"
      /\ UNCHANGED <<pi, running, called, events, block, nextId, wire, turns, run, buffer, reader, hand, conv, client>>
  BY DEF ClientLeaves, piVars, queueVars
<1>3. Types'
  BY <1>1, <1>2 DEF Types
<1>4. PhaseInv'
  BY <1>1, <1>2 DEF PhaseInv, Done
<1> QED
  BY <1>1, <1>2, <1>3, <1>4 DEF StreamInv, BodyInv

\* A step that changes nothing.
LEMMA StreamStutter ==
  ASSUME StreamInv, UNCHANGED streamVars PROVE StreamInv'
<1>1. UNCHANGED <<pi, running, called, events, block, nextId, wire, turns, run, buffer, reader, hand, conv,
                  response, client>>
  BY DEF streamVars, piVars, queueVars, chunkVars
<1>2. Types /\ PhaseInv /\ BodyInv /\ ~ client.lost
  BY Parted
<1>3. Types' /\ PhaseInv' /\ BodyInv'
  BY <1>1, <1>2 DEF Types, PhaseInv, BodyInv, Done
<1>4. Rest' = Rest /\ OpenKinds' = OpenKinds
  BY <1>1 DEF Rest, OpenKinds
<1>5. response = "open" => MirrorInv(conv', client') /\ BlockInv' /\ CallInv'
  BY <1>1, <1>4 DEF StreamInv, BlockInv, CallInv, MoreToCome
<1> QED
  BY <1>1, <1>2, <1>3, <1>5 DEF StreamInv

\* The invariant holds at the start.
LEMMA StreamStarts == StreamInit => StreamInv
<1> SUFFICES ASSUME StreamInit PROVE StreamInv
  OBVIOUS
<1>1. /\ pi = "off" /\ running = {} /\ called = {} /\ events = 0
      /\ block = [k \in Kind |-> 0] /\ nextId = 1
      /\ wire = <<>> /\ turns = 0 /\ run = "set up"
      /\ buffer = <<>> /\ reader = "next" /\ hand = Sign("finish")
      /\ conv = [started |-> FALSE, step |-> FALSE, open |-> [k \in Kind |-> 0]]
      /\ response = "open"
      /\ client = [started |-> FALSE, step |-> FALSE, open |-> [k \in Kind |-> {}],
                   inputs |-> {}, over |-> FALSE, lost |-> FALSE]
  BY DEF StreamInit
<1>2. MaxEvents \in Nat /\ MaxTurns \in Nat
  BY StreamAssumption
<1>3. Types
  <2>1. conv \in Conv
    <3>1. [k \in Kind |-> 0] \in [Kind -> 0..MaxEvents]
      BY <1>2
    <3>2. conv = [started |-> FALSE, step |-> FALSE, open |-> [k \in Kind |-> 0]]
      BY <1>1
    <3> QED
      BY <3>1, <3>2 DEF Conv
  <2>2. client \in Client
    <3>1. [k \in Kind |-> {}] \in [Kind -> SUBSET Ids] /\ {} \in SUBSET Tool
      OBVIOUS
    <3>2. client = [started |-> FALSE, step |-> FALSE, open |-> [k \in Kind |-> {}],
                    inputs |-> {}, over |-> FALSE, lost |-> FALSE]
      BY <1>1
    <3> QED
      BY <3>1, <3>2 DEF Client
  <2>3. hand \in Part
    <3>1. hand = Sign("finish")
      BY <1>1
    <3> QED
      BY <3>1 DEF Part
  <2>4. block \in [Kind -> 0..MaxEvents]
    <3>1. block = [k \in Kind |-> 0]
      BY <1>1
    <3> QED
      BY <1>2, <3>1
  <2>5. wire \in Seq(Part) /\ buffer \in Seq(Part)
    <3>1. wire = <<>> /\ buffer = <<>>
      BY <1>1
    <3> QED
      BY <3>1
  <2>6. /\ events \in 0..MaxEvents /\ nextId \in 1..events + 1 /\ turns \in 0..MaxTurns
        /\ pi = "off" /\ running \subseteq called /\ called \subseteq Tool
        /\ run \in Standing /\ reader = "next" /\ response = "open"
    <3>1. /\ events = 0 /\ nextId = 1 /\ turns = 0 /\ running = {} /\ called = {}
          /\ pi = "off" /\ run = "set up" /\ reader = "next" /\ response = "open"
      BY <1>1
    <3>2. events \in 0..MaxEvents /\ nextId \in 1..events + 1 /\ turns \in 0..MaxTurns
      <4>1. events = 0 /\ nextId = 1 /\ turns = 0
        BY <3>1
      <4> QED
        BY <1>2, <4>1
    <3>3. running \subseteq called /\ called \subseteq Tool
      BY <3>1
    <3> QED
      BY <3>1, <3>2, <3>3 DEF Standing
  <2> QED
    BY <2>1, <2>2, <2>3, <2>4, <2>5, <2>6 DEF Types
<1>4. PhaseInv
  <2>1. wire = <<>> /\ pi = "off" /\ running = {} /\ run = "set up" /\ reader = "next" /\ response = "open"
    BY <1>1
  <2>2. \A i \in 1..Len(wire) : FALSE
    <3>1. wire = <<>>
      BY <2>1
    <3> QED
      BY <3>1
  <2> QED
    BY <2>1, <2>2 DEF PhaseInv
<1>5. Rest = <<>> /\ OpenKinds = {} /\ client.inputs = {}
  <2>1. wire = <<>> /\ buffer = <<>> /\ reader = "next"
    BY <1>1
  <2>2. Rest = <<>> \o (<<>> \o <<>>)
    BY <2>1 DEF Rest
  <2>3. <<>> \o (<<>> \o <<>>) = <<>>
    OBVIOUS
  <2>4. conv.open = [k \in Kind |-> 0] /\ client.inputs = {}
    BY <1>1
  <2>5. OpenKinds = {}
    BY <2>4 DEF OpenKinds
  <2> QED
    BY <2>2, <2>3, <2>4, <2>5
<1>6. \A i \in 1..Len(Rest) : FALSE
  BY <1>5
<1>7. BlockInv
  BY <1>5, <1>6 DEF BlockInv, Bracketed, Shut
<1>8. CallInv
  BY <1>1, <1>5, <1>6 DEF CallInv, Calls, CallsOnce, ResultsFollow, Cut
<1>9. MirrorInv(conv, client)
  BY <1>1 DEF MirrorInv
<1> QED
  BY <1>1, <1>3, <1>4, <1>7, <1>8, <1>9 DEF StreamInv, BodyInv

\* Every step keeps the invariant.
LEMMA StreamSteps == StreamInv /\ [StreamNext]_streamVars => StreamInv'
<1> SUFFICES ASSUME StreamInv, [StreamNext]_streamVars PROVE StreamInv'
  OBVIOUS
<1>1. CASE MessageStarts
  BY <1>1, MessageStartsStep
<1>2. ASSUME NEW k \in Kind, Delta(k) PROVE StreamInv'
  BY <1>2, DeltaStep
<1>3. ASSUME NEW gap \in BOOLEAN, MessageEnds(gap) PROVE StreamInv'
  BY <1>3, MessageEndsStep
<1>4. ASSUME NEW t \in Tool, ToolStarts(t) \/ ToolEnds(t) PROVE StreamInv'
  BY <1>4, ToolStartsStep, ToolEndsStep
<1>5. CASE TurnSettles \/ TurnStarts \/ RunReads \/ RunSettles
  BY <1>5, TurnSettlesStep, TurnStartsStep, RunReadsStep, RunSettlesStep
<1>6. CASE ReaderNext \/ ReaderConverts \/ ReaderEnds
  BY <1>6, ReaderNextStep, ReaderConvertsStep, ReaderEndsStep
<1>7. CASE ClientLeaves
  BY <1>7, ClientLeavesStep
<1>8. CASE UNCHANGED streamVars
  BY <1>8, StreamStutter
<1> QED
  BY <1>1, <1>2, <1>3, <1>4, <1>5, <1>6, <1>7, <1>8 DEF StreamNext

\* The invariant of the stream.
THEOREM StreamInvariant == StreamSpec => []StreamInv
BY StreamStarts, StreamSteps, PTL DEF StreamSpec

-----------------------------------------------------------------------------
(* What the run has handed on. *)

\* The visible calls that the run has handed on are those the client knows of
\* and those on their way from the queue to the converter.
HandedInv ==
  /\ handed \subseteq Tool
  /\ response = "open" =>
       handed = client.inputs \cup VisibleCalls(InHand) \cup VisibleCalls(buffer)
  /\ response = "closed" => handed = client.inputs

\* An empty sequence has no calls; the calls of parts are tools.
LEMMA VisibleTyped ==
  /\ VisibleCalls(<<>>) = {}
  /\ \A p \in Part : VisibleCalls(<<p>>) \subseteq Tool
<1>1. ASSUME NEW p \in Part PROVE VisibleCalls(<<p>>) \subseteq Tool
  <2>1. p.type = "call" => p.id \in Tool
    BY DEF Part, BlockPart, ToolPart, Sign
  <2> QED
    BY <2>1, VisibleOne
<1>2. DOMAIN <<>> = {}
  OBVIOUS
<1> QED
  BY <1>1, <1>2 DEF VisibleCalls

\* A step that touches neither queue, reader nor client.
LEMMA HandedSame ==
  ASSUME HandedInv, UNCHANGED queueVars, client' = client,
         response' = response \/ response' \in {"left", "error"}
  PROVE  HandedInv'
BY DEF HandedInv, queueVars, InHand

\* What the run hands on is in the queue or in the reader's hand.
LEMMA HandedReads ==
  ASSUME StreamInv, HandedInv, RunReads PROVE HandedInv'
<1> DEFINE h == Head(wire)
<1>1. /\ Types /\ run = "turn" /\ (reader = "waits" => buffer = <<>>) /\ response # "closed"
      /\ buffer \in Seq(Part) /\ h \in Part
  <2>1. Types /\ PhaseInv /\ BodyInv /\ run = "turn" /\ wire # <<>> /\ wire \in Seq(Part)
    BY Parted DEF RunReads, Types
  <2> QED
    BY <2>1, TailFacts DEF Types, PhaseInv, BodyInv, Done
<1>2. /\ Push(h) /\ handed' = handed \cup VisibleCalls(<<h>>)
      /\ response' = response /\ client' = client
  BY DEF RunReads, chunkVars
<1> HIDE DEF h
<1>3. VisibleCalls(<<h>>) \subseteq Tool
  BY <1>1, VisibleTyped
<1>4. VisibleCalls(InHand)' \cup VisibleCalls(buffer)' = VisibleCalls(InHand) \cup VisibleCalls(buffer) \cup VisibleCalls(<<h>>)
  <2>1. CASE reader = "waits"
    <3>1. InHand = <<>> /\ InHand' = <<h>> /\ buffer' = buffer
      BY <1>2, <2>1 DEF Push, InHand
    <3> QED
      BY <3>1, VisibleTyped
  <2>2. CASE reader # "waits"
    <3>1. InHand' = InHand /\ buffer' = Append(buffer, h)
      BY <1>2, <2>2 DEF Push, InHand
    <3> QED
      BY <1>1, <3>1, VisibleAdded
  <2> QED
    BY <2>1, <2>2
<1> QED
  BY <1>1, <1>2, <1>3, <1>4 DEF HandedInv

\* The reader takes a part from the queue into its hand.
LEMMA HandedTaken ==
  ASSUME StreamInv, HandedInv, ReaderNext PROVE HandedInv'
<1>1. /\ buffer \in Seq(Part) /\ reader = "next" /\ InHand = <<>>
      /\ response' = response /\ client' = client /\ handed' = handed
  BY Parted DEF ReaderNext, Types, InHand, chunkVars
<1>2. VisibleCalls(InHand)' \cup VisibleCalls(buffer)' = VisibleCalls(InHand) \cup VisibleCalls(buffer)
  <2>1. CASE buffer # <<>>
    <3>1. buffer = <<Head(buffer)>> \o Tail(buffer) /\ Head(buffer) \in Part /\ Tail(buffer) \in Seq(Part)
      BY <1>1, <2>1, SeqFacts
    <3>2. InHand' = <<Head(buffer)>> /\ buffer' = Tail(buffer)
      BY <2>1 DEF ReaderNext, InHand
    <3>3. VisibleCalls(buffer) = VisibleCalls(Tail(buffer)) \cup VisibleCalls(<<Head(buffer)>>)
      BY <3>1, VisibleAdded
    <3> QED
      BY <1>1, <3>2, <3>3, VisibleTyped
  <2>2. CASE buffer = <<>>
    <3>1. InHand' = <<>> /\ buffer' = buffer
      BY <2>2 DEF ReaderNext, InHand
    <3> QED
      BY <1>1, <3>1
  <2> QED
    BY <2>1, <2>2
<1> QED
  BY <1>1, <1>2 DEF HandedInv

\* Every step keeps what is known of the calls handed on.
LEMMA HandedSteps ==
  ASSUME StreamInv, HandedInv, [StreamNext]_streamVars PROVE HandedInv'
<1>1. CASE MessageStarts \/ (\E k \in Kind : Delta(k)) \/ (\E gap \in BOOLEAN : MessageEnds(gap))
  <2>1. UNCHANGED <<queueVars, chunkVars>>
    BY <1>1 DEF MessageStarts, Delta, MessageEnds
  <2> QED
    BY <2>1, HandedSame DEF chunkVars
<1>2. CASE (\E t \in Tool : ToolStarts(t) \/ ToolEnds(t)) \/ TurnSettles \/ TurnStarts
  <2>1. UNCHANGED <<queueVars, chunkVars>>
    BY <1>2 DEF ToolStarts, ToolEnds, TurnSettles, TurnStarts
  <2> QED
    BY <2>1, HandedSame DEF chunkVars
<1>3. CASE RunReads
  BY <1>3, HandedReads
<1>4. CASE RunSettles
  <2>1. reader' = (IF reader = "waits" THEN "has end" ELSE reader) /\ UNCHANGED <<buffer, hand, handed, response, client>>
    BY <1>4 DEF RunSettles, Close, chunkVars
  <2>2. InHand' = InHand
    BY <2>1 DEF InHand
  <2> QED
    BY <2>1, <2>2 DEF HandedInv
<1>5. CASE ReaderNext
  BY <1>5, HandedTaken
<1>6. CASE ReaderConverts
  <2>1. /\ response = "open" => client'.inputs = client.inputs \cup VisibleCalls(<<hand>>)
        /\ response \in {"open", "left"}
    BY <1>6, Parted, ReaderConvertsStep DEF ReaderConverts, PhaseInv, Types
  <2>2. /\ InHand = <<hand>> /\ InHand' = <<>> /\ buffer' = buffer /\ handed' = handed
        /\ response' \in {"open", "left", "error"} /\ (response' = "open" => response = "open")
    BY <1>6, <2>1 DEF ReaderConverts, InHand
  <2> QED
    BY <2>1, <2>2, VisibleTyped DEF HandedInv
<1>7. CASE ReaderEnds
  <2>1. /\ response = "open" => client'.inputs = client.inputs
        /\ response \in {"open", "left"} /\ buffer = <<>> /\ InHand = <<>>
    BY <1>7, Parted, ReaderEndsStep DEF ReaderEnds, PhaseInv, Types, InHand
  <2>2. handed' = handed /\ response' = IF response = "left" THEN "error" ELSE "closed"
    BY <1>7 DEF ReaderEnds
  <2> QED
    BY <2>1, <2>2, VisibleTyped DEF HandedInv
<1>8. CASE ClientLeaves
  BY <1>8, HandedSame DEF ClientLeaves
<1>9. CASE UNCHANGED streamVars
  BY <1>9, HandedSame DEF streamVars, chunkVars
<1> QED
  BY <1>1, <1>2, <1>3, <1>4, <1>5, <1>6, <1>7, <1>8, <1>9 DEF StreamNext

\* The invariant of what is handed on.
LEMMA HandedInvariant == StreamSpec => []HandedInv
<1>1. StreamInit => HandedInv
  <2> SUFFICES ASSUME StreamInit PROVE HandedInv
    OBVIOUS
  <2>1. handed = {} /\ buffer = <<>> /\ InHand = <<>> /\ client.inputs = {} /\ response = "open"
    BY DEF StreamInit, InHand
  <2> QED
    BY <2>1, VisibleTyped DEF HandedInv
<1>2. StreamInv /\ HandedInv /\ [StreamNext]_streamVars => HandedInv'
  BY HandedSteps
<1> QED
  BY <1>1, <1>2, StreamInvariant, PTL DEF StreamSpec

\* Every variable of the stream has its type; a reader that waits has nothing
\* to wait for in the buffer, and the queue is not closed under it.
THEOREM StreamIsTyped == StreamSpec => []StreamTypeOK
<1>1. StreamInv /\ HandedInv => StreamTypeOK
  <2> SUFFICES ASSUME StreamInv, HandedInv PROVE StreamTypeOK
    OBVIOUS
  <2>1. Types /\ PhaseInv /\ MaxEvents \in Nat /\ handed \subseteq Tool
    BY Parted DEF HandedInv
  <2>2. events \in 0..MaxEvents /\ nextId \in 1..events + 1
    BY <2>1 DEF Types
  <2>3. nextId \in 1..MaxEvents + 1
    BY <2>1, <2>2
  <2> QED
    BY <2>1, <2>3 DEF Types, PhaseInv, StreamTypeOK, Conv, Standing
<1> QED
  BY <1>1, StreamInvariant, HandedInvariant, PTL

\* The client understands the stream: ui-message-stream.ts gives, for whatever
\* Pi, the run and its repair turns do, only chunks that have their place.
THEOREM StreamIsUnderstood == StreamSpec => []ClientUnderstands
<1>1. StreamInv => ClientUnderstands
  BY DEF StreamInv, ClientUnderstands
<1> QED
  BY <1>1, StreamInvariant, PTL

\* A body that closes has its terminal chunk and shows exactly the visible tool
\* calls that the run has handed on, nothing of which is left in the queue,
\* whether the run had a result, was cut short or failed; after a run that came
\* to the end of its turns these are all the visible calls of Pi.
THEOREM ClosedBodyIsWhole == StreamSpec => []BodyIsWhole
<1>1. StreamInv /\ HandedInv => BodyIsWhole
  BY DEF StreamInv, BodyInv, HandedInv, BodyIsWhole
<1> QED
  BY <1>1, StreamInvariant, HandedInvariant, PTL

-----------------------------------------------------------------------------
(* The slots of a run. *)

\* The parts of the inductive invariant, for one request.

\* Before the limiter has answered there is no permit and nothing to release.
AskedInv(r) ==
  /\ phase[r] = "new" => lease[r] = "none"
  /\ lease[r] \in {"none", "asked"} =>
       permit[r] = "none" /\ releasing[r] = "none" /\ renewal[r] = "off"
  /\ phase[r] \in {"granted", "invalid"} =>
       /\ permit[r] = "none" /\ releasing[r] = "none" /\ renewal[r] = "off"
       /\ lease[r] = "held" /\ left[r] = Ttl
  /\ phase[r] = "noid" =>
       permit[r] = "none" /\ releasing[r] = "none" /\ lease[r] = "gone"

\* A permit is held only by a request on its way to or at the provider, and a
\* permit that is no longer held has had its lease released.
PermitInv(r) ==
  /\ permit[r] = "held" =>
       releasing[r] = "none" /\ phase[r] \in {"permitted", "calling"}
  /\ permit[r] = "released" => releasing[r] # "none"
  /\ phase[r] \in {"permitted", "calling"} => permit[r] # "none"
  /\ phase[r] = "ending" => permit[r] = "released"
  /\ phase[r] = "done" => permit[r] = "released" /\ Settled(r)
  /\ (phase[r] \in {"permitted", "calling"} /\ permit[r] = "released") =>
       r \in revoked \/ caller[r] # "clear" \/ disposed

\* The limiter drops a lease for good when its release is done.
LeaseInv(r) ==
  /\ releasing[r] = "done" => lease[r] = "gone"
  /\ lease[r] = "held" =>
       phase[r] \in {"granted", "invalid"} \/ permit[r] = "held" \/ releasing[r] # "none"

\* While the answer to a renewal is on its way, the limiter's expiry is no
\* earlier than the local expiry the answer will set.
ExpiryInv(r) ==
  permit[r] = "held" =>
    /\ localLeft[r] <= left[r]
    /\ renewal[r] = "extended" => Ttl - sinceSent[r] <= left[r]

RequestInv(r) == AskedInv(r) /\ PermitInv(r) /\ LeaseInv(r) /\ ExpiryInv(r)

RunInv == TypeOK /\ \A r \in Request : RequestInv(r)

-----------------------------------------------------------------------------
USE RunAssumption DEF gateVars, signalVars, renewVars, leaseVars

\* Every step keeps every variable in its type.
LEMMA TypeStep == TypeOK /\ [Next]_vars => TypeOK'
<1> SUFFICES ASSUME TypeOK, [Next]_vars PROVE TypeOK'
  OBVIOUS
<1> USE DEF TypeOK, Phase, Signal, Failure, Renewal, Releasing
<1>1. ASSUME NEW r \in Request, Admit(r) PROVE TypeOK'
  BY <1>1 DEF Admit, Fail
<1>2. ASSUME NEW r \in Request, DeadlineTimer(r) PROVE TypeOK'
  BY <1>2 DEF DeadlineTimer
<1>3. ASSUME NEW r \in Request, StopWaiting(r) PROVE TypeOK'
  BY <1>3 DEF StopWaiting, Classify, Fail
<1>4. ASSUME NEW r \in Request, LimiterGrants(r) PROVE TypeOK'
  BY <1>4 DEF LimiterGrants
<1>5. ASSUME NEW r \in Request, NEW error \in Failure \ {"lost"}, LimiterRejects(r, error)
      PROVE TypeOK'
  BY <1>5 DEF LimiterRejects, Classify, Fail
<1>6. ASSUME NEW r \in Request, AdmitContinues(r) PROVE TypeOK'
  BY <1>6 DEF AdmitContinues, Classify, Fail
<1>7. ASSUME NEW r \in Request, AdmitGivesUp(r) PROVE TypeOK'
  BY <1>7 DEF AdmitGivesUp, Classify, Fail
<1>8. ASSUME NEW r \in Request, GateCalls(r) \/ GateFinishes(r) PROVE TypeOK'
  BY <1>8 DEF GateCalls, GateFinishes
<1>9. ASSUME NEW r \in Request, ProviderEnds(r) PROVE TypeOK'
  BY <1>9 DEF ProviderEnds, Release
<1>10. ASSUME NEW r \in Request, RenewTimer(r) PROVE TypeOK'
  BY <1>10 DEF RenewTimer, Lose, Fail, Release
<1>11. ASSUME NEW r \in Request, LimiterRenews(r) PROVE TypeOK'
  BY <1>11 DEF LimiterRenews
<1>12. ASSUME NEW r \in Request, RenewAnswered(r) PROVE TypeOK'
  BY <1>12 DEF RenewAnswered, Lose, Fail, Release
<1>13. ASSUME NEW r \in Request, RenewFails(r) PROVE TypeOK'
  BY <1>13 DEF RenewFails, Lose, Fail, Release
<1>14. ASSUME NEW r \in Request,
              LimiterReleases(r) \/ ReleaseFails(r) \/ ReleaseTimesOut(r) \/ LimiterExpires(r)
       PROVE TypeOK'
  BY <1>14 DEF LimiterReleases, ReleaseFails, ReleaseTimesOut, LimiterExpires
<1>15. ASSUME NEW r \in Request, NEW why \in Reason, CallerAborts(r, why) PROVE TypeOK'
  BY <1>15 DEF CallerAborts, Release
<1>16. ASSUME NEW why \in Reason, RunAborts(why) PROVE TypeOK'
  BY <1>16 DEF RunAborts
<1>17. CASE Dispose
  BY <1>17 DEF Dispose, Release
<1>18. CASE DeadlineNears
  BY <1>18 DEF DeadlineNears
<1>19. CASE Tick
  BY <1>19 DEF Tick, CountDown
<1>20. ASSUME NEW error \in {"timeout", "lost"}, OtherFails(error) PROVE TypeOK'
  BY <1>20 DEF OtherFails, Fail
<1>21. CASE UNCHANGED vars
  BY <1>21 DEF vars
<1> QED
  BY <1>1, <1>2, <1>3, <1>4, <1>5, <1>6, <1>7, <1>8, <1>9, <1>10, <1>11, <1>12,
     <1>13, <1>14, <1>15, <1>16, <1>17, <1>18, <1>19, <1>20, <1>21 DEF Next

\* Every step keeps the invariant of every request.
LEMMA RequestStep == RunInv /\ [Next]_vars => \A q \in Request : RequestInv(q)'
<1> SUFFICES ASSUME RunInv, [Next]_vars, NEW q \in Request PROVE RequestInv(q)'
  OBVIOUS
<1>t. TypeOK /\ TypeOK' /\ RequestInv(q) /\ \A r \in Request : RequestInv(r)
  BY TypeStep DEF RunInv
<1> USE <1>t DEF TypeOK, RequestInv, AskedInv, PermitInv, LeaseInv, ExpiryInv, Settled
<1>1. ASSUME NEW r \in Request, Admit(r) PROVE RequestInv(q)'
  BY <1>1 DEF Admit, Fail
<1>2. ASSUME NEW r \in Request, DeadlineTimer(r) PROVE RequestInv(q)'
  BY <1>2 DEF DeadlineTimer
<1>3. ASSUME NEW r \in Request, StopWaiting(r) PROVE RequestInv(q)'
  BY <1>3 DEF StopWaiting
<1>4. ASSUME NEW r \in Request, LimiterGrants(r) PROVE RequestInv(q)'
  BY <1>4 DEF LimiterGrants
<1>5. ASSUME NEW r \in Request, NEW error \in Failure \ {"lost"}, LimiterRejects(r, error) PROVE RequestInv(q)'
  BY <1>5 DEF LimiterRejects
<1>6. ASSUME NEW r \in Request, AdmitContinues(r) PROVE RequestInv(q)'
  BY <1>6 DEF AdmitContinues
<1>7. ASSUME NEW r \in Request, AdmitGivesUp(r) PROVE RequestInv(q)'
  BY <1>7 DEF AdmitGivesUp
<1>8. ASSUME NEW r \in Request, GateCalls(r) \/ GateFinishes(r) PROVE RequestInv(q)'
  BY <1>8 DEF GateCalls, GateFinishes
<1>9. ASSUME NEW r \in Request, ProviderEnds(r) PROVE RequestInv(q)'
  BY <1>9 DEF ProviderEnds, Release, Held
<1>10. ASSUME NEW r \in Request, RenewTimer(r) PROVE RequestInv(q)'
  BY <1>10 DEF RenewTimer, Lose, Release, Held
<1>11. ASSUME NEW r \in Request, LimiterRenews(r) PROVE RequestInv(q)'
  BY <1>11 DEF LimiterRenews
<1>12. ASSUME NEW r \in Request, RenewAnswered(r) PROVE RequestInv(q)'
  BY <1>12 DEF RenewAnswered, Lose, Release, Held
<1>13. ASSUME NEW r \in Request, RenewFails(r) PROVE RequestInv(q)'
  BY <1>13 DEF RenewFails, Lose, Release, Held
<1>14. ASSUME NEW r \in Request, LimiterReleases(r) PROVE RequestInv(q)'
  BY <1>14 DEF LimiterReleases
<1>15. ASSUME NEW r \in Request, ReleaseFails(r) \/ ReleaseTimesOut(r) \/ LimiterExpires(r)
       PROVE RequestInv(q)'
  BY <1>15 DEF ReleaseFails, ReleaseTimesOut, LimiterExpires
<1>16. ASSUME NEW r \in Request, NEW why \in Reason, CallerAborts(r, why) PROVE RequestInv(q)'
  BY <1>16 DEF CallerAborts, Release, Held
<1>17. ASSUME NEW why \in Reason, RunAborts(why) PROVE RequestInv(q)'
  BY <1>17 DEF RunAborts
<1>18. CASE Dispose
  BY <1>18 DEF Dispose, Release, Held
<1>19. CASE DeadlineNears
  BY <1>19 DEF DeadlineNears
<1>20. CASE Tick
  BY <1>20 DEF Tick, CountDown, Microtask
<1>21. ASSUME NEW error \in {"timeout", "lost"}, OtherFails(error) PROVE RequestInv(q)'
  BY <1>21 DEF OtherFails
<1>22. CASE UNCHANGED vars
  BY <1>22 DEF vars
<1> QED
  BY <1>1, <1>2, <1>3, <1>4, <1>5, <1>6, <1>7, <1>8, <1>9, <1>10, <1>11,
     <1>12, <1>13, <1>14, <1>15, <1>16, <1>17, <1>18, <1>19, <1>20, <1>21, <1>22 DEF Next

-----------------------------------------------------------------------------
\* The invariant holds in every reachable state.
THEOREM RunInvariant == Spec => []RunInv
<1>1. Init => RunInv
  <2> SUFFICES ASSUME Init PROVE RunInv
    OBVIOUS
  <2> USE DEF Init
  <2>1. disposed \in BOOLEAN
    BY Zenon
  <2>2. deadline \in {"none", "far", "near", "past"}
    OBVIOUS
  <2>3. TypeOK
    BY <2>1, <2>2 DEF TypeOK, Phase, Signal, Failure, Renewal, Releasing
  <2>4. ASSUME NEW r \in Request PROVE RequestInv(r)
    BY DEF RequestInv, AskedInv, PermitInv, LeaseInv, ExpiryInv, Settled
  <2> QED
    BY <2>3, <2>4 DEF RunInv
<1>2. RunInv /\ [Next]_vars => RunInv'
  BY TypeStep, RequestStep DEF RunInv
<1> QED
  BY <1>1, <1>2, PTL DEF Spec

\* Every variable of the controller and the gate keeps its type.
THEOREM RunTypeCorrect == Spec => []TypeOK
<1>1. RunInv => TypeOK
  BY DEF RunInv
<1> QED
  BY <1>1, RunInvariant, PTL

\* No slot leaks: whatever the order of grants, aborts, invalid leases and
\* dispose, a lease the limiter holds is in somebody's hands or given back.
THEOREM NoSlotLeaks == Spec => []SlotAccounted
<1>1. RunInv => SlotAccounted
  BY DEF RunInv, RequestInv, LeaseInv, SlotAccounted
<1> QED
  BY <1>1, RunInvariant, PTL

\* RunCell's local expiry of a permit never outlives the limiter's expiry of
\* its lease, for every lease lifetime and every delay of a renewal.
THEOREM LocalExpiryIsFirst == Spec => []LocalExpiryFirst
<1>1. RunInv => LocalExpiryFirst
  BY DEF RunInv, RequestInv, ExpiryInv, LocalExpiryFirst
<1> QED
  BY <1>1, RunInvariant, PTL

\* A request at the provider that was not told to stop holds its permit.
THEOREM ProviderCallsAreCovered == Spec => []ProviderCallCovered
<1>1. RunInv => ProviderCallCovered
  BY DEF RunInv, TypeOK, RequestInv, PermitInv, ProviderCallCovered
<1> QED
  BY <1>1, RunInvariant, PTL

\* When Pi sees the end of a response its slot is back, or its release failed.
THEOREM SlotIsReturnedBeforeTools == Spec => []SlotReturnedBeforeTools
<1>1. RunInv => SlotReturnedBeforeTools
  BY DEF RunInv, RequestInv, PermitInv, LeaseInv, Settled, SlotReturnedBeforeTools
<1> QED
  BY <1>1, RunInvariant, PTL

\* A request that has not begun, or was denied, in a run that has failed.
Refused(r) == failure # "none" /\ phase[r] \in {"new", "denied"}

\* ... is never anything else.
LEMMA RefusedStep ==
  ASSUME NEW r \in Request, TypeOK, Refused(r), [Next]_vars
  PROVE  Refused(r)'
<1> USE DEF signalVars, gateVars, renewVars, leaseVars, vars
<1>1. phase \in [Request -> Phase] /\ failure # "none" /\ phase[r] \in {"new", "denied"}
  BY DEF Refused, TypeOK
<1>2. failure' # "none"
  <2>1. ASSUME NEW q \in Request, NEW e, Classify(q, e) PROVE failure' # "none"
    BY <1>1, <2>1 DEF Classify, Fail
  <2>2. ASSUME NEW q \in Request, Lose(q) PROVE failure' # "none"
    BY <1>1, <2>2 DEF Lose, Fail
  <2>. QED
    BY <1>1, <2>1, <2>2 DEF Next, Admit, DeadlineTimer, StopWaiting, LimiterGrants, LimiterRejects,
       AdmitContinues, AdmitGivesUp, GateCalls, ProviderEnds, GateFinishes, RenewTimer,
       LimiterRenews, RenewAnswered, RenewFails, LimiterReleases, ReleaseFails, ReleaseTimesOut,
       LimiterExpires, CallerAborts, OtherFails, RunAborts, Dispose, DeadlineNears, Tick, Fail
<1>3. phase'[r] \in {"new", "denied"}
  <2>1. phase' = phase \/ \E q \in Request : \/ Admit(q) \/ StopWaiting(q) \/ LimiterGrants(q)
                                             \/ \E e \in Failure : LimiterRejects(q, e)
                                             \/ AdmitContinues(q) \/ AdmitGivesUp(q)
                                             \/ GateCalls(q) \/ ProviderEnds(q) \/ GateFinishes(q)
    BY DEF Next, DeadlineTimer, RenewTimer, LimiterRenews, RenewAnswered, RenewFails,
       LimiterReleases, ReleaseFails, ReleaseTimesOut, LimiterExpires, CallerAborts, OtherFails,
       RunAborts, Dispose, DeadlineNears, Tick
  <2>2. ASSUME NEW q \in Request, Admit(q) PROVE phase'[r] \in {"new", "denied"}
    BY <1>1, <2>2 DEF Admit
  <2>3. ASSUME NEW q \in Request, StopWaiting(q) \/ AdmitGivesUp(q)
        PROVE  phase'[r] \in {"new", "denied"}
    BY <1>1, <2>3 DEF StopWaiting, AdmitGivesUp
  <2>4. ASSUME NEW q \in Request, LimiterGrants(q) PROVE phase'[r] \in {"new", "denied"}
    BY <1>1, <2>4 DEF LimiterGrants
  <2>5. ASSUME NEW q \in Request, NEW e \in Failure, LimiterRejects(q, e)
        PROVE  phase'[r] \in {"new", "denied"}
    BY <1>1, <2>5 DEF LimiterRejects
  <2>6. ASSUME NEW q \in Request, AdmitContinues(q) PROVE phase'[r] \in {"new", "denied"}
    BY <1>1, <2>6 DEF AdmitContinues
  <2>7. ASSUME NEW q \in Request, GateCalls(q) \/ ProviderEnds(q) \/ GateFinishes(q)
        PROVE  phase'[r] \in {"new", "denied"}
    BY <1>1, <2>7 DEF GateCalls, ProviderEnds, GateFinishes
  <2>. QED  BY <1>1, <2>1, <2>2, <2>3, <2>4, <2>5, <2>6, <2>7
<1>. QED  BY <1>2, <1>3 DEF Refused

\* Once a run has failed for want of a slot, no request that it makes later
\* reaches the provider.
THEOREM LaterRequestsAreDenied == Spec => FailureDeniesLater
<1> SUFFICES ASSUME NEW r \in Request
             PROVE  Spec => [](failure # "none" /\ phase[r] = "new" => [](phase[r] # "calling"))
  BY DEF FailureDeniesLater
<1>1. failure # "none" /\ phase[r] = "new" => Refused(r)
  BY DEF Refused
<1>2. TypeOK /\ Refused(r) /\ [Next]_vars => Refused(r)'
  BY RefusedStep
<1>3. Refused(r) => phase[r] # "calling"
  BY DEF Refused
<1> QED
  BY <1>1, <1>2, <1>3, RunTypeCorrect, PTL DEF Spec
=============================================================================
