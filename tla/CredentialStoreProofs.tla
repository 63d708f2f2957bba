------------------------ MODULE CredentialStoreProofs ------------------------
(***************************************************************************)
(* Proofs about CredentialStore, for any number of callers, processes,     *)
(* providers, tokens and failures: no committed rotation is overwritten,   *)
(* no token that was obtained without the lock gets into the row, and a    *)
(* write changes nothing but its own provider's entry.                     *)
(***************************************************************************)
EXTENDS CredentialStore, TLAPS

-----------------------------------------------------------------------------
(* The inductive invariant. *)

\* What a call has at each point of withLock.
CallInv(c) ==
  /\ pc[c] # "idle" => op[c] \in Op
  /\ pc[c] \in {"idle", "ensure", "connect"} => seen[c] = None /\ next[c] = None
  /\ pc[c] \in {"locked", "fallback"} => next[c] = None
  /\ pc[c] \in {"locked", "write", "answer", "fallback"} => seen[c] \in Blob

\* What a call is about to write: the blob it saw but for its own entry, which
\* it has removed, or whose token it has rotated.
WriteInv(c) ==
  next[c] # None =>
    LET p == op[c].provider IN
    /\ \A q \in Provider \ {p} : next[c][q] = seen[c][q]
    /\ seen[c][p] > 0
    /\ op[c].kind = "refresh" \/ next[c][p] = 0
    /\ op[c].kind = "refresh" => next[c][p] # seen[c][p]

\* The lock has one holder, whose function saw what is in the row.
LockInv(c) ==
  c \in holders =>
    /\ holders = {c}
    /\ seen[c] = blob
    /\ sealed => ProcOf[c] \in Keyed

\* Nobody has a token the provider has not issued.
BoundInv(p) ==
  /\ blob[p] <= issued[p]
  /\ \A c \in Call : /\ seen[c] # None => seen[c][p] <= issued[p]
                     /\ next[c] # None => next[c][p] <= issued[p]
  /\ \A q \in Proc : cache[q] # None => cache[q][p] <= issued[p]
  /\ \A g \in 1..MaxGen : <<p, g>> \in strayed => g # 1 /\ g <= issued[p]

\* The newest token of p is in the hands of c alone.
Private(c, p) ==
  /\ \A d \in Call \ {c} : /\ seen[d] # None => seen[d][p] < issued[p]
                           /\ next[d] # None => next[d][p] < issued[p]
  /\ \A q \in Proc : cache[q] # None => cache[q][p] < issued[p]

\* A call that is about to write a rotation has the newest token, and the row
\* the one before, unless it was deleted.
RotationInv(c) ==
  Rotated(c) =>
    LET p == op[c].provider IN
    /\ next[c][p] = issued[p] /\ seen[c][p] = issued[p] - 1
    /\ blob[p] \in {0, issued[p] - 1}
    /\ <<p, issued[p]>> \notin strayed /\ <<p, issued[p] - 1>> \notin strayed
    /\ Private(c, p)

IsNewest(p, g) ==
  /\ g \in 1..issued[p]
  /\ <<p, g>> \notin strayed
  /\ \A h \in g + 1..issued[p] : <<p, h>> \in strayed

NewestInv(p) ==
  \/ \E c \in Call : Rotated(c) /\ op[c].provider = p
  \/ blob[p] = 0 \/ IsNewest(p, blob[p])

\* A call under the lock has seen no token that was issued in vain.
LockedInv(c) ==
  pc[c] = "locked" => \A p \in Provider : <<p, seen[c][p]>> \notin strayed

CallsInv == \A c \in Call : CallInv(c) /\ WriteInv(c) /\ LockInv(c)

TokensInv ==
  /\ \A p \in Provider : BoundInv(p) /\ NewestInv(p)
  /\ \A c \in Call : RotationInv(c) /\ LockedInv(c)

StoreInv == TypeOK /\ CallsInv /\ TokensInv

-----------------------------------------------------------------------------
USE DEF callVars, rowVars, providerVars

\* There is one newest token at most.
LEMMA OneNewest ==
  ASSUME TypeOK, NEW p \in Provider, NEW g, NEW h, IsNewest(p, g), IsNewest(p, h)
  PROVE  g = h
<1>1. issued[p] \in Nat
  BY StoreAssumption DEF TypeOK
<1>2. ASSUME NEW x \in 1..issued[p], NEW y \in 1..issued[p], x < y,
             IsNewest(p, x), IsNewest(p, y)
      PROVE  FALSE
  BY <1>1, <1>2 DEF IsNewest
<1> QED
  BY <1>1, <1>2 DEF IsNewest

\* ... and the property's is that one.
LEMMA NewestIs ==
  ASSUME TypeOK, NEW p \in Provider, NEW g, IsNewest(p, g)
  PROVE  Newest(p) = g
<1>1. \E h \in 1..issued[p] : <<p, h>> \notin strayed
                              /\ \A k \in h + 1..issued[p] : <<p, k>> \in strayed
  BY DEF IsNewest
<1>2. IsNewest(p, Newest(p))
  BY <1>1 DEF Newest, IsNewest
<1> QED
  BY <1>2, OneNewest

-----------------------------------------------------------------------------
(* Steps after which the calls in C know less than before: they settle, or  *)
(* go on with the cached blob, or have not begun; and what they rotated and *)
(* have not committed is lost.                                              *)

Leaves(C) ==
  /\ UNCHANGED <<blob, sealed, issued>>
  /\ \A p \in Provider, g \in 0..MaxGen :
       <<p, g>> \in strayed' <=>
         \/ <<p, g>> \in strayed
         \/ \E c \in C : Rotated(c) /\ op[c].provider = p /\ next[c][p] = g
  /\ holders' \subseteq holders \ C
  /\ \A q \in Proc : cache'[q] \in {None, cache[q]}
  /\ \A c \in Call \ C : /\ pc'[c] = pc[c] /\ op'[c] = op[c]
                         /\ seen'[c] = seen[c] /\ next'[c] = next[c]
  /\ \A c \in C :
       /\ pc'[c] \in {"idle", "ensure", "connect", "fallback"} /\ next'[c] = None
       /\ pc'[c] # "idle" => op'[c] \in Op
       /\ IF pc'[c] = "fallback" THEN seen'[c] = cache[ProcOf[c]] /\ seen'[c] # None
          ELSE seen'[c] = None

\* Such a step keeps what calls and lock have.
LEMMA LeavesCalls ==
  ASSUME StoreInv, NEW C \in SUBSET Call, Leaves(C)
  PROVE  CallsInv'
<1> SUFFICES ASSUME NEW c \in Call PROVE CallInv(c)' /\ WriteInv(c)' /\ LockInv(c)'
  BY DEF CallsInv
<1>0. CallInv(c) /\ WriteInv(c) /\ LockInv(c)
  BY DEF StoreInv, CallsInv
<1>1. CASE c \in C
  <2>1. cache[ProcOf[c]] \in Blob \cup {None}
    BY StoreAssumption DEF StoreInv, TypeOK
  <2> QED
    BY <1>1, <2>1 DEF Leaves, CallInv, WriteInv, LockInv
<1>2. CASE c \notin C
  <2>1. CallInv(c)' /\ WriteInv(c)'
    BY <1>0, <1>2 DEF Leaves, CallInv, WriteInv
  <2>2. LockInv(c)'
    BY <1>0, <1>2 DEF Leaves, LockInv
  <2> QED
    BY <2>1, <2>2
<1> QED
  BY <1>1, <1>2

\* ... and what is known of the tokens.
LEMMA LeavesTokens ==
  ASSUME StoreInv, TypeOK', NEW C \in SUBSET Call, Leaves(C)
  PROVE  TokensInv'
<1> USE StoreAssumption
<1>0. TypeOK /\ CallsInv /\ TokensInv
  BY DEF StoreInv
<1>n. \A p \in Provider : issued[p] \in 1..MaxGen /\ blob[p] \in 0..MaxGen
  BY <1>0 DEF TypeOK, Blob
<1>r. ASSUME NEW c \in Call, Rotated(c)' PROVE c \notin C /\ Rotated(c)
  BY <1>r DEF Leaves, Rotated
<1>p. ASSUME NEW c \in Call, Rotated(c)
      PROVE  op[c] \in Op /\ op[c].provider \in Provider
  BY <1>0, <1>p DEF Rotated, CallsInv, CallInv, Op
<1>1. ASSUME NEW p \in Provider PROVE BoundInv(p)'
  <2>1. BoundInv(p)
    BY <1>0 DEF TokensInv
  <2>2. \A c \in Call : seen'[c] # None => seen'[c][p] <= issued[p]
    BY <2>1 DEF Leaves, BoundInv
  <2>3. \A c \in Call : next'[c] # None => next'[c][p] <= issued[p]
    BY <2>1 DEF Leaves, BoundInv
  <2>4. \A q \in Proc : cache'[q] # None => cache'[q][p] <= issued[p]
    BY <2>1 DEF Leaves, BoundInv
  <2>5. ASSUME NEW g \in 1..MaxGen, <<p, g>> \in strayed' PROVE g # 1 /\ g <= issued[p]
    <3>1. CASE <<p, g>> \in strayed
      BY <2>1, <3>1 DEF BoundInv
    <3>2. CASE \E c \in C : Rotated(c) /\ op[c].provider = p /\ next[c][p] = g
      <4>1. PICK c \in C : Rotated(c) /\ op[c].provider = p /\ next[c][p] = g
        BY <3>2
      <4>2. g = issued[p] /\ seen[c][p] = issued[p] - 1
        BY <1>0, <4>1 DEF TokensInv, RotationInv
      <4>3. seen[c][p] > 0
        BY <1>0, <4>1 DEF CallsInv, WriteInv, Rotated
      <4> QED
        BY <1>n, <4>2, <4>3
    <3> QED
      BY <2>5, <3>1, <3>2 DEF Leaves
  <2> QED
    BY <2>1, <2>2, <2>3, <2>4, <2>5 DEF Leaves, BoundInv
<1>2. ASSUME NEW c \in Call PROVE RotationInv(c)'
  <2> SUFFICES ASSUME Rotated(c)' PROVE RotationInv(c)'
    BY DEF RotationInv
  <2> DEFINE p == op[c].provider
  <2>1. c \notin C /\ Rotated(c) /\ op'[c] = op[c] /\ next'[c] = next[c] /\ seen'[c] = seen[c]
    BY <1>r DEF Leaves
  <2>2. p \in Provider
    BY <1>p, <2>1
  <2>3. /\ next[c][p] = issued[p] /\ seen[c][p] = issued[p] - 1
        /\ blob[p] \in {0, issued[p] - 1}
        /\ <<p, issued[p]>> \notin strayed /\ <<p, issued[p] - 1>> \notin strayed
        /\ Private(c, p)
    BY <1>0, <2>1 DEF TokensInv, RotationInv
  <2>4. ASSUME NEW d \in C, Rotated(d), op[d].provider = p PROVE FALSE
    <3>1. d # c /\ next[d][p] = issued[p] /\ next[d] # None
      BY <1>0, <2>1, <2>4 DEF TokensInv, RotationInv, Rotated
    <3>2. next[d][p] < issued[p]
      BY <2>3, <3>1, <2>4 DEF Private
    <3> QED
      BY <1>n, <2>2, <3>1, <3>2
  <2>5. <<p, issued[p]>> \notin strayed' /\ <<p, issued[p] - 1>> \notin strayed'
    BY <1>n, <2>2, <2>3, <2>4 DEF Leaves
  <2>6. ASSUME NEW d \in Call \ {c}, seen'[d] # None PROVE seen'[d][p] < issued[p]
    BY <2>3, <2>6 DEF Leaves, Private
  <2>7. ASSUME NEW d \in Call \ {c}, next'[d] # None PROVE next'[d][p] < issued[p]
    BY <2>3, <2>7 DEF Leaves, Private
  <2>8. ASSUME NEW q \in Proc, cache'[q] # None PROVE cache'[q][p] < issued[p]
    BY <2>3, <2>8 DEF Leaves, Private
  <2>9. issued' = issued /\ blob' = blob
    BY DEF Leaves
  <2> QED
    BY <2>1, <2>3, <2>5, <2>6, <2>7, <2>8, <2>9 DEF RotationInv, Private
<1>3. ASSUME NEW c \in Call PROVE LockedInv(c)'
  <2> SUFFICES ASSUME pc'[c] = "locked", NEW p \in Provider PROVE <<p, seen'[c][p]>> \notin strayed'
    BY DEF LockedInv
  <2>1. c \notin C /\ pc[c] = "locked" /\ seen'[c] = seen[c]
    BY DEF Leaves
  <2>2. <<p, seen[c][p]>> \notin strayed /\ seen[c] \in Blob
    BY <1>0, <2>1 DEF TokensInv, LockedInv, CallsInv, CallInv
  <2>3. seen[c] # None /\ seen[c][p] \in 0..MaxGen
    BY <2>2 DEF Blob
  <2>4. ASSUME NEW d \in C, Rotated(d), op[d].provider = p, next[d][p] = seen[c][p] PROVE FALSE
    <3>1. next[d][p] = issued[p] /\ Private(d, p)
      BY <1>0, <2>4 DEF TokensInv, RotationInv
    <3>2. c # d
      BY <2>1, <2>4 DEF Rotated
    <3>3. seen[c][p] < issued[p]
      BY <2>3, <3>1, <3>2 DEF Private
    <3> QED
      BY <1>n, <2>4, <3>1, <3>3
  <2> QED
    BY <2>1, <2>2, <2>3, <2>4 DEF Leaves
<1>4. ASSUME NEW p \in Provider PROVE NewestInv(p)'
  <2>0. issued' = issued /\ blob' = blob
    BY DEF Leaves
  <2>1. CASE \E c \in Call \ C : Rotated(c) /\ op[c].provider = p
    BY <2>1 DEF Leaves, NewestInv, Rotated
  <2>2. CASE \E c \in C : Rotated(c) /\ op[c].provider = p
    <3>1. PICK c \in C : Rotated(c) /\ op[c].provider = p
      BY <2>2
    <3>2. /\ next[c][p] = issued[p] /\ seen[c][p] = issued[p] - 1
          /\ blob[p] \in {0, issued[p] - 1}
          /\ <<p, issued[p] - 1>> \notin strayed
      BY <1>0, <3>1 DEF TokensInv, RotationInv
    <3>3. seen[c][p] > 0
      BY <1>0, <3>1 DEF CallsInv, WriteInv, Rotated
    <3>4. <<p, issued[p]>> \in strayed'
      BY <1>n, <3>1, <3>2 DEF Leaves
    <3>5. ASSUME <<p, issued[p] - 1>> \in strayed' PROVE FALSE
      <4>1. PICK d \in C : Rotated(d) /\ op[d].provider = p /\ next[d][p] = issued[p] - 1
        BY <1>n, <3>2, <3>3, <3>5 DEF Leaves
      <4>2. next[d][p] = issued[p]
        BY <1>0, <4>1 DEF TokensInv, RotationInv
      <4> QED
        BY <1>n, <4>1, <4>2
    <3>6. CASE blob[p] = issued[p] - 1
      <4>1. blob[p] \in 1..issued[p] /\ blob[p] + 1..issued[p] = {issued[p]}
        BY <1>n, <3>2, <3>3, <3>6
      <4> QED
        BY <2>0, <3>4, <3>5, <3>6, <4>1 DEF NewestInv, IsNewest
    <3> QED
      BY <2>0, <3>2, <3>6 DEF NewestInv
  <2>3. CASE \A c \in Call : ~(Rotated(c) /\ op[c].provider = p)
    <3>1. blob[p] = 0 \/ IsNewest(p, blob[p])
      BY <1>0, <2>3 DEF TokensInv, NewestInv
    <3>2. ASSUME IsNewest(p, blob[p]) PROVE IsNewest(p, blob[p])'
      BY <1>n, <2>0, <2>3, <3>2 DEF Leaves, IsNewest
    <3> QED
      BY <2>0, <3>1, <3>2 DEF NewestInv
  <2> QED
    BY <2>1, <2>2, <2>3
<1> QED
  BY <1>1, <1>2, <1>3, <1>4 DEF TokensInv

-----------------------------------------------------------------------------
(* Types. *)

\* The blob a function returns.
LEMMA ResultType ==
  ASSUME StoreInv, NEW c \in Call, pc[c] \in {"locked", "fallback"}, FnEnds(c)
  PROVE  /\ Result(c) \in Blob \cup {None}
         /\ issued' \in [Provider -> 1..MaxGen] /\ stale' \in SUBSET Provider
<1>1. op[c] \in Op /\ seen[c] \in Blob
  BY DEF StoreInv, CallsInv, CallInv
<1>2. op[c].provider \in Provider
  BY <1>1 DEF Op
<1>3. /\ issued \in [Provider -> 1..MaxGen] /\ MaxGen \in Nat /\ stale \in SUBSET Provider
  BY StoreAssumption DEF StoreInv, TypeOK
<1>4. Issues(c) => Issue(c)
  BY DEF Issues, FnEnds
<1>5. Deleted(c) \in Blob
  BY <1>1, <1>2, <1>3 DEF Deleted, Blob
<1>6. Issues(c) => [seen[c] EXCEPT ![op[c].provider] = @ + 1] \in Blob
  BY <1>1, <1>2, <1>3, <1>4 DEF Issues, Issue, Blob
<1>7. issued' \in [Provider -> 1..MaxGen] /\ stale' \in SUBSET Provider
  BY <1>2, <1>3 DEF FnEnds, Issue
<1> QED
  BY <1>5, <1>6, <1>7 DEF Result

\* The end of calls keeps types.
LEMMA SettleType ==
  ASSUME TypeOK, NEW C, Settle(C) \/ \E p \in Proc : Unavailable(p, C)
  PROVE  /\ pc' \in [Call -> {"idle", "ensure", "connect", "locked", "write", "answer", "fallback"}]
         /\ op' \in [Call -> Op \cup {None}]
         /\ seen' \in [Call -> Blob \cup {None}] /\ next' \in [Call -> Blob \cup {None}]
         /\ \A c \in Call \ C : pc'[c] = pc[c]
  BY DEF TypeOK, Settle, Unavailable

\* A token that is strayed has been issued.
LEMMA StrayType ==
  ASSUME StoreInv, NEW C \in SUBSET Call, Stray(C)
  PROVE  /\ strayed' \in SUBSET (Provider \X (1..MaxGen))
         /\ \A p \in Provider, g \in 0..MaxGen :
              <<p, g>> \in strayed' <=>
                \/ <<p, g>> \in strayed
                \/ \E c \in C : Rotated(c) /\ op[c].provider = p /\ next[c][p] = g
<1>1. ASSUME NEW c \in C, Rotated(c)
      PROVE  op[c].provider \in Provider /\ next[c][op[c].provider] \in 1..MaxGen
  <2>1. op[c] \in Op
    BY <1>1 DEF StoreInv, CallsInv, CallInv, Rotated
  <2>2. op[c].provider \in Provider
    BY <2>1 DEF Op
  <2>3. next[c][op[c].provider] = issued[op[c].provider]
    BY <1>1 DEF StoreInv, TokensInv, RotationInv
  <2> QED
    BY <2>2, <2>3 DEF StoreInv, TypeOK
<1>2. strayed \in SUBSET (Provider \X (1..MaxGen))
  BY DEF StoreInv, TypeOK
<1>3. strayed' \in SUBSET (Provider \X (1..MaxGen))
  BY <1>1, <1>2 DEF Stray
<1>4. ASSUME NEW p \in Provider, NEW g \in 0..MaxGen
      PROVE  <<p, g>> \in strayed' <=>
               \/ <<p, g>> \in strayed
               \/ \E c \in C : Rotated(c) /\ op[c].provider = p /\ next[c][p] = g
  BY DEF Stray
<1> QED
  BY <1>3, <1>4

\* A token that is issued in vain.
LEMMA NewType ==
  ASSUME StoreInv, NEW c \in Call, pc[c] \in {"locked", "fallback"}, Issue(c)
  PROVE  New(c) \in Provider \X (1..MaxGen)
<1>1. op[c] \in Op
  BY DEF StoreInv, CallsInv, CallInv
<1>2. op[c].provider \in Provider
  BY <1>1 DEF Op
<1> QED
  BY <1>2, StoreAssumption DEF StoreInv, TypeOK, Issue, New

\* A failure uses up one of those that may happen.
LEMMA FaultType == ASSUME TypeOK, Fault PROVE faults' \in 0..MaxFaults
  BY StoreAssumption DEF TypeOK, Fault

\* What else a step does in which the calls of C fail.
Rest(C) ==
  /\ UNCHANGED <<blob, sealed>> /\ holders' \subseteq holders \ C
  /\ ensured' \in [Proc -> {"none", "running", "done"}]
  /\ cache' \in [Proc -> Blob \cup {None}]
  /\ issued' \in [Provider -> 1..MaxGen] /\ stale' \in SUBSET Provider
  /\ strayed' \in SUBSET (Provider \X (1..MaxGen)) /\ faults' \in 0..MaxFaults

\* Calls that fail keep their types.
LEMMA FailureType ==
  ASSUME TypeOK, NEW C, Settle(C) \/ \E p \in Proc : Unavailable(p, C), Rest(C)
  PROVE  TypeOK'
  BY SettleType DEF TypeOK, Rest

\* Every step keeps the types.
LEMMA TypeStep == StoreInv /\ [Next]_vars => TypeOK'
<1> SUFFICES ASSUME StoreInv, [Next]_vars PROVE TypeOK'
  OBVIOUS
<1> USE StoreAssumption
<1>0. TypeOK
  BY DEF StoreInv
<1>t. /\ ensured \in [Proc -> {"none", "running", "done"}]
      /\ cache \in [Proc -> Blob \cup {None}]
      /\ issued \in [Provider -> 1..MaxGen] /\ stale \in SUBSET Provider
      /\ strayed \in SUBSET (Provider \X (1..MaxGen)) /\ holders \subseteq Call
  BY <1>0 DEF TypeOK
<1>1. ASSUME NEW c \in Call, NEW o \in OpsOf[c], Begin(c, o) PROVE TypeOK'
  BY <1>0, <1>1 DEF Begin, TypeOK
<1>2. ASSUME NEW c \in Call, TakeLock(c) PROVE TypeOK'
  <2>1. CASE Settle({c}) /\ UNCHANGED holders
    BY <1>0, <1>2, <2>1, SettleType DEF TakeLock, TypeOK
  <2>2. CASE /\ holders' = {c} /\ pc' = [pc EXCEPT ![c] = "locked"]
             /\ seen' = [seen EXCEPT ![c] = blob] /\ UNCHANGED <<op, next>>
    BY <1>0, <1>2, <2>2 DEF TakeLock, TypeOK
  <2> QED
    BY <1>2, <2>1, <2>2 DEF TakeLock
<1>3. ASSUME NEW c \in Call, ConnectFails(c) PROVE TypeOK'
  <2>1. Settle({c}) \/ \E p \in Proc : Unavailable(p, {c})
    BY <1>3 DEF ConnectFails
  <2>2. faults' \in 0..MaxFaults /\ c \notin holders
    BY <1>0, <1>3, FaultType DEF ConnectFails, TypeOK
  <2>3. UNCHANGED <<ensured, cache, rowVars, providerVars>>
    BY <1>3 DEF ConnectFails
  <2>9. Rest({c})
    BY <1>t, <2>1, <2>2, <2>3 DEF Rest
  <2> QED
    BY <1>0, <2>1, <2>9, FailureType
<1>4. ASSUME NEW c \in Call, ConnectionLost(c) PROVE TypeOK'
  BY <1>0, <1>4 DEF ConnectionLost, Rollback, Fault, TypeOK
<1>5. ASSUME NEW c \in Call, FnReturns(c) PROVE TypeOK'
  BY <1>0, <1>5, ResultType DEF FnReturns, TypeOK
<1>6. ASSUME NEW c \in Call, FnRefused(c) PROVE TypeOK'
  BY <1>0, <1>6, SettleType DEF FnRefused, Rollback, TypeOK
<1>7. ASSUME NEW c \in Call, FnUnavailable(c) PROVE TypeOK'
  <2>1. /\ issued' \in [Provider -> 1..MaxGen] /\ stale' \in SUBSET Provider
        /\ strayed' \in SUBSET (Provider \X (1..MaxGen))
    <3>1. CASE UNCHANGED providerVars
      BY <1>0, <3>1 DEF TypeOK
    <3>2. CASE Issue(c) /\ strayed' = strayed \cup {New(c)}
      <4>1. FnEnds(c)
        BY <1>7, <3>2 DEF FnUnavailable, FnEnds
      <4> QED
        BY <1>0, <1>7, <3>2, <4>1, ResultType, NewType DEF FnUnavailable, TypeOK
    <3> QED
      BY <1>7, <3>1, <3>2 DEF FnUnavailable
  <2>2. Settle({c}) \/ \E p \in Proc : Unavailable(p, {c})
    BY <1>7 DEF FnUnavailable
  <2>3. faults' \in 0..MaxFaults
    BY <1>0, <1>7, FaultType DEF FnUnavailable
  <2>4. holders' = holders \ {c} /\ UNCHANGED <<ensured, cache, blob, sealed>>
    BY <1>7 DEF FnUnavailable, Rollback
  <2>9. Rest({c})
    BY <1>t, <2>1, <2>2, <2>3, <2>4 DEF Rest
  <2> QED
    BY <1>0, <2>2, <2>9, FailureType
<1>8. ASSUME NEW c \in Call, Commit(c) PROVE TypeOK'
  <2>1. blob' \in Blob /\ sealed' \in BOOLEAN
    <3>1. CASE next[c] = None
      BY <1>0, <1>8, <3>1 DEF Commit, TypeOK
    <3>2. CASE next[c] # None
      <4>1. blob' = next[c] /\ sealed' = (ProcOf[c] \in Keyed)
        BY <1>8, <3>2 DEF Commit
      <4>2. blob' \in Blob
        BY <1>0, <3>2, <4>1 DEF TypeOK
      <4>3. (ProcOf[c] \in Keyed) \in BOOLEAN
        OBVIOUS
      <4> QED
        BY <4>1, <4>2, <4>3
    <3> QED
      BY <3>1, <3>2
  <2>2. /\ holders' = holders \ {c} /\ pc' = [pc EXCEPT ![c] = "answer"]
        /\ UNCHANGED <<op, seen, next, ensured, cache, providerVars, faults>>
    BY <1>8 DEF Commit
  <2> QED
    BY <1>0, <2>1, <2>2 DEF TypeOK
<1>9. ASSUME NEW c \in Call, CommitFails(c) PROVE TypeOK'
  <2>1. \E p \in Proc : Unavailable(p, {c})
    BY <1>9 DEF CommitFails
  <2>2. strayed' \in SUBSET (Provider \X (1..MaxGen))
    BY <1>9, StrayType DEF CommitFails
  <2>3. faults' \in 0..MaxFaults
    <3>1. Fault \/ UNCHANGED faults
      BY <1>9 DEF CommitFails
    <3> QED
      BY <1>0, <3>1, FaultType DEF TypeOK
  <2>4. holders' = holders \ {c} /\ UNCHANGED <<ensured, cache, blob, sealed, issued, stale>>
    BY <1>9 DEF CommitFails, Rollback
  <2>9. Rest({c})
    BY <1>t, <2>1, <2>2, <2>3, <2>4 DEF Rest
  <2> QED
    BY <1>0, <2>1, <2>9, FailureType
<1>10. ASSUME NEW c \in Call, Answer(c) PROVE TypeOK'
  <2>1. (IF next[c] # None THEN next[c] ELSE seen[c]) \in Blob
    BY <1>0, <1>10 DEF Answer, StoreInv, CallsInv, CallInv, TypeOK
  <2>2. cache' \in [Proc -> Blob \cup {None}]
    BY <1>0, <1>10, <2>1 DEF Answer, TypeOK
  <2> QED
    BY <1>0, <1>10, <2>2, SettleType DEF Answer, TypeOK
<1>11. ASSUME NEW c \in Call, AnswerLost(c) PROVE TypeOK'
  <2>1. \E p \in Proc : Unavailable(p, {c})
    BY <1>11 DEF AnswerLost
  <2>2. faults' \in 0..MaxFaults /\ c \notin holders
    BY <1>0, <1>11, FaultType DEF AnswerLost, TypeOK
  <2>3. UNCHANGED <<ensured, cache, rowVars, providerVars>>
    BY <1>11 DEF AnswerLost
  <2>9. Rest({c})
    BY <1>t, <2>1, <2>2, <2>3 DEF Rest
  <2> QED
    BY <1>0, <2>1, <2>9, FailureType
<1>12. ASSUME NEW c \in Call, FallbackReturns(c) PROVE TypeOK'
  <2>1. strayed' \in SUBSET (Provider \X (1..MaxGen))
    <3>1. Issues(c) => Issue(c)
      BY <1>12 DEF FallbackReturns, FnEnds, Issues
    <3> QED
      BY <1>0, <1>12, <3>1, NewType DEF FallbackReturns, TypeOK
  <2>2. cache' \in [Proc -> Blob \cup {None}]
    BY <1>0, <1>12, ResultType DEF FallbackReturns, TypeOK
  <2> QED
    BY <1>0, <1>12, <2>1, <2>2, ResultType, SettleType DEF FallbackReturns, TypeOK
<1>13. ASSUME NEW p \in Proc, EnsureSucceeds(p) PROVE TypeOK'
  BY <1>0, <1>13 DEF EnsureSucceeds, Ensuring, TypeOK
<1>14. ASSUME NEW p \in Proc, EnsureFails(p) PROVE TypeOK'
  <2> DEFINE C == Ensuring(p)
  <2>1. \E q \in Proc : Unavailable(q, C)
    BY <1>14 DEF EnsureFails
  <2>2. faults' \in 0..MaxFaults /\ C \in SUBSET Call /\ C \cap holders = {}
    BY <1>0, <1>14, FaultType DEF EnsureFails, Ensuring, TypeOK
  <2>3. /\ UNCHANGED <<cache, rowVars, providerVars>>
        /\ ensured' \in [Proc -> {"none", "running", "done"}]
    BY <1>0, <1>14 DEF EnsureFails, TypeOK
  <2> HIDE DEF C
  <2>9. Rest(C)
    BY <1>t, <2>1, <2>2, <2>3 DEF Rest
  <2> QED
    BY <1>0, <2>1, <2>9, FailureType
<1>15. ASSUME NEW p \in Proc, Crash(p) PROVE TypeOK'
  <2> DEFINE C == {c \in Call : ProcOf[c] = p}
  <2>1. strayed' \in SUBSET (Provider \X (1..MaxGen))
    BY <1>15, StrayType DEF Crash
  <2>2. Settle(C) /\ holders' = holders \ C
    BY <1>15 DEF Crash
  <2>3. UNCHANGED <<blob, sealed, issued, stale, faults>>
        /\ ensured' = [ensured EXCEPT ![p] = "none"] /\ cache' = [cache EXCEPT ![p] = None]
    BY <1>15 DEF Crash
  <2> HIDE DEF C
  <2> QED
    BY <1>0, <2>1, <2>2, <2>3, SettleType DEF TypeOK
<1>16. ASSUME NEW p \in Provider, Expires(p) PROVE TypeOK'
  BY <1>0, <1>16 DEF Expires, TypeOK
<1>17. CASE UNCHANGED vars
  BY <1>0, <1>17 DEF vars, TypeOK
<1> QED
  BY <1>1, <1>2, <1>3, <1>4, <1>5, <1>6, <1>7, <1>8, <1>9, <1>10, <1>11, <1>12, <1>13, <1>14,
     <1>15, <1>16, <1>17 DEF Next

-----------------------------------------------------------------------------
(* Which calls leave in which step. *)

\* The calls in C settle, or go on with what their process has cached.
Left(C) ==
  /\ \A c \in Call \ C : /\ pc'[c] = pc[c] /\ op'[c] = op[c]
                         /\ seen'[c] = seen[c] /\ next'[c] = next[c]
  /\ \A c \in C :
       /\ pc'[c] \in {"idle", "fallback"} /\ next'[c] = None
       /\ pc'[c] # "idle" => op'[c] \in Op
       /\ IF pc'[c] = "fallback" THEN seen'[c] = cache[ProcOf[c]] /\ seen'[c] # None
          ELSE seen'[c] = None

\* ... when they succeed or fail.
LEMMA SettleEffect ==
  ASSUME StoreInv, NEW C \in SUBSET Call,
         \/ Settle(C)
         \/ \E p \in Proc : Unavailable(p, C)
              /\ \A c \in C : ProcOf[c] = p /\ pc[c] # "idle"
  PROVE  Left(C)
<1>1. CASE Settle(C)
  BY <1>1 DEF Settle, Left
<1>2. ASSUME NEW p \in Proc, Unavailable(p, C), ~Settle(C),
             \A c \in C : ProcOf[c] = p /\ pc[c] # "idle"
      PROVE  /\ \A c \in Call \ C : /\ pc'[c] = pc[c] /\ op'[c] = op[c]
                                    /\ seen'[c] = seen[c] /\ next'[c] = next[c]
             /\ \A c \in C :
                  /\ pc'[c] = "fallback" /\ next'[c] = None /\ op'[c] \in Op
                  /\ seen'[c] = cache[ProcOf[c]] /\ seen'[c] # None
  <2>1. \A c \in C : op[c] \in Op
    BY <1>2 DEF StoreInv, CallsInv, CallInv
  <2>2. /\ cache[p] # None
        /\ pc' = [c \in Call |-> IF c \in C THEN "fallback" ELSE pc[c]]
        /\ seen' = [c \in Call |-> IF c \in C THEN cache[p] ELSE seen[c]]
        /\ next' = [c \in Call |-> IF c \in C THEN None ELSE next[c]]
        /\ UNCHANGED op
    BY <1>2 DEF Unavailable
  <2> QED
    BY <1>2, <2>1, <2>2
<1> QED
  BY <1>1, <1>2 DEF Left

\* Nothing strays with calls that have not rotated anything.
LEMMA NoStray ==
  ASSUME NEW C, UNCHANGED strayed, \A c \in C : ~Rotated(c)
  PROVE  \A p \in Provider, g \in 0..MaxGen :
           <<p, g>> \in strayed' <=>
             \/ <<p, g>> \in strayed
             \/ \E c \in C : Rotated(c) /\ op[c].provider = p /\ next[c][p] = g
  OBVIOUS

\* The steps in which a call learns nothing.
LosesOne(c) ==
  \/ \E o \in OpsOf[c] : Begin(c, o)
  \/ (TakeLock(c) /\ holders' = holders)
  \/ ConnectFails(c) \/ FnRefused(c) \/ (FnUnavailable(c) /\ UNCHANGED providerVars)
  \/ CommitFails(c) \/ AnswerLost(c)

\* ... of one call,
LEMMA OneLeaves ==
  ASSUME StoreInv, NEW c \in Call, LosesOne(c)
  PROVE  Leaves({c})
<1> USE StoreAssumption
<1>0. TypeOK /\ CallInv(c) /\ (c \in holders => pc[c] \in {"locked", "write"})
  BY DEF StoreInv, CallsInv, TypeOK
<1>1. ASSUME NEW o \in OpsOf[c], Begin(c, o) PROVE Leaves({c})
  BY <1>0, <1>1 DEF Begin, Leaves, TypeOK, CallInv, Rotated
<1>2. ASSUME UNCHANGED <<blob, sealed, issued>>, holders' \subseteq holders \ {c},
             UNCHANGED cache, Settle({c}) \/ Unavailable(ProcOf[c], {c}), pc[c] # "idle",
             \/ UNCHANGED strayed /\ pc[c] # "write"
             \/ Stray({c})
      PROVE  Leaves({c})
  <2>1. ProcOf[c] \in Proc
    OBVIOUS
  <2>2. \A p \in Provider, g \in 0..MaxGen :
          <<p, g>> \in strayed' <=>
            \/ <<p, g>> \in strayed
            \/ \E d \in {c} : Rotated(d) /\ op[d].provider = p /\ next[d][p] = g
    <3>1. CASE UNCHANGED strayed /\ pc[c] # "write"
      BY <3>1 DEF Rotated
    <3>2. CASE Stray({c})
      <4>1. {c} \in SUBSET Call
        OBVIOUS
      <4> QED
        BY <3>2, <4>1, StrayType
    <3> QED
      BY <1>2, <3>1, <3>2
  <2>3. Left({c})
    <3>1. \/ Settle({c})
          \/ \E p \in Proc : Unavailable(p, {c})
               /\ \A d \in {c} : ProcOf[d] = p /\ pc[d] # "idle"
      BY <1>2, <2>1
    <3>2. {c} \in SUBSET Call
      OBVIOUS
    <3> QED
      BY <3>1, <3>2, SettleEffect
  <2> QED
    BY <1>2, <2>2, <2>3 DEF Leaves, Left
<1>3. CASE TakeLock(c) /\ holders' = holders
  BY <1>0, <1>2, <1>3 DEF TakeLock
<1>4. CASE ConnectFails(c)
  BY <1>0, <1>2, <1>4 DEF ConnectFails
<1>5. CASE FnRefused(c)
  BY <1>0, <1>2, <1>5 DEF FnRefused, Rollback
<1>6. CASE FnUnavailable(c) /\ UNCHANGED providerVars
  BY <1>0, <1>2, <1>6 DEF FnUnavailable, Rollback
<1>7. CASE CommitFails(c)
  BY <1>0, <1>2, <1>7 DEF CommitFails, Rollback
<1>8. CASE AnswerLost(c)
  BY <1>0, <1>2, <1>8 DEF AnswerLost
<1> QED
  BY <1>1, <1>3, <1>4, <1>5, <1>6, <1>7, <1>8 DEF LosesOne

\* ... of a process, or of none.
LEMMA SomeLeave ==
  ASSUME StoreInv,
         \/ \E p \in Proc : EnsureSucceeds(p) \/ EnsureFails(p) \/ Crash(p)
         \/ \E c \in Call : ConnectionLost(c)
         \/ \E p \in Provider : Expires(p)
         \/ UNCHANGED vars
  PROVE  \E C \in SUBSET Call : Leaves(C)
<1> USE StoreAssumption
<1>0. TypeOK
  BY DEF StoreInv
<1>1. ASSUME NEW p \in Proc, EnsureSucceeds(p) PROVE Leaves(Ensuring(p))
  <2>1. \A c \in Ensuring(p) : op[c] \in Op /\ seen[c] = None /\ next[c] = None
    BY DEF Ensuring, StoreInv, CallsInv, CallInv
  <2>2. Ensuring(p) \cap holders = {}
    BY <1>0 DEF Ensuring, TypeOK
  <2> QED
    BY <1>0, <1>1, <2>1, <2>2 DEF EnsureSucceeds, Leaves, Ensuring, Rotated, TypeOK
<1>2. ASSUME NEW p \in Proc, EnsureFails(p) PROVE Leaves(Ensuring(p))
  <2> DEFINE C == Ensuring(p)
  <2>1. C \in SUBSET Call /\ \A c \in C : ProcOf[c] = p /\ pc[c] = "ensure"
    BY DEF Ensuring
  <2>2. C \cap holders = {}
    BY <1>0, <2>1 DEF TypeOK
  <2>3. /\ UNCHANGED <<cache, rowVars, providerVars>> /\ Unavailable(p, C)
    BY <1>2 DEF EnsureFails
  <2>4. \A c \in C : ~Rotated(c)
    BY <2>1 DEF Rotated
  <2> HIDE DEF C
  <2>5. Left(C)
    <3>1. \E q \in Proc : Unavailable(q, C)
            /\ \A c \in C : ProcOf[c] = q /\ pc[c] # "idle"
      BY <2>1, <2>3
    <3> QED
      BY <2>1, <3>1, SettleEffect
  <2>6. Leaves(C)
    BY <2>2, <2>3, <2>4, <2>5 DEF Leaves, Left
  <2> QED
    BY <2>6 DEF C
<1>3. ASSUME NEW p \in Proc, Crash(p) PROVE \E C \in SUBSET Call : Leaves(C)
  <2> DEFINE C == {c \in Call : ProcOf[c] = p}
  <2>1. /\ UNCHANGED <<blob, sealed, issued>> /\ Settle(C) /\ Stray(C)
        /\ holders' = holders \ C /\ cache' = [cache EXCEPT ![p] = None]
    BY <1>3 DEF Crash
  <2>2. C \in SUBSET Call
    OBVIOUS
  <2> HIDE DEF C
  <2>3. Left(C)
    BY <2>1, <2>2, SettleEffect
  <2>4. \A p1 \in Provider, g \in 0..MaxGen :
          <<p1, g>> \in strayed' <=>
            \/ <<p1, g>> \in strayed
            \/ \E c \in C : Rotated(c) /\ op[c].provider = p1 /\ next[c][p1] = g
    BY <2>1, <2>2, StrayType
  <2>5. \A q \in Proc : cache'[q] \in {None, cache[q]}
    BY <1>0, <2>1 DEF TypeOK
  <2>6. Leaves(C)
    BY <2>1, <2>3, <2>4, <2>5 DEF Leaves, Left
  <2> QED
    BY <2>2, <2>6
<1>4. ASSUME UNCHANGED <<callVars, cache, blob, sealed, issued, strayed>>, holders' \subseteq holders
      PROVE  Leaves({})
  BY <1>4 DEF Leaves
<1>5. ASSUME NEW c \in Call, ConnectionLost(c) PROVE Leaves({})
  BY <1>4, <1>5 DEF ConnectionLost, Rollback
<1>6. ASSUME NEW p \in Provider, Expires(p) PROVE Leaves({})
  BY <1>4, <1>6 DEF Expires
<1>7. CASE UNCHANGED vars
  BY <1>4, <1>7 DEF vars
<1>8. \A p \in Proc : Ensuring(p) \in SUBSET Call
  BY DEF Ensuring
<1> QED
  BY <1>1, <1>2, <1>3, <1>5, <1>6, <1>7, <1>8
-----------------------------------------------------------------------------
(* The steps in which a call learns something, one after the other. *)

\* What is known of a call at work and of the tokens of its provider.
LEMMA AtWork ==
  ASSUME StoreInv, NEW c \in Call, pc[c] \in {"locked", "write", "answer", "fallback"}
  PROVE  /\ op[c] \in Op /\ op[c].provider \in Provider
         /\ seen[c] \in Blob /\ seen[c] # None
         /\ next[c] \in Blob \cup {None}
<1> USE StoreAssumption
<1>1. op[c] \in Op /\ seen[c] \in Blob
  BY DEF StoreInv, CallsInv, CallInv
<1>2. next[c] \in Blob \cup {None}
  BY DEF StoreInv, TypeOK
<1> QED
  BY <1>1, <1>2 DEF Op, Blob

\* A call that has rotated knows its provider.
LEMMA RotatedAt ==
  ASSUME StoreInv, NEW c \in Call, Rotated(c)
  PROVE  /\ op[c].provider \in Provider /\ pc[c] = "write" /\ next[c] # None
         /\ next[c][op[c].provider] = issued[op[c].provider]
         /\ blob[op[c].provider] \in {0, issued[op[c].provider] - 1}
         /\ <<op[c].provider, issued[op[c].provider]>> \notin strayed
         /\ <<op[c].provider, issued[op[c].provider] - 1>> \notin strayed
         /\ Private(c, op[c].provider)
<1>1. RotationInv(c)
  BY DEF StoreInv, TokensInv
<1>2. pc[c] = "write" /\ next[c] # None
  BY DEF Rotated
<1> QED
  BY <1>1, <1>2, AtWork DEF RotationInv

\* The lock is granted: the function sees the row.
LEMMA LockGranted ==
  ASSUME StoreInv, NEW c \in Call, TakeLock(c), ~(sealed /\ ProcOf[c] \notin Keyed)
  PROVE  CallsInv' /\ TokensInv'
<1> USE StoreAssumption
<1>0. TypeOK /\ CallsInv /\ TokensInv
  BY DEF StoreInv
<1>1. /\ pc[c] = "connect" /\ holders = {} /\ holders' = {c}
      /\ pc' = [pc EXCEPT ![c] = "locked"] /\ seen' = [seen EXCEPT ![c] = blob]
      /\ UNCHANGED <<op, next, cache, blob, sealed, issued, strayed>>
  BY DEF TakeLock
<1>2. pc'[c] = "locked" /\ seen'[c] = blob
  BY <1>0, <1>1 DEF TypeOK
<1>3. \A d \in Call \ {c} : pc'[d] = pc[d] /\ seen'[d] = seen[d]
  BY <1>0, <1>1 DEF TypeOK
<1>4. blob \in Blob /\ op[c] \in Op /\ next[c] = None
  BY <1>0, <1>1 DEF TypeOK, CallsInv, CallInv
<1>n. /\ \A p \in Provider : issued[p] \in 1..MaxGen /\ blob[p] \in 0..MaxGen
      /\ strayed \in SUBSET (Provider \X (1..MaxGen))
  BY <1>0 DEF TypeOK, Blob
<1>r. \A d \in Call : Rotated(d)' <=> Rotated(d)
  BY <1>1, <1>2, <1>3 DEF Rotated
<1>c. CallsInv'
  <2>1. CallInv(c)' /\ WriteInv(c)' /\ LockInv(c)'
    BY <1>1, <1>2, <1>4 DEF CallInv, WriteInv, LockInv
  <2>2. ASSUME NEW d \in Call \ {c} PROVE CallInv(d)' /\ WriteInv(d)' /\ LockInv(d)'
    BY <1>0, <1>1, <1>3 DEF CallsInv, CallInv, WriteInv, LockInv
  <2> QED
    BY <2>1, <2>2 DEF CallsInv
<1>5. ASSUME NEW p \in Provider PROVE BoundInv(p)'
  <2>1. BoundInv(p)
    BY <1>0 DEF TokensInv
  <2> QED
    BY <1>1, <1>2, <1>3, <2>1 DEF BoundInv
<1>6. ASSUME NEW p \in Provider PROVE NewestInv(p)'
  <2>1. NewestInv(p)
    BY <1>0 DEF TokensInv
  <2> QED
    BY <1>1, <1>r, <2>1 DEF NewestInv, IsNewest
<1>7. ASSUME NEW d \in Call PROVE RotationInv(d)'
  <2> SUFFICES ASSUME Rotated(d) PROVE RotationInv(d)'
    BY <1>r DEF RotationInv
  <2> DEFINE p == op[d].provider
  <2>1. /\ RotationInv(d) /\ Private(d, p) /\ p \in Provider /\ d # c
        /\ blob[p] \in {0, issued[p] - 1}
    BY <1>0, <1>1, RotatedAt DEF TokensInv
  <2>2. blob[p] < issued[p]
    BY <1>n, <2>1
  <2>3. Private(d, p)'
    BY <1>1, <1>2, <1>3, <2>1, <2>2 DEF Private
  <2> QED
    BY <1>1, <1>3, <2>1, <2>3 DEF RotationInv
<1>8. ASSUME NEW d \in Call PROVE LockedInv(d)'
  <2>1. CASE d # c
    BY <1>0, <1>1, <1>3, <2>1 DEF TokensInv, LockedInv
  <2>2. ASSUME NEW p \in Provider PROVE <<p, blob[p]>> \notin strayed
    <3>1. NewestInv(p)
      BY <1>0 DEF TokensInv
    <3>2. CASE blob[p] = 0
      BY <1>n, <3>2
    <3>3. CASE IsNewest(p, blob[p])
      BY <3>3 DEF IsNewest
    <3>4. ASSUME NEW e \in Call, Rotated(e), op[e].provider = p, blob[p] # 0
          PROVE  <<p, blob[p]>> \notin strayed
      BY <3>4, RotatedAt
    <3> QED
      BY <3>1, <3>2, <3>3, <3>4 DEF NewestInv
  <2> QED
    BY <1>1, <1>2, <2>1, <2>2 DEF LockedInv
<1> QED
  BY <1>c, <1>5, <1>6, <1>7, <1>8 DEF TokensInv

\* The function returns without a new token.
LEMMA ReturnsNone ==
  ASSUME StoreInv, NEW c \in Call, FnReturns(c), ~Issues(c)
  PROVE  CallsInv' /\ TokensInv'
<1> USE StoreAssumption
<1>0. TypeOK /\ CallsInv /\ TokensInv
  BY DEF StoreInv
<1>1. /\ pc[c] = "locked" /\ pc' = [pc EXCEPT ![c] = "write"]
      /\ next' = [next EXCEPT ![c] = Result(c)]
      /\ UNCHANGED <<op, seen, cache, blob, sealed, holders, issued, strayed>>
  BY DEF FnReturns, FnEnds, Issues, Issue
<1>a. /\ op[c] \in Op /\ op[c].provider \in Provider
      /\ seen[c] \in Blob /\ seen[c] # None
  BY <1>1, AtWork
<1>2. pc'[c] = "write" /\ next'[c] = Result(c)
  BY <1>0, <1>1 DEF TypeOK
<1>3. \A d \in Call \ {c} : pc'[d] = pc[d] /\ next'[d] = next[d]
  BY <1>0, <1>1 DEF TypeOK
<1>4. \/ Result(c) = None
      \/ /\ op[c].kind = "delete" /\ seen[c][op[c].provider] > 0
         /\ Result(c) = [seen[c] EXCEPT ![op[c].provider] = 0]
  BY DEF Result, Deleted
<1>5. Result(c) # None =>
        /\ op[c].kind = "delete" /\ seen[c][op[c].provider] > 0
        /\ Result(c)[op[c].provider] = 0
        /\ \A q \in Provider \ {op[c].provider} : Result(c)[q] = seen[c][q]
  BY <1>4, <1>a DEF Blob
<1>n. \A p \in Provider : issued[p] \in 1..MaxGen /\ blob[p] \in 0..MaxGen
  BY <1>0 DEF TypeOK, Blob
<1>r. \A d \in Call : Rotated(d)' <=> Rotated(d)
  BY <1>1, <1>2, <1>3, <1>5 DEF Rotated
<1>c. CallsInv'
  <2>1. CallInv(c)' /\ WriteInv(c)'
    BY <1>1, <1>2, <1>5, <1>a DEF CallInv, WriteInv
  <2>2. ASSUME NEW d \in Call \ {c} PROVE CallInv(d)' /\ WriteInv(d)'
    BY <1>0, <1>1, <1>3 DEF CallsInv, CallInv, WriteInv
  <2>3. ASSUME NEW d \in Call PROVE LockInv(d)'
    BY <1>0, <1>1 DEF CallsInv, LockInv
  <2> QED
    BY <2>1, <2>2, <2>3 DEF CallsInv
<1>6. ASSUME NEW p \in Provider PROVE BoundInv(p)'
  <2>1. BoundInv(p)
    BY <1>0 DEF TokensInv
  <2>2. next'[c] # None => next'[c][p] <= issued[p]
    BY <1>2, <1>5, <1>a, <1>n, <2>1 DEF BoundInv
  <2> QED
    BY <1>1, <1>3, <2>1, <2>2 DEF BoundInv
<1>7. ASSUME NEW p \in Provider PROVE NewestInv(p)'
  <2>1. NewestInv(p)
    BY <1>0 DEF TokensInv
  <2> QED
    BY <1>1, <1>r, <2>1 DEF NewestInv, IsNewest
<1>8. ASSUME NEW d \in Call PROVE RotationInv(d)'
  <2> SUFFICES ASSUME Rotated(d) PROVE RotationInv(d)'
    BY <1>r DEF RotationInv
  <2> DEFINE p == op[d].provider
  <2>1. RotationInv(d) /\ Private(d, p) /\ p \in Provider /\ d # c
    BY <1>0, <1>1, RotatedAt DEF TokensInv
  <2>2. next'[c] # None => next'[c][p] < issued[p]
    BY <1>2, <1>5, <1>a, <1>n, <2>1 DEF Private
  <2>3. Private(d, p)'
    BY <1>1, <1>3, <2>1, <2>2 DEF Private
  <2> QED
    BY <1>1, <1>3, <2>1, <2>3 DEF RotationInv
<1>9. ASSUME NEW d \in Call PROVE LockedInv(d)'
  BY <1>0, <1>1, <1>2, <1>3 DEF TokensInv, LockedInv
<1> QED
  BY <1>c, <1>6, <1>7, <1>8, <1>9 DEF TokensInv

\* A token is issued to a call only when nobody is about to write another one.
LEMMA IssuedTo ==
  ASSUME StoreInv, NEW c \in Call, pc[c] \in {"locked", "fallback"}, Issue(c)
  PROVE  /\ \A d \in Call : Rotated(d) => op[d].provider # op[c].provider
         /\ issued'[op[c].provider] = issued[op[c].provider] + 1
         /\ \A q \in Provider \ {op[c].provider} : issued'[q] = issued[q]
<1> USE StoreAssumption
<1>a. op[c].provider \in Provider /\ seen[c] # None
  BY AtWork
<1>0. issued \in [Provider -> 1..MaxGen]
  BY DEF StoreInv, TypeOK
<1>1. ASSUME NEW d \in Call, Rotated(d), op[d].provider = op[c].provider PROVE FALSE
  <2>1. d # c /\ Private(d, op[c].provider)
    BY <1>1, RotatedAt
  <2>2. seen[c][op[c].provider] < issued[op[c].provider]
    BY <1>a, <2>1 DEF Private
  <2> QED
    BY <1>0, <1>a, <2>2 DEF Issue
<1> QED
  BY <1>0, <1>1, <1>a DEF Issue

\* The function returns with a new token, obtained under the lock.
LEMMA ReturnsToken ==
  ASSUME StoreInv, NEW c \in Call, FnReturns(c), Issues(c)
  PROVE  CallsInv' /\ TokensInv'
<1> USE StoreAssumption
<1> DEFINE p == op[c].provider
<1>0. TypeOK /\ CallsInv /\ TokensInv
  BY DEF StoreInv
<1>1. /\ pc[c] = "locked" /\ pc' = [pc EXCEPT ![c] = "write"]
      /\ next' = [next EXCEPT ![c] = [seen[c] EXCEPT ![op[c].provider] = @ + 1]]
      /\ UNCHANGED <<op, seen, cache, blob, sealed, holders, strayed>>
      /\ Issue(c) /\ op[c].kind = "refresh"
  BY DEF FnReturns, FnEnds, Issues, Result, Refreshes
<1>a. p \in Provider /\ op[c] \in Op /\ seen[c] \in Blob /\ seen[c] # None
  BY <1>1, AtWork
<1>n. \A q \in Provider : issued[q] \in 1..MaxGen /\ blob[q] \in 0..MaxGen /\ seen[c][q] \in 0..MaxGen
  BY <1>0, <1>a DEF TypeOK, Blob
<1>i. /\ \A d \in Call : Rotated(d) => op[d].provider # p
      /\ issued'[p] = issued[p] + 1
      /\ \A q \in Provider \ {p} : issued'[q] = issued[q]
  BY <1>1, IssuedTo
<1>2. /\ pc'[c] = "write" /\ next'[c] # None
      /\ next'[c][p] = issued[p] + 1 /\ seen[c][p] = issued[p]
      /\ \A q \in Provider \ {p} : next'[c][q] = seen[c][q]
  <2>1. pc'[c] = "write" /\ next'[c] = [seen[c] EXCEPT ![p] = @ + 1]
    BY <1>0, <1>1 DEF TypeOK
  <2>2. seen[c][p] = issued[p] /\ issued[p] < MaxGen
    BY <1>1 DEF Issue
  <2>3. next'[c][p] = issued[p] + 1 /\ \A q \in Provider \ {p} : next'[c][q] = seen[c][q]
    BY <1>a, <2>1, <2>2 DEF Blob
  <2>4. [seen[c] EXCEPT ![p] = @ + 1] \in [Provider -> 0..MaxGen]
    BY <1>a, <1>n, <2>2 DEF Blob
  <2> QED
    BY <2>1, <2>2, <2>3, <2>4
<1> HIDE DEF p
<1>3. \A d \in Call \ {c} : pc'[d] = pc[d] /\ next'[d] = next[d]
  BY <1>0, <1>1 DEF TypeOK
<1>r. /\ \A d \in Call \ {c} : Rotated(d)' <=> Rotated(d)
      /\ Rotated(c)' /\ ~Rotated(c)
  <2>1. Rotated(c)' /\ ~Rotated(c)
    BY <1>1, <1>2, <1>a, <1>n DEF Rotated, p
  <2> QED
    BY <1>1, <1>3, <2>1 DEF Rotated
<1>4. <<p, issued[p]>> \notin strayed
  BY <1>0, <1>1, <1>2, <1>a DEF TokensInv, LockedInv
<1>5. blob[p] \in {0, issued[p]}
  <2>1. IsNewest(p, issued[p])
    BY <1>4, <1>a, <1>n DEF IsNewest
  <2>2. blob[p] = 0 \/ IsNewest(p, blob[p])
    BY <1>0, <1>a, <1>i DEF TokensInv, NewestInv
  <2> QED
    BY <1>0, <1>a, <2>1, <2>2, OneNewest
<1>c. CallsInv'
  <2>1. CallInv(c)' /\ WriteInv(c)'
    BY <1>1, <1>2, <1>a, <1>n DEF CallInv, WriteInv, p
  <2>2. ASSUME NEW d \in Call \ {c} PROVE CallInv(d)' /\ WriteInv(d)'
    BY <1>0, <1>1, <1>3 DEF CallsInv, CallInv, WriteInv
  <2>3. ASSUME NEW d \in Call PROVE LockInv(d)'
    BY <1>0, <1>1 DEF CallsInv, LockInv
  <2> QED
    BY <2>1, <2>2, <2>3 DEF CallsInv
<1>b. \A q \in Provider : BoundInv(q)
  BY <1>0 DEF TokensInv
<1>6. ASSUME NEW q \in Provider PROVE BoundInv(q)'
  <2>1. BoundInv(q) /\ issued[q] \in Nat /\ issued'[q] \in Nat /\ issued[q] <= issued'[q]
    BY <1>b, <1>i, <1>n
  <2>2. next'[c][q] <= issued'[q]
    BY <1>2, <1>a, <1>i, <1>n, <2>1 DEF BoundInv
  <2>3. blob'[q] <= issued'[q]
    BY <1>1, <1>n, <2>1 DEF BoundInv
  <2>4. ASSUME NEW d \in Call, seen'[d] # None PROVE seen'[d][q] <= issued'[q]
    <3>1. seen[d] # None /\ seen[d] \in Blob
      BY <1>0, <1>1, <2>4 DEF TypeOK
    <3> QED
      BY <1>1, <2>1, <3>1 DEF BoundInv, Blob
  <2>5. ASSUME NEW d \in Call \ {c}, next'[d] # None PROVE next'[d][q] <= issued'[q]
    <3>1. next[d] # None /\ next[d] \in Blob
      BY <1>0, <1>3, <2>5 DEF TypeOK
    <3> QED
      BY <1>3, <2>1, <3>1 DEF BoundInv, Blob
  <2>6. ASSUME NEW x \in Proc, cache'[x] # None PROVE cache'[x][q] <= issued'[q]
    <3>1. cache[x] # None /\ cache[x] \in Blob
      BY <1>0, <1>1, <2>6 DEF TypeOK
    <3> QED
      BY <1>1, <2>1, <3>1 DEF BoundInv, Blob
  <2>7. \A g \in 1..MaxGen : <<q, g>> \in strayed' => g # 1 /\ g <= issued'[q]
    BY <1>1, <2>1 DEF BoundInv
  <2> QED
    BY <2>2, <2>3, <2>4, <2>5, <2>6, <2>7 DEF BoundInv
<1>7. ASSUME NEW q \in Provider PROVE NewestInv(q)'
  <2>1. CASE q = p
    BY <1>1, <1>r, <2>1 DEF NewestInv, p
  <2>2. CASE q # p
    <3>1. NewestInv(q) /\ issued'[q] = issued[q]
      BY <1>0, <1>i, <2>2 DEF TokensInv
    <3> QED
      BY <1>1, <1>r, <3>1 DEF NewestInv, IsNewest
  <2> QED
    BY <2>1, <2>2
<1>8. ASSUME NEW d \in Call \ {c} PROVE RotationInv(d)'
  <2> SUFFICES ASSUME Rotated(d) PROVE RotationInv(d)'
    BY <1>r DEF RotationInv
  <2> DEFINE q == op[d].provider
  <2>1. RotationInv(d) /\ Private(d, q) /\ q \in Provider
    BY <1>0, RotatedAt DEF TokensInv
  <2>2. q # p /\ issued'[q] = issued[q]
    BY <1>i, <2>1
  <2>3. next'[c][q] < issued[q]
    BY <1>2, <1>a, <2>1, <2>2 DEF Private
  <2>4. Private(d, q)'
    BY <1>1, <1>3, <2>1, <2>2, <2>3 DEF Private
  <2> QED
    BY <1>1, <1>3, <2>1, <2>2, <2>4 DEF RotationInv
<1>9. RotationInv(c)'
  <2>1. /\ next'[c][p] = issued'[p] /\ seen[c][p] = issued'[p] - 1
        /\ blob[p] \in {0, issued'[p] - 1}
        /\ <<p, issued'[p] - 1>> \notin strayed
    BY <1>2, <1>4, <1>5, <1>a, <1>i, <1>n
  <2>2. <<p, issued'[p]>> \notin strayed
    <3>1. BoundInv(p) /\ issued'[p] \in 1..MaxGen
      BY <1>1, <1>a, <1>b, <1>i, <1>n DEF Issue, p
    <3> QED
      BY <1>a, <1>i, <1>n, <3>1 DEF BoundInv
  <2>3. Private(c, p)'
    <3>1. BoundInv(p) /\ issued[p] \in Nat /\ issued'[p] = issued[p] + 1
      BY <1>a, <1>b, <1>i, <1>n
    <3>2. ASSUME NEW d \in Call \ {c}, seen'[d] # None PROVE seen'[d][p] < issued'[p]
      <4>1. seen[d] # None /\ seen[d] \in Blob
        BY <1>0, <1>1, <3>2 DEF TypeOK
      <4> QED
        BY <1>1, <1>a, <3>1, <4>1 DEF BoundInv, Blob
    <3>3. ASSUME NEW d \in Call \ {c}, next'[d] # None PROVE next'[d][p] < issued'[p]
      <4>1. next[d] # None /\ next[d] \in Blob
        BY <1>0, <1>3, <3>3 DEF TypeOK
      <4> QED
        BY <1>3, <1>a, <3>1, <4>1 DEF BoundInv, Blob
    <3>4. ASSUME NEW x \in Proc, cache'[x] # None PROVE cache'[x][p] < issued'[p]
      <4>1. cache[x] # None /\ cache[x] \in Blob
        BY <1>0, <1>1, <3>4 DEF TypeOK
      <4> QED
        BY <1>1, <1>a, <3>1, <4>1 DEF BoundInv, Blob
    <3>5. p' = p
      BY <1>1 DEF p
    <3> QED
      BY <3>2, <3>3, <3>4, <3>5 DEF Private
  <2> QED
    BY <1>1, <2>1, <2>2, <2>3 DEF RotationInv, p
<1>10. ASSUME NEW d \in Call PROVE LockedInv(d)'
  BY <1>0, <1>1, <1>2, <1>3 DEF TokensInv, LockedInv
<1> QED
  BY <1>c, <1>6, <1>7, <1>8, <1>9, <1>10 DEF TokensInv

\* COMMIT.
LEMMA Commits ==
  ASSUME StoreInv, NEW c \in Call, Commit(c)
  PROVE  CallsInv' /\ TokensInv'
<1> USE StoreAssumption
<1> DEFINE p == op[c].provider
<1>0. TypeOK /\ CallsInv /\ TokensInv
  BY DEF StoreInv
<1>1. /\ pc[c] = "write" /\ c \in holders /\ holders' = holders \ {c}
      /\ pc' = [pc EXCEPT ![c] = "answer"]
      /\ UNCHANGED <<op, seen, next, cache, issued, strayed>>
      /\ blob' = IF next[c] = None THEN blob ELSE next[c]
  BY DEF Commit
<1>a. p \in Provider /\ op[c] \in Op /\ seen[c] \in Blob /\ seen[c] # None
  BY <1>1, AtWork
<1>n. \A q \in Provider : issued[q] \in 1..MaxGen /\ blob[q] \in 0..MaxGen
  BY <1>0 DEF TypeOK, Blob
<1>2. pc'[c] = "answer" /\ \A d \in Call \ {c} : pc'[d] = pc[d]
  BY <1>0, <1>1 DEF TypeOK
<1>3. holders = {c} /\ seen[c] = blob
  BY <1>0, <1>1 DEF CallsInv, LockInv
<1>4. next[c] # None =>
        /\ \A q \in Provider \ {p} : next[c][q] = blob[q]
        /\ blob[p] > 0
        /\ (Rotated(c) /\ next[c][p] = issued[p]) \/ next[c][p] = 0
  <2> SUFFICES ASSUME next[c] # None
               PROVE  /\ \A q \in Provider \ {p} : next[c][q] = blob[q]
                      /\ blob[p] > 0
                      /\ (Rotated(c) /\ next[c][p] = issued[p]) \/ next[c][p] = 0
    OBVIOUS
  <2>1. /\ \A q \in Provider \ {p} : next[c][q] = blob[q]
        /\ blob[p] > 0
        /\ (op[c].kind = "refresh" /\ next[c][p] # seen[c][p]) \/ next[c][p] = 0
    BY <1>0, <1>3 DEF CallsInv, WriteInv
  <2>2. CASE op[c].kind = "refresh" /\ next[c][p] # seen[c][p]
    <3>1. Rotated(c)
      BY <1>1, <2>2 DEF Rotated
    <3> QED
      BY <2>1, <3>1, RotatedAt
  <2> QED
    BY <2>1, <2>2
<1> HIDE DEF p
<1>r. ASSUME NEW d \in Call PROVE Rotated(d)' <=> Rotated(d) /\ d # c
  BY <1>1, <1>2 DEF Rotated
<1>c. CallsInv'
  BY <1>0, <1>1, <1>2, <1>3, <1>a DEF CallsInv, CallInv, WriteInv, LockInv
<1>5. ASSUME NEW q \in Provider PROVE BoundInv(q)'
  <2>1. BoundInv(q)
    BY <1>0 DEF TokensInv
  <2>2. blob'[q] <= issued[q]
    BY <1>1, <2>1 DEF BoundInv
  <2> QED
    BY <1>1, <2>1, <2>2 DEF BoundInv
<1>6. ASSUME NEW q \in Provider PROVE NewestInv(q)'
  <2>1. NewestInv(q)
    BY <1>0 DEF TokensInv
  <2>2. CASE \E d \in Call \ {c} : Rotated(d) /\ op[d].provider = q
    BY <1>1, <1>r, <2>2 DEF NewestInv
  <2>3. CASE ~(Rotated(c) /\ op[c].provider = q)
    <3>1. CASE blob'[q] = blob[q]
      BY <1>1, <1>r, <2>1, <2>2, <2>3, <3>1 DEF NewestInv, IsNewest
    <3>2. CASE blob'[q] # blob[q]
      BY <1>1, <1>4, <2>3, <3>2 DEF NewestInv, p
    <3> QED
      BY <3>1, <3>2
  <2>4. CASE Rotated(c) /\ op[c].provider = q
    <3>1. next[c][q] = issued[q] /\ next[c] # None /\ <<q, issued[q]>> \notin strayed
      BY <2>4, RotatedAt
    <3>2. IsNewest(q, blob[q])'
      BY <1>1, <1>n, <3>1 DEF IsNewest
    <3> QED
      BY <3>2 DEF NewestInv
  <2> QED
    BY <2>3, <2>4
<1>7. ASSUME NEW d \in Call PROVE RotationInv(d)'
  <2> SUFFICES ASSUME Rotated(d), d # c PROVE RotationInv(d)'
    BY <1>r DEF RotationInv
  <2> DEFINE q == op[d].provider
  <2>1. /\ RotationInv(d) /\ Private(d, q) /\ q \in Provider
        /\ blob[q] \in {0, issued[q] - 1}
    BY <1>0, RotatedAt DEF TokensInv
  <2>2. blob'[q] \in {0, issued[q] - 1}
    <3>1. CASE next[c] = None
      BY <1>1, <2>1, <3>1
    <3>2. CASE next[c] # None
      <4>1. next[c][q] < issued[q]
        BY <2>1, <3>2 DEF Private
      <4>2. next[c][q] # issued[q]
        BY <1>n, <2>1, <4>1
      <4> QED
        BY <1>1, <1>4, <2>1, <3>2, <4>2
    <3> QED
      BY <3>1, <3>2
  <2>3. Private(d, q)'
    BY <1>1, <2>1 DEF Private
  <2> QED
    BY <1>1, <2>1, <2>2, <2>3 DEF RotationInv
<1>8. ASSUME NEW d \in Call PROVE LockedInv(d)'
  BY <1>0, <1>1, <1>2 DEF TokensInv, LockedInv
<1> QED
  BY <1>c, <1>5, <1>6, <1>7, <1>8 DEF TokensInv

-----------------------------------------------------------------------------
(* The steps in which a call settles and leaves what it knows in the cache. *)

\* A call is over whose function issued nothing; the cache may have what it had.
Keeps(c) ==
  /\ Settle({c}) /\ ~Rotated(c) /\ c \notin holders
  /\ UNCHANGED <<blob, sealed, holders, issued, strayed>>
  /\ \A q \in Proc :
       \/ cache'[q] = cache[q]
       \/ \A p \in Provider : \/ cache'[q][p] = 0
                              \/ seen[c] # None /\ cache'[q][p] = seen[c][p]
                              \/ next[c] # None /\ cache'[q][p] = next[c][p]

\* ... which keeps the invariant.
LEMMA KeepsInv ==
  ASSUME StoreInv, NEW c \in Call, Keeps(c)
  PROVE  CallsInv' /\ TokensInv'
<1> USE StoreAssumption
<1>0. TypeOK /\ CallsInv /\ TokensInv
  BY DEF StoreInv
<1>1. /\ UNCHANGED <<blob, sealed, holders, issued, strayed>>
      /\ pc'[c] = "idle" /\ op'[c] = None /\ seen'[c] = None /\ next'[c] = None
      /\ \A d \in Call \ {c} : /\ pc'[d] = pc[d] /\ op'[d] = op[d]
                               /\ seen'[d] = seen[d] /\ next'[d] = next[d]
  BY DEF Keeps, Settle
<1>n. \A p \in Provider : issued[p] \in 1..MaxGen /\ blob[p] \in 0..MaxGen
  BY <1>0 DEF TypeOK, Blob
<1>2. ASSUME NEW q \in Proc, cache'[q] # None, cache'[q] # cache[q], NEW p \in Provider
      PROVE  \/ cache'[q][p] = 0
             \/ seen[c] # None /\ cache'[q][p] = seen[c][p]
             \/ next[c] # None /\ cache'[q][p] = next[c][p]
  BY <1>2 DEF Keeps
<1>r. ASSUME NEW d \in Call PROVE Rotated(d)' <=> Rotated(d) /\ d # c
  BY <1>1 DEF Rotated
<1>s. ~Rotated(c) /\ c \notin holders
  BY DEF Keeps
<1>c. CallsInv'
  <2>1. CallInv(c)' /\ WriteInv(c)' /\ LockInv(c)'
    BY <1>1, <1>s DEF CallInv, WriteInv, LockInv
  <2>2. ASSUME NEW d \in Call \ {c} PROVE CallInv(d)' /\ WriteInv(d)' /\ LockInv(d)'
    BY <1>0, <1>1 DEF CallsInv, CallInv, WriteInv, LockInv
  <2> QED
    BY <2>1, <2>2 DEF CallsInv
<1>3. ASSUME NEW p \in Provider PROVE BoundInv(p)'
  <2>1. BoundInv(p)
    BY <1>0 DEF TokensInv
  <2>2. ASSUME NEW q \in Proc, cache'[q] # None PROVE cache'[q][p] <= issued[p]
    <3>1. CASE cache'[q] = cache[q]
      BY <2>1, <2>2, <3>1 DEF BoundInv
    <3>2. CASE cache'[q] # cache[q]
      BY <1>2, <1>n, <2>1, <2>2, <3>2 DEF BoundInv
    <3> QED
      BY <3>1, <3>2
  <2> QED
    BY <1>1, <2>1, <2>2 DEF BoundInv
<1>4. ASSUME NEW p \in Provider PROVE NewestInv(p)'
  <2>1. NewestInv(p)
    BY <1>0 DEF TokensInv
  <2>2. CASE \E d \in Call : Rotated(d) /\ op[d].provider = p
    BY <1>1, <1>r, <1>s, <2>2 DEF NewestInv
  <2>3. CASE blob[p] = 0 \/ IsNewest(p, blob[p])
    BY <1>1, <2>3 DEF NewestInv, IsNewest
  <2> QED
    BY <2>1, <2>2, <2>3 DEF NewestInv
<1>5. ASSUME NEW d \in Call PROVE RotationInv(d)'
  <2> SUFFICES ASSUME Rotated(d), d # c PROVE RotationInv(d)'
    BY <1>r DEF RotationInv
  <2> DEFINE p == op[d].provider
  <2>1. RotationInv(d) /\ Private(d, p) /\ p \in Provider /\ p' = p
    BY <1>0, <1>1, RotatedAt DEF TokensInv
  <2>2. ASSUME NEW q \in Proc, cache'[q] # None PROVE cache'[q][p] < issued[p]
    <3>1. CASE cache'[q] = cache[q]
      BY <2>1, <2>2, <3>1 DEF Private
    <3>2. CASE cache'[q] # cache[q]
      BY <1>2, <1>n, <2>1, <2>2, <3>2 DEF Private
    <3> QED
      BY <3>1, <3>2
  <2>3. Private(d, p)'
    BY <1>1, <2>1, <2>2 DEF Private
  <2> QED
    BY <1>1, <2>1, <2>3 DEF RotationInv
<1>6. ASSUME NEW d \in Call PROVE LockedInv(d)'
  BY <1>0, <1>1 DEF TokensInv, LockedInv
<1> QED
  BY <1>c, <1>3, <1>4, <1>5, <1>6 DEF TokensInv

\* Such are the answer to COMMIT,
LEMMA AnswerKeeps == ASSUME StoreInv, NEW c \in Call, Answer(c) PROVE Keeps(c)
<1> USE StoreAssumption
<1>0. TypeOK /\ pc[c] = "answer"
  BY DEF StoreInv, Answer
<1>1. ~Rotated(c) /\ c \notin holders /\ seen[c] # None
  BY <1>0, AtWork DEF Rotated, TypeOK
<1>2. ASSUME NEW q \in Proc
      PROVE  \/ cache'[q] = cache[q]
             \/ \A p \in Provider : \/ cache'[q][p] = 0
                                    \/ seen[c] # None /\ cache'[q][p] = seen[c][p]
                                    \/ next[c] # None /\ cache'[q][p] = next[c][p]
  <2>1. \/ cache'[q] = cache[q]
        \/ cache'[q] = IF next[c] # None THEN next[c] ELSE seen[c]
    BY <1>0 DEF Answer, TypeOK
  <2> QED
    BY <1>1, <2>1
<1> QED
  BY <1>1, <1>2 DEF Answer, Keeps

\* ... and the end of a function in the fallback that has issued nothing.
LEMMA FallbackKeeps ==
  ASSUME StoreInv, NEW c \in Call, FallbackReturns(c), ~Issues(c)
  PROVE  Keeps(c)
<1> USE StoreAssumption
<1>0. TypeOK /\ pc[c] = "fallback"
  BY DEF StoreInv, FallbackReturns
<1>1. ~Rotated(c) /\ c \notin holders /\ seen[c] # None /\ seen[c] \in Blob /\ op[c].provider \in Provider
  BY <1>0, AtWork DEF Rotated, TypeOK
<1>2. Result(c) # None => Result(c) = [seen[c] EXCEPT ![op[c].provider] = 0]
  BY DEF Result, Deleted
<1>3. ASSUME NEW q \in Proc
      PROVE  \/ cache'[q] = cache[q]
             \/ \A p \in Provider : \/ cache'[q][p] = 0
                                    \/ seen[c] # None /\ cache'[q][p] = seen[c][p]
                                    \/ next[c] # None /\ cache'[q][p] = next[c][p]
  <2>1. cache'[q] = cache[q] \/ (Result(c) # None /\ cache'[q] = Result(c))
    <3>1. cache' = IF Result(c) = None THEN cache ELSE [cache EXCEPT ![ProcOf[c]] = Result(c)]
      BY DEF FallbackReturns
    <3>2. cache \in [Proc -> Blob \cup {None}]
      BY <1>0 DEF TypeOK
    <3> QED
      BY <3>1, <3>2
  <2> QED
    BY <1>1, <1>2, <2>1 DEF Blob
<1>4. UNCHANGED <<issued, strayed>>
  BY DEF FallbackReturns, FnEnds, Issues, Issue
<1> QED
  BY <1>1, <1>3, <1>4 DEF FallbackReturns, Keeps

-----------------------------------------------------------------------------
(* The steps in which a token is issued in vain. *)

InVain(c) ==
  /\ Issue(c) /\ strayed' = strayed \cup {New(c)} /\ Left({c})
  /\ UNCHANGED <<blob, sealed>> /\ holders' \subseteq holders \ {c}
  /\ \A q \in Proc :
       \/ cache'[q] = cache[q]
       \/ /\ cache'[q][op[c].provider] <= issued'[op[c].provider]
          /\ \A p \in Provider \ {op[c].provider} : cache'[q][p] = seen[c][p]

\* Such a step keeps the invariant.
LEMMA InVainInv ==
  ASSUME StoreInv, TypeOK', NEW c \in Call, pc[c] \in {"locked", "fallback"}, InVain(c)
  PROVE  CallsInv' /\ TokensInv'
<1> USE StoreAssumption
<1> DEFINE p == op[c].provider
<1>0. TypeOK /\ CallsInv /\ TokensInv
  BY DEF StoreInv
<1>a. p \in Provider /\ seen[c] \in Blob /\ seen[c] # None
  BY AtWork
<1>n. /\ \A q \in Provider : issued[q] \in 1..MaxGen /\ blob[q] \in 0..MaxGen
      /\ \A x \in Proc : cache[x] \in Blob \cup {None}
      /\ \A d \in Call : next[d] \in Blob \cup {None} /\ seen[d] \in Blob \cup {None}
  BY <1>0 DEF TypeOK, Blob
<1>i. /\ \A d \in Call : Rotated(d) => op[d].provider # p
      /\ issued'[p] = issued[p] + 1
      /\ \A q \in Provider \ {p} : issued'[q] = issued[q]
  BY IssuedTo DEF InVain
<1>1. /\ UNCHANGED <<blob, sealed>> /\ holders' \subseteq holders \ {c}
      /\ strayed' = strayed \cup {<<p, issued[p] + 1>>}
      /\ \A d \in Call \ {c} : /\ pc'[d] = pc[d] /\ op'[d] = op[d]
                               /\ seen'[d] = seen[d] /\ next'[d] = next[d]
      /\ pc'[c] \in {"idle", "fallback"} /\ next'[c] = None
      /\ pc'[c] # "idle" => op'[c] \in Op
      /\ IF pc'[c] = "fallback" THEN seen'[c] = cache[ProcOf[c]] /\ seen'[c] # None
         ELSE seen'[c] = None
  BY DEF InVain, Left, New
<1>2. ASSUME NEW x \in Proc
      PROVE  \/ cache'[x] = cache[x]
             \/ /\ cache'[x][p] <= issued'[p]
                /\ \A q \in Provider \ {p} : cache'[x][q] = seen[c][q]
  BY DEF InVain
<1> HIDE DEF p
<1>r. ASSUME NEW d \in Call PROVE (Rotated(d)' <=> Rotated(d)) /\ (Rotated(d) => d # c)
  BY <1>1 DEF Rotated
<1>c. CallsInv'
  <2>1. CallInv(c)' /\ WriteInv(c)' /\ LockInv(c)'
    <3>1. cache[ProcOf[c]] \in Blob \cup {None}
      BY <1>n
    <3> QED
      BY <1>1, <3>1 DEF CallInv, WriteInv, LockInv
  <2>2. ASSUME NEW d \in Call \ {c} PROVE CallInv(d)' /\ WriteInv(d)' /\ LockInv(d)'
    BY <1>0, <1>1 DEF CallsInv, CallInv, WriteInv, LockInv
  <2> QED
    BY <2>1, <2>2 DEF CallsInv
<1>3. ASSUME NEW q \in Provider PROVE BoundInv(q)'
  <2>1. BoundInv(q) /\ issued[q] \in Nat /\ issued'[q] \in Nat /\ issued[q] <= issued'[q]
    BY <1>0, <1>i, <1>n DEF TokensInv
  <2>2. blob'[q] <= issued'[q]
    BY <1>1, <1>n, <2>1 DEF BoundInv
  <2>3. ASSUME NEW d \in Call, seen'[d] # None PROVE seen'[d][q] <= issued'[q]
    <3>1. \/ seen[d] # None /\ seen'[d] = seen[d]
          \/ cache[ProcOf[d]] # None /\ seen'[d] = cache[ProcOf[d]]
      BY <1>1, <2>3
    <3>2. seen'[d][q] <= issued[q]
      BY <2>1, <3>1 DEF BoundInv
    <3>3. seen'[d] \in Blob
      BY <1>n, <3>1
    <3> QED
      BY <2>1, <3>2, <3>3 DEF Blob
  <2>4. ASSUME NEW d \in Call, next'[d] # None PROVE next'[d][q] <= issued'[q]
    <3>1. next[d] # None /\ next'[d] = next[d] /\ next[d] \in Blob
      BY <1>1, <1>n, <2>4
    <3> QED
      BY <2>1, <3>1 DEF BoundInv, Blob
  <2>5. ASSUME NEW x \in Proc, cache'[x] # None PROVE cache'[x][q] <= issued'[q]
    <3>1. CASE cache'[x] = cache[x]
      BY <1>n, <2>1, <2>5, <3>1 DEF BoundInv, Blob
    <3>2. CASE cache'[x] # cache[x] /\ q = p
      BY <1>2, <3>2
    <3>3. CASE cache'[x] # cache[x] /\ q # p
      BY <1>2, <1>a, <1>i, <2>1, <3>3 DEF BoundInv
    <3> QED
      BY <3>1, <3>2, <3>3
  <2>6. ASSUME NEW g \in 1..MaxGen, <<q, g>> \in strayed' PROVE g # 1 /\ g <= issued'[q]
    <3>1. CASE <<q, g>> \in strayed
      BY <2>1, <3>1 DEF BoundInv
    <3>2. CASE q = p /\ g = issued[p] + 1
      BY <1>i, <1>n, <2>1, <3>2
    <3> QED
      BY <1>1, <2>6, <3>1, <3>2
  <2> QED
    BY <2>2, <2>3, <2>4, <2>5, <2>6 DEF BoundInv
<1>4. ASSUME NEW q \in Provider PROVE NewestInv(q)'
  <2>1. NewestInv(q)
    BY <1>0 DEF TokensInv
  <2>2. CASE q # p
    <3>1. \A g : <<q, g>> \in strayed' <=> <<q, g>> \in strayed
      BY <1>1, <2>2
    <3>2. IsNewest(q, blob[q])' <=> IsNewest(q, blob[q])
      BY <1>1, <1>i, <2>2, <3>1 DEF IsNewest
    <3> QED
      BY <1>1, <1>r, <2>1, <3>2 DEF NewestInv
  <2>3. CASE q = p
    <3>1. blob[p] = 0 \/ IsNewest(p, blob[p])
      BY <1>i, <2>1, <2>3 DEF NewestInv
    <3>2. ASSUME IsNewest(q, blob[q]) PROVE IsNewest(q, blob[q])'
      BY <1>1, <1>i, <1>n, <2>3, <3>2 DEF IsNewest
    <3> QED
      BY <1>1, <2>3, <3>1, <3>2 DEF NewestInv
  <2> QED
    BY <2>2, <2>3
<1>5. ASSUME NEW d \in Call PROVE RotationInv(d)'
  <2> SUFFICES ASSUME Rotated(d), d # c PROVE RotationInv(d)'
    BY <1>r DEF RotationInv
  <2> DEFINE q == op[d].provider
  <2>1. RotationInv(d) /\ Private(d, q) /\ q \in Provider /\ q' = q
    BY <1>0, <1>1, RotatedAt DEF TokensInv
  <2>2. q # p /\ issued'[q] = issued[q]
    BY <1>i, <2>1
  <2> HIDE DEF q
  <2>3. \A g : <<q, g>> \in strayed' <=> <<q, g>> \in strayed
    BY <1>1, <2>2
  <2>4. ASSUME NEW x \in Proc, cache'[x] # None PROVE cache'[x][q] < issued[q]
    <3>1. CASE cache'[x] = cache[x]
      BY <2>1, <2>4, <3>1 DEF Private
    <3>2. CASE cache'[x] # cache[x]
      <4>1. cache'[x][q] = seen[c][q]
        BY <1>2, <2>1, <2>2, <3>2
      <4> QED
        BY <1>a, <2>1, <4>1 DEF Private
    <3> QED
      BY <3>1, <3>2
  <2>5. ASSUME NEW e \in Call \ {d}, seen'[e] # None PROVE seen'[e][q] < issued[q]
    <3>1. \/ seen[e] # None /\ seen'[e] = seen[e]
          \/ cache[ProcOf[e]] # None /\ seen'[e] = cache[ProcOf[e]]
      BY <1>1, <2>5
    <3> QED
      BY <2>1, <3>1 DEF Private
  <2>6. ASSUME NEW e \in Call \ {d}, next'[e] # None PROVE next'[e][q] < issued[q]
    BY <1>1, <2>1, <2>6 DEF Private
  <2>7. Private(d, q)'
    BY <2>1, <2>2, <2>4, <2>5, <2>6 DEF Private
  <2> QED
    BY <1>1, <2>1, <2>2, <2>3, <2>7 DEF RotationInv, q
<1>6. ASSUME NEW d \in Call PROVE LockedInv(d)'
  <2> SUFFICES ASSUME pc'[d] = "locked", NEW q \in Provider PROVE <<q, seen'[d][q]>> \notin strayed'
    BY DEF LockedInv
  <2>1. d # c /\ pc[d] = "locked" /\ seen'[d] = seen[d]
    BY <1>1
  <2>2. <<q, seen[d][q]>> \notin strayed /\ seen[d] # None
    BY <1>0, <2>1, AtWork DEF TokensInv, LockedInv
  <2>3. seen[d][p] <= issued[p]
    BY <1>0, <1>a, <2>2 DEF TokensInv, BoundInv
  <2>4. seen[d][p] # issued[p] + 1
    BY <1>a, <1>n, <2>3
  <2> QED
    BY <1>1, <2>1, <2>2, <2>4
<1> QED
  BY <1>c, <1>3, <1>4, <1>5, <1>6 DEF TokensInv

\* Such are a function that fails after its token was issued,
LEMMA UnavailableInVain ==
  ASSUME StoreInv, NEW c \in Call, FnUnavailable(c), ~UNCHANGED providerVars
  PROVE  InVain(c)
<1> USE StoreAssumption
<1>1. /\ pc[c] \in {"locked", "fallback"}
      /\ Issue(c) /\ strayed' = strayed \cup {New(c)}
      /\ holders' = holders \ {c} /\ UNCHANGED <<cache, blob, sealed>>
      /\ Settle({c}) \/ Unavailable(ProcOf[c], {c})
  BY DEF FnUnavailable, Rollback
<1>2. Left({c})
  <2>1. \/ Settle({c})
        \/ \E p \in Proc : Unavailable(p, {c})
             /\ \A d \in {c} : ProcOf[d] = p /\ pc[d] # "idle"
    BY <1>1
  <2>2. {c} \in SUBSET Call
    OBVIOUS
  <2> QED
    BY <2>1, <2>2, SettleEffect
<1> QED
  BY <1>1, <1>2 DEF InVain

\* ... and one that ends well in the fallback.
LEMMA FallbackInVain ==
  ASSUME StoreInv, NEW c \in Call, FallbackReturns(c), Issues(c)
  PROVE  InVain(c)
<1> USE StoreAssumption
<1> DEFINE p == op[c].provider
<1>0. /\ TypeOK /\ pc[c] = "fallback" /\ c \notin holders
      /\ Issue(c) /\ strayed' = strayed \cup {New(c)} /\ Settle({c})
      /\ UNCHANGED <<blob, sealed, holders>>
      /\ cache' = IF Result(c) = None THEN cache ELSE [cache EXCEPT ![ProcOf[c]] = Result(c)]
      /\ Result(c) = [seen[c] EXCEPT ![p] = @ + 1]
  BY DEF StoreInv, TypeOK, FallbackReturns, FnEnds, Issues, Result
<1>1. Left({c})
  <2>1. {c} \in SUBSET Call
    OBVIOUS
  <2> QED
    BY <1>0, <2>1, SettleEffect
<1>2. p \in Provider /\ seen[c] \in Blob
  BY <1>0, AtWork
<1>3. /\ Result(c)[p] = seen[c][p] + 1
      /\ \A q \in Provider \ {p} : Result(c)[q] = seen[c][q]
  BY <1>0, <1>2 DEF Blob
<1>4. issued'[p] = seen[c][p] + 1 /\ seen[c][p] \in Nat
  <2>1. issued'[p] = issued[p] + 1
    BY <1>0, IssuedTo
  <2>2. seen[c][p] = issued[p]
    BY <1>0 DEF Issue
  <2> QED
    BY <1>2, <2>1, <2>2 DEF Blob
<1>5. ASSUME NEW q \in Proc
      PROVE  \/ cache'[q] = cache[q]
             \/ /\ cache'[q][p] <= issued'[p]
                /\ \A r \in Provider \ {p} : cache'[q][r] = seen[c][r]
  <2>1. cache \in [Proc -> Blob \cup {None}]
    BY <1>0 DEF TypeOK
  <2>2. cache'[q] = cache[q] \/ cache'[q] = Result(c)
    BY <1>0, <2>1
  <2> QED
    BY <1>3, <1>4, <2>2
<1> QED
  BY <1>0, <1>1, <1>5 DEF InVain

-----------------------------------------------------------------------------
(* The theorems. *)

\* Every step keeps the invariant.
LEMMA StoreStep == StoreInv /\ [Next]_vars => StoreInv'
<1> SUFFICES ASSUME StoreInv, [Next]_vars PROVE CallsInv' /\ TokensInv'
  BY TypeStep DEF StoreInv
<1> USE TypeStep
<1>1. ASSUME NEW C \in SUBSET Call, Leaves(C) PROVE CallsInv' /\ TokensInv'
  BY <1>1, LeavesCalls, LeavesTokens
<1>2. ASSUME NEW c \in Call, LosesOne(c) PROVE CallsInv' /\ TokensInv'
  <2>1. {c} \in SUBSET Call
    OBVIOUS
  <2> QED
    BY <1>1, <1>2, <2>1, OneLeaves
<1>3. ASSUME NEW c \in Call, NEW o \in OpsOf[c], Begin(c, o) PROVE CallsInv' /\ TokensInv'
  BY <1>2, <1>3 DEF LosesOne
<1>4. ASSUME NEW c \in Call, TakeLock(c) PROVE CallsInv' /\ TokensInv'
  <2>1. CASE sealed /\ ProcOf[c] \notin Keyed
    <3>1. holders' = holders
      BY <1>4, <2>1 DEF TakeLock
    <3> QED
      BY <1>2, <1>4, <3>1 DEF LosesOne
  <2> QED
    BY <1>4, <2>1, LockGranted
<1>5. ASSUME NEW c \in Call, ConnectFails(c) \/ FnRefused(c) \/ CommitFails(c) \/ AnswerLost(c)
      PROVE  CallsInv' /\ TokensInv'
  BY <1>2, <1>5 DEF LosesOne
<1>6. ASSUME NEW c \in Call, FnReturns(c) PROVE CallsInv' /\ TokensInv'
  BY <1>6, ReturnsNone, ReturnsToken
<1>7. ASSUME NEW c \in Call, FnUnavailable(c) PROVE CallsInv' /\ TokensInv'
  <2>1. CASE UNCHANGED providerVars
    BY <1>2, <1>7, <2>1 DEF LosesOne
  <2>2. CASE ~UNCHANGED providerVars
    <3>1. pc[c] \in {"locked", "fallback"}
      BY <1>7 DEF FnUnavailable
    <3> QED
      BY <1>7, <2>2, <3>1, UnavailableInVain, InVainInv
  <2> QED
    BY <2>1, <2>2
<1>8. ASSUME NEW c \in Call, Commit(c) PROVE CallsInv' /\ TokensInv'
  BY <1>8, Commits
<1>9. ASSUME NEW c \in Call, Answer(c) PROVE CallsInv' /\ TokensInv'
  BY <1>9, AnswerKeeps, KeepsInv
<1>10. ASSUME NEW c \in Call, FallbackReturns(c) PROVE CallsInv' /\ TokensInv'
  <2>1. pc[c] \in {"locked", "fallback"}
    BY <1>10 DEF FallbackReturns
  <2> QED
    BY <1>10, <2>1, FallbackKeeps, KeepsInv, FallbackInVain, InVainInv
<1>11. ASSUME \/ \E p \in Proc : EnsureSucceeds(p) \/ EnsureFails(p) \/ Crash(p)
              \/ \E c \in Call : ConnectionLost(c)
              \/ \E p \in Provider : Expires(p)
              \/ UNCHANGED vars
       PROVE  CallsInv' /\ TokensInv'
  BY <1>1, <1>11, SomeLeave
<1> QED
  BY <1>3, <1>4, <1>5, <1>6, <1>7, <1>8, <1>9, <1>10, <1>11 DEF Next

\* The invariant holds of every reachable state.
THEOREM StoreInvariant == Spec => []StoreInv
<1>1. Init => StoreInv
  <2> SUFFICES ASSUME Init PROVE StoreInv
    OBVIOUS
  <2> USE StoreAssumption
  <2>1. TypeOK
    <3>1. MaxGen \in Nat \ {0} /\ MaxFaults \in Nat
      OBVIOUS
    <3>2. blob \in Blob /\ issued \in [Provider -> 1..MaxGen]
      BY <3>1 DEF Init, Blob
    <3>3. faults \in 0..MaxFaults
      BY <3>1 DEF Init
    <3> QED
      BY <3>2, <3>3 DEF Init, TypeOK
  <2>2. CallsInv
    BY DEF Init, CallsInv, CallInv, WriteInv, LockInv
  <2>3. ASSUME NEW p \in Provider PROVE BoundInv(p) /\ NewestInv(p)
    BY DEF Init, BoundInv, NewestInv, IsNewest
  <2>4. ASSUME NEW c \in Call PROVE RotationInv(c) /\ LockedInv(c)
    BY DEF Init, RotationInv, LockedInv, Rotated
  <2> QED
    BY <2>1, <2>2, <2>3, <2>4 DEF StoreInv, TokensInv
<1> QED
  BY <1>1, StoreStep, PTL DEF Spec

\* withLock keeps its types, and the row lock is held only by a call whose
\* function runs or has just returned.
THEOREM StoreTypeCorrect == Spec => []TypeOK
<1>1. StoreInv => TypeOK
  BY DEF StoreInv
<1> QED
  BY <1>1, StoreInvariant, PTL

\* A refresh in one deployment never clobbers a rotation that another has
\* committed, and nothing that a function obtained without the lock, or whose
\* write failed, is ever persisted: however many deployments, providers,
\* rotations, crashes and broken connections there are.
THEOREM RotationsAreKept == Spec => []RotationKept
<1>1. StoreInv => RotationKept
  <2> SUFFICES ASSUME StoreInv, NEW p \in Provider,
                      ~\E c \in Call : Rotated(c) /\ op[c].provider = p
               PROVE  blob[p] \in {0, Newest(p)}
    BY DEF RotationKept
  <2>1. TypeOK /\ (blob[p] = 0 \/ IsNewest(p, blob[p]))
    BY DEF StoreInv, TokensInv, NewestInv
  <2> QED
    BY <2>1, NewestIs
<1> QED
  BY <1>1, StoreInvariant, PTL

\* A step that changes an entry is the COMMIT of a call for that provider; a
\* deleted entry stays deleted and a sealed row sealed.
THEOREM WritesAreOwn == Spec => WritesOnlyItsOwn
<1> DEFINE OwnWrite ==
      /\ \A p \in Provider :
           blob'[p] # blob[p] =>
             /\ blob[p] # 0
             /\ \E c \in Call : pc[c] = "write" /\ pc'[c] = "answer" /\ op[c].provider = p
      /\ sealed => sealed'
<1>1. StoreInv /\ [Next]_vars => OwnWrite
  <2> SUFFICES ASSUME StoreInv, [Next]_vars PROVE OwnWrite
    OBVIOUS
  <2>1. CASE UNCHANGED <<blob, sealed>>
    BY <2>1
  <2>2. ASSUME NEW c \in Call, Commit(c) PROVE OwnWrite
    <3>1. /\ pc[c] = "write" /\ c \in holders /\ pc' = [pc EXCEPT ![c] = "answer"]
          /\ \/ UNCHANGED <<blob, sealed>>
             \/ next[c] # None /\ blob' = next[c] /\ sealed' = (ProcOf[c] \in Keyed)
      BY <2>2 DEF Commit
    <3>2. pc'[c] = "answer"
      BY <3>1 DEF StoreInv, TypeOK
    <3>3. seen[c] = blob /\ (sealed => ProcOf[c] \in Keyed)
      BY <3>1 DEF StoreInv, CallsInv, LockInv
    <3>4. next[c] # None =>
            /\ \A q \in Provider \ {op[c].provider} : next[c][q] = blob[q]
            /\ blob[op[c].provider] > 0
      BY <3>3 DEF StoreInv, CallsInv, WriteInv
    <3>5. CASE UNCHANGED <<blob, sealed>>
      BY <3>5
    <3>6. CASE next[c] # None /\ blob' = next[c] /\ sealed' = (ProcOf[c] \in Keyed)
      <4>1. \A p \in Provider : blob'[p] # blob[p] => p = op[c].provider /\ blob[p] # 0
        BY <3>4, <3>6
      <4>2. sealed => sealed'
        BY <3>3, <3>6
      <4> QED
        BY <3>1, <3>2, <4>1, <4>2
    <3> QED
      BY <3>1, <3>5, <3>6
  <2>3. UNCHANGED <<blob, sealed>> \/ \E c \in Call : Commit(c)
    BY DEF Next, vars, Begin, TakeLock, ConnectFails, ConnectionLost, FnReturns, FnRefused,
           FnUnavailable, CommitFails, Answer, AnswerLost, FallbackReturns, EnsureSucceeds,
           EnsureFails, Crash, Expires
  <2> QED
    BY <2>1, <2>2, <2>3
<1> QED
  BY <1>1, StoreInvariant, PTL DEF Spec, WritesOnlyItsOwn

=============================================================================
