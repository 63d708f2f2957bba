--------------------------- MODULE RunConcurrency ---------------------------
(***************************************************************************)
(* The slot lifecycle of one run: createRunConcurrency (packages/agent/src/ *)
(* concurrency-controller.ts) and the request gate that consults it before *)
(* every provider request (gatedRequest, packages/harness-pi-raw/src/      *)
(* pi-provider-gate.ts).                                                   *)
(*                                                                         *)
(* The limiter is external, known by its contract (concurrency.ts): it     *)
(* answers acquire, renew and release whenever it likes, or never; leases  *)
(* expire; an expired lease is not extended.  So is the provider.          *)
(*                                                                         *)
(* A step runs from one await to the next.  A promise that has settled     *)
(* leaves its continuation in the microtask queue: other continuations, an *)
(* abort among them, may run first, but no timer fires and no time passes. *)
(* Time is relative and counted down by Tick.                              *)
(***************************************************************************)
EXTENDS Integers

CONSTANTS
  Request,   \* the provider requests of the run that are followed; others may fail
  Ttl,       \* ttlMs of every lease the limiter makes
  Reason,    \* abort reasons that occur: "cancelled", "timeout"
  Budget     \* context.deadline at the start: "none", "far"

ASSUME RunAssumption ==
  /\ Ttl \in Nat \ {0}
  /\ Reason \subseteq {"cancelled", "timeout"}
  /\ Budget \subseteq {"none", "far"}

VARIABLES
  phase,     \* how far gatedRequest and admit are with each request
  caller,    \* the caller's abort signal of each request
  runSignal, \* context.signal
  deadline,  \* context.deadline: none, or how far away it is
  expired,   \* requests whose deadlineController has aborted
  failure,   \* the run's first concurrency failure
  permit,    \* the permit of each request
  revoked,   \* requests whose permit signal has aborted
  disposed,  \* dispose has been called
  renewal,   \* the renew timer or the renew call of each permit
  sinceSent, \* time since that renew call was sent
  localLeft, \* localExpiry - now of each permit, not below 0
  releasing, \* the limiter.release call for each request's lease
  lease,     \* the limiter's side: the acquire call, then its lease
  left       \* the limiter's side: time until the lease expires

gateVars == <<phase, permit, revoked, failure, disposed>>
signalVars == <<caller, runSignal, deadline, expired>>
renewVars == <<renewal, sinceSent, localLeft>>
leaseVars == <<releasing, lease, left>>
vars == <<gateVars, signalVars, renewVars, leaseVars>>

Phase == {"new", "acquiring", "granted", "invalid", "noid", "returning",
          "permitted", "calling", "ending", "denied", "done"}
Signal == {"clear", "cancelled", "timeout"}
Failure == {"timeout", "full", "config", "limiter", "lost"}
Renewal == {"off", "armed", "sent", "extended", "refused"}
Releasing == {"none", "pending", "done", "failed", "timedout"}

Init ==
  /\ phase = [r \in Request |-> "new"]
  /\ caller = [r \in Request |-> "clear"]
  /\ runSignal = "clear"
  /\ deadline \in Budget
  /\ expired = {} /\ revoked = {}
  /\ failure = "none"
  /\ disposed = FALSE
  /\ permit = [r \in Request |-> "none"]
  /\ renewal = [r \in Request |-> "off"]
  /\ sinceSent = [r \in Request |-> 0]
  /\ localLeft = [r \in Request |-> 0]
  /\ releasing = [r \in Request |-> "none"]
  /\ lease = [r \in Request |-> "none"]
  /\ left = [r \in Request |-> 0]

-----------------------------------------------------------------------------
Cancelled(r) == runSignal # "clear" \/ caller[r] # "clear"

\* acquireSignal: any cancel signal, or the deadline timer of this admit.
Aborted(r) == Cancelled(r) \/ r \in expired

\* Within 5 ms of the deadline, or aborted by the run budget.
DeadlineReached(r) ==
  /\ deadline # "none"
  /\ deadline \in {"near", "past"} \/ "timeout" \in {runSignal, caller[r]}

\* fail: the first failure stays.
Fail(error) == failure' = IF failure = "none" THEN error ELSE failure

\* classify: what the run fails with when the acquisition of r ended with
\* error.  The deadline outranks a cancellation, which is no failure.
Classify(r, error) ==
  IF r \in expired \/ DeadlineReached(r) \/ error = "timeout" THEN Fail("timeout")
  ELSE IF Cancelled(r) THEN UNCHANGED failure
  ELSE Fail(error)

\* A continuation waits in the microtask queue.
Microtask ==
  \E r \in Request :
    \/ phase[r] \in {"granted", "invalid", "noid", "permitted"}
    \/ phase[r] = "acquiring" /\ Aborted(r)

Settled(r) == releasing[r] \in {"done", "failed", "timedout"}

\* release of the permits of the requests in R that are not released yet:
\* out of `permits`, the renew timer cleared, limiter.release called.
Held(R) == {r \in R : permit[r] = "held"}
Release(R) ==
  /\ permit' = [r \in Request |-> IF r \in Held(R) THEN "released" ELSE permit[r]]
  /\ renewal' = [r \in Request |->
       IF r \in Held(R) /\ renewal[r] = "armed" THEN "off" ELSE renewal[r]]
  /\ releasing' = [r \in Request |->
       IF r \in Held(R) THEN "pending" ELSE releasing[r]]

-----------------------------------------------------------------------------
\* admit that does not look at an earlier failure.
Admit_ForgetsFailure(r) ==
  /\ phase[r] = "new"
  /\ phase' = [phase EXCEPT ![r] = IF Cancelled(r) THEN "denied" ELSE "acquiring"]
  /\ lease' = [lease EXCEPT ![r] = IF Cancelled(r) THEN "none" ELSE "asked"]
  /\ UNCHANGED <<failure, permit, revoked, disposed, signalVars, renewVars,
                 releasing, left>>

\* gatedRequest calls admit, up to the await of limiter.acquire.
Admit(r) ==
  /\ phase[r] = "new"
  /\ IF failure # "none" \/ Cancelled(r)
       THEN phase' = [phase EXCEPT ![r] = "denied"] /\ UNCHANGED <<failure, lease>>
     ELSE IF deadline = "past"
       THEN phase' = [phase EXCEPT ![r] = "denied"] /\ Fail("timeout") /\ UNCHANGED lease
     ELSE /\ phase' = [phase EXCEPT ![r] = "acquiring"]
          /\ lease' = [lease EXCEPT ![r] = "asked"]
          /\ UNCHANGED failure
  /\ UNCHANGED <<permit, revoked, disposed, signalVars, renewVars, releasing, left>>

\* The deadline timer of a waiting admit fires.
DeadlineTimer(r) ==
  /\ phase[r] = "acquiring" /\ deadline = "past" /\ ~ Microtask
  /\ expired' = expired \cup {r}
  /\ UNCHANGED <<gateVars, caller, runSignal, deadline, renewVars, leaseVars>>

\* abandonOnAbort: the acquire signal aborted before the limiter answered.
StopWaiting(r) ==
  /\ phase[r] = "acquiring" /\ Aborted(r)
  /\ phase' = [phase EXCEPT ![r] = "denied"]
  /\ Classify(r, "limiter")
  /\ UNCHANGED <<permit, revoked, disposed, signalVars, renewVars, leaseVars>>

\* abandonOnAbort that drops a late grant.
LimiterGrants_LateDropped(r) ==
  /\ lease[r] = "asked"
  /\ lease' = [lease EXCEPT ![r] = "held"]
  /\ left' = [left EXCEPT ![r] = Ttl]
  /\ phase' = [phase EXCEPT ![r] =
       IF phase[r] = "acquiring" /\ ~ Aborted(r) THEN "granted" ELSE phase[r]]
  /\ UNCHANGED <<permit, revoked, failure, disposed, signalVars, renewVars, releasing>>

\* The limiter grants a lease: to an admit that waits, or late, to one that
\* has stopped waiting, which returns it at once.  A broken limiter's lease
\* may be invalid, with or without an id.
LimiterGrants(r) ==
  /\ lease[r] = "asked"
  /\ \/ /\ lease' = [lease EXCEPT ![r] = "held"]
        /\ left' = [left EXCEPT ![r] = Ttl]
        /\ IF phase[r] = "acquiring" /\ ~ Aborted(r)
             THEN /\ phase' \in {[phase EXCEPT ![r] = p] : p \in {"granted", "invalid"}}
                  /\ UNCHANGED releasing
             ELSE /\ releasing' = [releasing EXCEPT ![r] = "pending"]
                  /\ UNCHANGED phase
     \/ /\ phase[r] = "acquiring" /\ ~ Aborted(r)
        /\ lease' = [lease EXCEPT ![r] = "gone"]
        /\ phase' = [phase EXCEPT ![r] = "noid"]
        /\ UNCHANGED <<releasing, left>>
  /\ UNCHANGED <<permit, revoked, failure, disposed, signalVars, renewVars>>

\* The limiter rejects an acquire call; nobody listens once admit stopped
\* waiting.
LimiterRejects(r, error) ==
  /\ lease[r] = "asked"
  /\ lease' = [lease EXCEPT ![r] = "gone"]
  /\ IF phase[r] = "acquiring" /\ ~ Aborted(r)
       THEN phase' = [phase EXCEPT ![r] = "denied"] /\ Classify(r, error)
       ELSE UNCHANGED <<phase, failure>>
  /\ UNCHANGED <<permit, revoked, disposed, signalVars, renewVars, releasing, left>>

\* admit goes on with the lease it was granted: it gives it back if the
\* signal aborted in between or the lease is invalid, else makes a permit.
AdmitContinues(r) ==
  /\ phase[r] \in {"granted", "invalid", "noid"}
  /\ \/ /\ Aborted(r) \/ phase[r] = "invalid"
        /\ phase' = [phase EXCEPT ![r] = "returning"]
        /\ releasing' = [releasing EXCEPT ![r] = "pending"]
        /\ UNCHANGED <<permit, renewal, localLeft, failure>>
     \/ /\ ~ Aborted(r) /\ phase[r] = "noid"
        /\ phase' = [phase EXCEPT ![r] = "denied"]
        /\ Classify(r, "limiter")
        /\ UNCHANGED <<permit, renewal, localLeft, releasing>>
     \/ /\ ~ Aborted(r) /\ phase[r] = "granted"
        /\ phase' = [phase EXCEPT ![r] = "permitted"]
        /\ permit' = [permit EXCEPT ![r] = "held"]
        /\ renewal' = [renewal EXCEPT ![r] = "armed"]
        /\ localLeft' = [localLeft EXCEPT ![r] = Ttl]
        /\ UNCHANGED <<releasing, failure>>
  /\ UNCHANGED <<revoked, disposed, signalVars, sinceSent, lease, left>>

\* ... and throws once the release of that lease has settled.
AdmitGivesUp(r) ==
  /\ phase[r] = "returning" /\ Settled(r)
  /\ phase' = [phase EXCEPT ![r] = "denied"]
  /\ Classify(r, "limiter")
  /\ UNCHANGED <<permit, revoked, disposed, signalVars, renewVars, leaseVars>>

-----------------------------------------------------------------------------
\* gatedRequest gets its permit, listens for the caller's abort and calls the
\* provider.
GateCalls(r) ==
  /\ phase[r] = "permitted"
  /\ phase' = [phase EXCEPT ![r] = "calling"]
  /\ UNCHANGED <<permit, revoked, failure, disposed, signalVars, renewVars, leaseVars>>

\* A gate that forgets the release when the stream ends.
ProviderEnds_NoRelease(r) ==
  /\ phase[r] = "calling"
  /\ phase' = [phase EXCEPT ![r] = "ending"]
  /\ UNCHANGED <<permit, revoked, failure, disposed, signalVars, renewVars, leaseVars>>

\* The provider's stream ends, with or without a terminal event, or throws.
ProviderEnds(r) ==
  /\ phase[r] = "calling"
  /\ phase' = [phase EXCEPT ![r] = "ending"]
  /\ Release({r})
  /\ UNCHANGED <<revoked, failure, disposed, signalVars, sinceSent, localLeft, lease, left>>

\* A gate that does not await the release.
GateFinishes_NoAwait(r) ==
  /\ phase[r] = "ending"
  /\ phase' = [phase EXCEPT ![r] = "done"]
  /\ UNCHANGED <<permit, revoked, failure, disposed, signalVars, renewVars, leaseVars>>

\* The awaited release has settled: the terminal event goes to Pi.
GateFinishes(r) ==
  /\ phase[r] = "ending" /\ Settled(r)
  /\ phase' = [phase EXCEPT ![r] = "done"]
  /\ UNCHANGED <<permit, revoked, failure, disposed, signalVars, renewVars, leaseVars>>

-----------------------------------------------------------------------------
\* lose that does not abort the request.
Lose_NoAbort(r) ==
  /\ Fail("lost")
  /\ UNCHANGED revoked
  /\ Release({r})

\* lose that leaves the permit held.
Lose_NoRelease(r) ==
  /\ Fail("lost")
  /\ revoked' = revoked \cup {r}
  /\ UNCHANGED <<permit, renewal, releasing>>

\* lose: the failure is recorded, the provider request aborted, and the lease
\* released all the same.
Lose(r) ==
  /\ Fail("lost")
  /\ revoked' = revoked \cup {r}
  /\ Release({r})

\* The renew timer fires: renew sends its call, or finds the lease expired.
RenewTimer(r) ==
  /\ permit[r] = "held" /\ renewal[r] = "armed" /\ ~ Microtask
  /\ \/ /\ localLeft[r] > 0
        /\ renewal' = [renewal EXCEPT ![r] = "sent"]
        /\ sinceSent' = [sinceSent EXCEPT ![r] = 0]
        /\ UNCHANGED <<permit, revoked, failure, releasing>>
     \/ /\ localLeft[r] = 0
        /\ Lose(r)
        /\ UNCHANGED sinceSent
  /\ UNCHANGED <<phase, disposed, signalVars, localLeft, lease, left>>

\* The renew call reaches the limiter.
LimiterRenews(r) ==
  /\ renewal[r] = "sent"
  /\ \/ /\ lease[r] = "held" /\ left[r] > 0
        /\ left' = [left EXCEPT ![r] = Ttl]
        /\ renewal' = [renewal EXCEPT ![r] = "extended"]
     \/ /\ ~ (lease[r] = "held" /\ left[r] > 0)
        /\ renewal' = [renewal EXCEPT ![r] = "refused"]
        /\ UNCHANGED left
  /\ UNCHANGED <<gateVars, signalVars, sinceSent, localLeft, releasing, lease>>

\* A renewal whose local expiry counts from the answer.
RenewAnswered_FromAnswer(r) ==
  /\ renewal[r] = "extended" /\ permit[r] = "held"
  /\ localLeft' = [localLeft EXCEPT ![r] = Ttl]
  /\ renewal' = [renewal EXCEPT ![r] = "armed"]
  /\ UNCHANGED <<gateVars, signalVars, sinceSent, leaseVars>>

\* The limiter's answer comes back.  The new local expiry counts from when the
\* call was sent; a permit that is released meanwhile takes no notice.
RenewAnswered(r) ==
  /\ renewal[r] \in {"extended", "refused"}
  /\ \/ /\ permit[r] = "held" /\ renewal[r] = "extended"
        /\ localLeft' = [localLeft EXCEPT ![r] =
             IF sinceSent[r] < Ttl THEN Ttl - sinceSent[r] ELSE 0]
        /\ renewal' = [renewal EXCEPT ![r] = "armed"]
        /\ UNCHANGED <<permit, revoked, failure, releasing>>
     \/ /\ permit[r] = "held" /\ renewal[r] = "refused"
        /\ Lose(r)
        /\ UNCHANGED localLeft
     \/ /\ permit[r] # "held"
        /\ renewal' = [renewal EXCEPT ![r] = "off"]
        /\ UNCHANGED <<permit, revoked, failure, localLeft, releasing>>
  /\ UNCHANGED <<phase, disposed, signalVars, sinceSent, lease, left>>

\* The renew call rejects, its answer is invalid, or it is still out at the
\* local expiry and abandoned: retry while the lease lasts.
RenewFails(r) ==
  /\ permit[r] = "held" /\ renewal[r] \in {"sent", "extended", "refused"}
  /\ \/ /\ localLeft[r] > 0
        /\ renewal' = [renewal EXCEPT ![r] = "armed"]
        /\ UNCHANGED <<permit, revoked, failure, releasing>>
     \/ /\ localLeft[r] = 0
        /\ Lose(r)
  /\ UNCHANGED <<phase, disposed, signalVars, sinceSent, localLeft, lease, left>>

-----------------------------------------------------------------------------
\* The limiter's release call ends: done, rejected, or out for longer than
\* RELEASE_TIMEOUT_MS.
LimiterReleases(r) ==
  /\ releasing[r] \in {"pending", "timedout"}
  /\ releasing' = [releasing EXCEPT ![r] = "done"]
  /\ lease' = [lease EXCEPT ![r] = "gone"]
  /\ left' = [left EXCEPT ![r] = 0]
  /\ UNCHANGED <<gateVars, signalVars, renewVars>>

ReleaseFails(r) ==
  /\ releasing[r] = "pending"
  /\ releasing' = [releasing EXCEPT ![r] = "failed"]
  /\ UNCHANGED <<gateVars, signalVars, renewVars, lease, left>>

\* releaseQuietly without withTimeout.
ReleaseTimesOut_Never(r) == FALSE /\ releasing[r] = "pending" /\ UNCHANGED vars

ReleaseTimesOut(r) ==
  /\ releasing[r] = "pending" /\ ~ Microtask
  /\ releasing' = [releasing EXCEPT ![r] = "timedout"]
  /\ UNCHANGED <<gateVars, signalVars, renewVars, lease, left>>

\* The limiter drops a lease that has expired.
LimiterExpires(r) ==
  /\ lease[r] = "held" /\ left[r] = 0
  /\ lease' = [lease EXCEPT ![r] = "gone"]
  /\ UNCHANGED <<gateVars, signalVars, renewVars, releasing, left>>

\* The caller's signal aborts.  onCallerAbort releases the permit, if
\* gatedRequest got as far as listening.
CallerAborts(r, why) ==
  /\ caller[r] = "clear"
  /\ caller' = [caller EXCEPT ![r] = why]
  /\ Release(IF phase[r] \in {"calling", "ending"} THEN {r} ELSE {})
  /\ UNCHANGED <<phase, revoked, failure, disposed, runSignal, deadline, expired, sinceSent,
                 localLeft, lease, left>>

\* Another request of the run fails: of it only the shared failure matters.
OtherFails(error) ==
  /\ Fail(error)
  /\ UNCHANGED <<phase, permit, revoked, disposed, signalVars, renewVars, leaseVars>>

\* The run's signal aborts.
RunAborts(why) ==
  /\ runSignal = "clear"
  /\ runSignal' = why
  /\ UNCHANGED <<gateVars, caller, deadline, expired, renewVars, leaseVars>>

\* dispose, at the end of the attempt: releases the permits held by then.
Dispose ==
  /\ disposed' = TRUE
  /\ Release(Request)
  /\ UNCHANGED <<phase, revoked, failure, signalVars, sinceSent, localLeft, lease, left>>

\* The deadline comes closer.
DeadlineNears ==
  /\ ~ Microtask
  /\ \/ deadline = "far" /\ deadline' = "near"
     \/ deadline = "near" /\ deadline' = "past"
  /\ UNCHANGED <<gateVars, caller, runSignal, expired, renewVars, leaseVars>>

CountDown(t) == IF t > 0 THEN t - 1 ELSE 0

\* One unit of time passes.
Tick ==
  /\ ~ Microtask
  /\ left' = [r \in Request |-> CountDown(left[r])]
  /\ localLeft' = [r \in Request |-> CountDown(localLeft[r])]
  /\ sinceSent' = [r \in Request |->
       IF renewal[r] \in {"sent", "extended", "refused"} /\ sinceSent[r] < Ttl
       THEN sinceSent[r] + 1 ELSE sinceSent[r]]
  /\ UNCHANGED <<gateVars, signalVars, renewal, releasing, lease>>

Next ==
  \/ \E r \in Request :
       \/ Admit(r) \/ DeadlineTimer(r) \/ StopWaiting(r) \/ LimiterGrants(r)
       \/ \E error \in Failure \ {"lost"} : LimiterRejects(r, error)
       \/ AdmitContinues(r) \/ AdmitGivesUp(r)
       \/ GateCalls(r) \/ ProviderEnds(r) \/ GateFinishes(r)
       \/ RenewTimer(r) \/ LimiterRenews(r) \/ RenewAnswered(r) \/ RenewFails(r)
       \/ LimiterReleases(r) \/ ReleaseFails(r) \/ ReleaseTimesOut(r)
       \/ LimiterExpires(r)
       \/ \E why \in Reason : CallerAborts(r, why)
  \/ \E error \in {"timeout", "lost"} : OtherFails(error)
  \/ \E why \in Reason : RunAborts(why)
  \/ Dispose \/ DeadlineNears \/ Tick

Spec == Init /\ [][Next]_vars

\* What the event loop guarantees RunCell: its continuations and its timers
\* run in the end, and time passes.  Timers are not enabled while a microtask
\* is queued, hence strong fairness.  Of the limiter only the contract's
\* "leases that expire" is assumed, of the provider nothing.
FairSpec ==
  /\ Spec
  /\ SF_vars(Tick)
  /\ \A r \in Request :
       /\ WF_vars(StopWaiting(r) \/ AdmitContinues(r) \/ GateCalls(r))
       /\ WF_vars(AdmitGivesUp(r) \/ GateFinishes(r))
       /\ SF_vars(RenewTimer(r))
       /\ SF_vars(localLeft[r] = 0 /\ RenewFails(r))
       /\ SF_vars(ReleaseTimesOut(r))
       /\ WF_vars(LimiterExpires(r))

\* A provider that ends every response.
ProviderFair == \A r \in Request : WF_vars(ProviderEnds(r))

-----------------------------------------------------------------------------
\* Every variable has its type.
TypeOK ==
  /\ phase \in [Request -> Phase]
  /\ caller \in [Request -> Signal]
  /\ runSignal \in Signal
  /\ deadline \in {"none", "far", "near", "past"}
  /\ expired \in SUBSET Request /\ revoked \in SUBSET Request
  /\ failure \in Failure \cup {"none"}
  /\ disposed \in BOOLEAN
  /\ permit \in [Request -> {"none", "held", "released"}]
  /\ renewal \in [Request -> Renewal]
  /\ sinceSent \in [Request -> 0..Ttl]
  /\ localLeft \in [Request -> 0..Ttl]
  /\ releasing \in [Request -> Releasing]
  /\ lease \in [Request -> {"none", "asked", "held", "gone"}]
  /\ left \in [Request -> 0..Ttl]

\* No slot leaks: a lease the limiter holds for this run is about to be looked
\* at by admit, or is a permit dispose can find, or has been given back.  This
\* covers a grant that lands after the wait was abandoned, one that races the
\* cancellation, and an invalid one.
SlotAccounted ==
  \A r \in Request :
    lease[r] = "held" =>
      \/ phase[r] \in {"granted", "invalid"}
      \/ permit[r] = "held"
      \/ releasing[r] # "none"

\* RunCell's local expiry never outlives the limiter's, through renewals that
\* are slow, fail, or whose answer is late: when the limiter may hand the slot
\* to someone else, RunCell already counts the lease as expired.
LocalExpiryFirst ==
  \A r \in Request : permit[r] = "held" => localLeft[r] <= left[r]

\* "A slot covers one active provider request": as long as a request at the
\* provider has not been told to stop, its permit is held, so that its lease
\* is renewed.  The run's dispose is the exception: it releases the permits
\* without stopping the requests.
ProviderCallCovered ==
  \A r \in Request :
    (phase[r] = "calling" /\ r \notin revoked /\ caller[r] = "clear" /\ ~ disposed)
    => permit[r] = "held"

\* The slot is released before Pi sees the end of the response and runs a
\* tool: from then on the limiter holds the lease only if its release failed
\* or timed out, also if the caller's abort, a lost lease or dispose released
\* it first, and also if a renewal was still under way.
SlotReturnedBeforeTools ==
  \A r \in Request :
    (phase[r] = "done" /\ lease[r] = "held") => releasing[r] \in {"failed", "timedout"}

\* "Once set, every later request is denied with it": a request that starts
\* after the run's first concurrency failure never reaches the provider.
FailureDeniesLater ==
  \A r \in Request :
    [](failure # "none" /\ phase[r] = "new" => [](phase[r] # "calling"))

\* A permit whose lease the limiter has let expire is given up in the end and
\* its request told to stop, whatever limiter and provider do.
LostLeaseStops ==
  \A r \in Request :
    (permit[r] = "held" /\ left[r] = 0) ~> (permit[r] # "held")

\* If the provider ends its responses, a request comes to its end on both sides:
\* Pi gets the end of the stream, even if the limiter never answers the
\* release, and every slot granted to the run comes back to the limiter.
EveryRequestEnds ==
  ProviderFair => \A r \in Request :
    /\ (phase[r] = "calling") ~> (phase[r] = "done")
    /\ (lease[r] = "held") ~> (lease[r] = "gone")
=============================================================================
