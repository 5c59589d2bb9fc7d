---------------------------- MODULE GuiMutation ----------------------------
(***************************************************************************)
(* The GUI mutation boundary of reality-core.                              *)
(*                                                                         *)
(* A client that holds a server-issued GuiSession asks for an operation by *)
(* sending MutationRequestMetadata.  A server handler takes a delivery     *)
(* together with the GuiSession VALUE it holds at that moment, validates   *)
(* it, asks the AuthorizationPort, runs the UnitOfWork and emits the       *)
(* DomainEventEnvelope: the order of CoreContractIntegrationTest and of    *)
(* the README's example.  A GuiSession is immutable, so a handler keeps    *)
(* looking at the value it took while other handlers move the session on.  *)
(*                                                                         *)
(* The library defines validate, the error table, the revision arithmetic  *)
(* and the order of the calls.  Transport, clients, the clock, idempotency *)
(* storage and the place a session is kept belong to adapters; they are    *)
(* modelled as the README says adapters must behave.                       *)
(***************************************************************************)
EXTENDS Integers

CONSTANTS
    Actors,         \* ActorIds a connection can be authenticated as
    Sessions,       \* SessionIds the server has issued
    Operations,     \* OperationIds: one per logical operation of a client
    Handlers,       \* server threads that handle deliveries
    Owner,          \* the actor each session was issued to
    Target,         \* the session each operation is addressed to
    Issuer,         \* the actor whose connection carries each operation
    Granted,        \* actors the AuthorizationPort allows
    WorkErrors,     \* ErrorCodes a TransactionWork may fail with
    FirstRevision,  \* revision the sessions are opened with
    MaxRevision,    \* stands for Long.MAX_VALUE, where Revision.next throws
    MaxTime,        \* bound on the clock
    MaxAttempts,    \* bound on the RequestIds of one operation
    MaxTimeouts,    \* bound on the retries a client makes without an answer
    MaxCrashes,     \* bound on the handlers that die in the middle
    Null            \* Java's null

Revisions == 0..MaxRevision
RequestIds == Operations \X (1..MaxAttempts)

ErrorCode ==
    { "malformed_request", "permission_denied", "invalid_session",
      "session_expired", "revision_conflict", "operation_already_processed",
      "not_found", "invalid_argument", "insufficient_funds",
      "unsupported_operation", "invariant_violation", "internal_failure" }

\* The two codes the boundary gives a meaning of its own: a conflict names two
\* revisions, and "already processed" tells of a commit.
WorkErrorCodes == ErrorCode \ {"revision_conflict", "operation_already_processed"}

ASSUME BoundaryAssumption ==
    /\ FirstRevision \in Nat /\ MaxRevision \in Nat /\ FirstRevision <= MaxRevision
    /\ MaxTime \in Nat /\ MaxAttempts \in Nat /\ MaxTimeouts \in Nat
    /\ MaxCrashes \in Nat
    /\ Owner \in [Sessions -> Actors]
    /\ Target \in [Operations -> Sessions]
    /\ Issuer \in [Operations -> Actors]
    /\ Granted \subseteq Actors
    /\ WorkErrors \subseteq WorkErrorCodes
    /\ Null \notin Actors /\ Null \notin Nat

VARIABLES
    clock,      \* the server's Instant
    session,    \* the current GuiSession value of each SessionId
    packets,    \* requests in the network: any may arrive late, often or never
    handler,    \* what each server thread is doing
    ledger,     \* committed mutations, with the revision each one took
    events,     \* emitted DomainEventEnvelopes
    client,     \* what each operation's client knows
    conflicted, \* RequestIds answered with a conflict (history)
    crashes     \* handlers that died so far

vars == <<clock, session, packets, handler, ledger, events, client, conflicted, crashes>>

-----------------------------------------------------------------------------
(* Values *)

RetryableByDefault == { "revision_conflict", "internal_failure" }

Success == [code |-> "success", parameters |-> Null]
Failure(code) == [code |-> code, parameters |-> Null]
FailureWith(code, parameters) == [code |-> code, parameters |-> parameters]

\* MutationRequestMetadata.of: the four fields, none of them null.
Metadata == [requestId : RequestIds, operationId : Operations,
             sessionId : Sessions, expectedVersion : Revisions]

\* GuiSession.open; locale and streamer mode take no part in any decision.
Open(s, actor, expiresAt, revision) ==
    [sessionId |-> s, actor |-> actor, expiresAt |-> expiresAt, revision |-> revision]

IsExpired(g, now) == ~(now < g.expiresAt)

\* Two ways to get Revision.next wrong: no check at the top, and wrapping there.
NextRevisionUnchecked(r) == r + 1
NextRevisionWrapping(r) == IF r = MaxRevision THEN 0 ELSE r + 1

\* Revision.next is exact: at the top of its range it throws instead of
\* wrapping; Null stands for the ArithmeticException.
NextRevision(r) == IF r = MaxRevision THEN Null ELSE r + 1

\* Two halves of the ownership check, each forgotten in turn.
MismatchedSession(g, request, authenticatedActor) == g.sessionId # request.sessionId
MismatchedActor(g, request, authenticatedActor) == g.actor # authenticatedActor

Mismatched(g, request, authenticatedActor) ==
    g.actor # authenticatedActor \/ g.sessionId # request.sessionId

\* A version check that lets old versions through.
StaleOnlyAhead(g, request) == g.revision < request.expectedVersion

Stale(g, request) == g.revision # request.expectedVersion

\* A conflict that tells its two versions the wrong way round.
ConflictSwapped(g, request) ==
    FailureWith("revision_conflict", [expectedVersion |-> g.revision,
                                      currentVersion |-> request.expectedVersion])

Conflict(g, request) ==
    FailureWith("revision_conflict", [expectedVersion |-> request.expectedVersion,
                                      currentVersion |-> g.revision])

\* GuiSession.validate: the order of the early returns decides what a failing
\* request is told.
Validate(g, request, authenticatedActor, now) ==
    IF request = Null \/ authenticatedActor = Null \/ now = Null
      THEN Failure("malformed_request")
    ELSE IF Mismatched(g, request, authenticatedActor)
      THEN Failure("invalid_session")
    ELSE IF IsExpired(g, now)
      THEN Failure("session_expired")
    ELSE IF Stale(g, request)
      THEN Conflict(g, request)
    ELSE Success

\* AuthorizationDecision.asResult of the port's decision for the actor.
Authorize(actor) ==
    IF actor \in Granted THEN Success ELSE Failure("permission_denied")

-----------------------------------------------------------------------------
(* Types *)

NoTask == [pc |-> "idle", session |-> Null, request |-> Null,
           actor |-> Null, result |-> Null]

Parameters == [expectedVersion : Revisions, currentVersion : Revisions]
Results ==
    [code : (ErrorCode \ {"revision_conflict"}) \cup {"success"}, parameters : {Null}]
    \cup [code : {"revision_conflict"}, parameters : Parameters]
SessionValues == [sessionId : Sessions, actor : Actors,
                  expiresAt : 0..(MaxTime + 1), revision : Revisions]
Tasks == [pc : {"validate", "authorize", "execute", "emit", "reply"},
          session : SessionValues, request : Metadata,
          actor : Actors \cup {Null}, result : Results]
Commits == [operationId : Operations, requestId : RequestIds, actor : Actors,
            sessionId : Sessions, expectedVersion : Revisions, takes : Revisions]
Envelopes == [requestId : RequestIds, operationId : Operations, actor : Actors]
Clients == [state : {"ready", "waiting", "applied", "refused"},
            observed : Revisions, attempt : 0..MaxAttempts,
            timeouts : 0..MaxTimeouts]

\* Every variable keeps its type; a task in progress holds a whole session
\* value, a whole request and the last result.
TypeOK ==
    /\ clock \in 0..MaxTime
    /\ session \in [Sessions -> SessionValues]
    /\ packets \subseteq Metadata
    /\ handler \in [Handlers -> Tasks \cup {NoTask}]
    /\ ledger \subseteq Commits
    /\ events \subseteq Envelopes
    /\ client \in [Operations -> Clients]
    /\ conflicted \subseteq RequestIds
    /\ crashes \in 0..MaxCrashes

Init ==
    /\ clock = 0
    /\ \E expiresAt \in [Sessions -> 1..(MaxTime + 1)] :
         session = [s \in Sessions |-> Open(s, Owner[s], expiresAt[s], FirstRevision)]
    /\ packets = {}
    /\ handler = [h \in Handlers |-> NoTask]
    /\ ledger = {}
    /\ events = {}
    /\ client = [o \in Operations |->
                    [state |-> "ready", observed |-> FirstRevision,
                     attempt |-> 0, timeouts |-> 0]]
    /\ conflicted = {}
    /\ crashes = 0

-----------------------------------------------------------------------------
(* The client, the network and the clock: outside the library *)

\* A new delivery attempt: a fresh RequestId, the same OperationId, the
\* revision the client last observed.
Send(o) ==
    /\ client[o].state = "ready"
    /\ client[o].attempt < MaxAttempts
    /\ LET n == client[o].attempt + 1 IN
        /\ packets' = packets \cup
             {[requestId |-> <<o, n>>, operationId |-> o,
               sessionId |-> Target[o], expectedVersion |-> client[o].observed]}
        /\ client' = [client EXCEPT ![o].state = "waiting", ![o].attempt = n]
    /\ UNCHANGED <<clock, session, handler, ledger, events, conflicted, crashes>>

\* No answer came in time: the client will send the same operation again.
Timeout(o) ==
    /\ client[o].state = "waiting"
    /\ client[o].timeouts < MaxTimeouts
    /\ client' = [client EXCEPT ![o].state = "ready", ![o].timeouts = @ + 1]
    /\ UNCHANGED <<clock, session, packets, handler, ledger, events, conflicted, crashes>>

Tick ==
    /\ clock < MaxTime
    /\ clock' = clock + 1
    /\ UNCHANGED <<session, packets, handler, ledger, events, client, conflicted, crashes>>

-----------------------------------------------------------------------------
(* The server's handlers *)

\* A delivery reaches a handler.  The handler holds the session value it looked
\* up, which need not be the one the request names, and the actor the
\* connection is authenticated as, or none.
Receive(h, p) ==
    /\ handler[h].pc = "idle"
    /\ p \in packets
    /\ \E s \in Sessions, a \in {Issuer[p.operationId], Null} :
        handler' = [handler EXCEPT
            ![h] = [pc |-> "validate", session |-> session[s], request |-> p,
                    actor |-> a, result |-> Success]]
    /\ UNCHANGED <<clock, session, packets, ledger, events, client, conflicted, crashes>>

\* Two ways to mishandle a failing result: going on in spite of it, and ending
\* the call without passing it on.
OutcomeIgnored(h, result, next) ==
    handler' = [handler EXCEPT ![h].result = result, ![h].pc = next]
OutcomeForgotten(h, result, next) ==
    handler' = [handler EXCEPT
        ![h].pc = IF result.code = "success" THEN next ELSE "reply"]

\* The failing result ends the call; a success goes on to the next step.
Outcome(h, result, next) ==
    handler' = [handler EXCEPT
        ![h].result = result,
        ![h].pc = IF result.code = "success" THEN next ELSE "reply"]

\* The server passes its present time, or none (GuiSession tolerates null).
ValidateStep(h) ==
    /\ handler[h].pc = "validate"
    /\ \E now \in {clock, Null} :
         Outcome(h, Validate(handler[h].session, handler[h].request,
                             handler[h].actor, now), "authorize")
    /\ UNCHANGED <<clock, session, packets, ledger, events, client, conflicted, crashes>>

AuthorizeStep(h) ==
    /\ handler[h].pc = "authorize"
    /\ Outcome(h, Authorize(handler[h].actor), "execute")
    /\ UNCHANGED <<clock, session, packets, ledger, events, client, conflicted, crashes>>

\* The idempotency store is keyed by the OperationId.
AlreadyProcessed(request) ==
    \E c \in ledger : c.operationId = request.operationId

\* The session value the handler has held since it took the delivery.
Held(h) == handler[h].session

\* The session the mutation belongs to, as it is when the transaction runs.
Current(h) == session[handler[h].session.sessionId]

\* UnitOfWork.execute, the work succeeds: the commit takes the session's
\* current revision and reissues the session at the next one.
Commit(h) ==
    /\ handler[h].pc = "execute"
    /\ ~AlreadyProcessed(handler[h].request)
    /\ NextRevision(Current(h).revision) # Null
    /\ LET t == handler[h]
           g == Current(h)
       IN /\ ledger' = ledger \cup
               {[operationId |-> t.request.operationId, requestId |-> t.request.requestId,
                 actor |-> t.actor, sessionId |-> g.sessionId,
                 expectedVersion |-> t.request.expectedVersion, takes |-> g.revision]}
          /\ session' = [session EXCEPT ![g.sessionId] =
               Open(g.sessionId, g.actor, g.expiresAt, NextRevision(g.revision))]
    /\ Outcome(h, Success, "emit")
    /\ UNCHANGED <<clock, packets, events, client, conflicted, crashes>>

\* UnitOfWork.execute, the work fails and nothing is committed: the operation is
\* known already, the session's revision has no next one, or the work has a
\* reason of its own.
Abort(h) ==
    /\ handler[h].pc = "execute"
    /\ \/ /\ AlreadyProcessed(handler[h].request)
          /\ Outcome(h, Failure("operation_already_processed"), "emit")
       \/ /\ ~AlreadyProcessed(handler[h].request)
          /\ NextRevision(Current(h).revision) = Null
          /\ Outcome(h, Failure("internal_failure"), "emit")
       \/ \E code \in WorkErrors : Outcome(h, Failure(code), "emit")
    /\ UNCHANGED <<clock, session, packets, ledger, events, client, conflicted, crashes>>

\* DomainEventEnvelope.of, after the transaction.
Emit(h) ==
    /\ handler[h].pc = "emit"
    /\ events' = events \cup
         {[requestId |-> handler[h].request.requestId,
           operationId |-> handler[h].request.operationId,
           actor |-> handler[h].actor]}
    /\ Outcome(h, Success, "reply")
    /\ UNCHANGED <<clock, session, packets, ledger, client, conflicted, crashes>>

\* The client reads an answer to its latest attempt, and the default retry
\* guidance of the error code decides what it does next.  It ignores an answer
\* to an earlier attempt.
Answered(c, result) ==
    [c EXCEPT
        !.state =
            CASE result.code \in {"success", "operation_already_processed"} -> "applied"
              [] result.code \in RetryableByDefault -> "ready"
              [] OTHER -> "refused",
        !.observed = IF result.code = "revision_conflict"
                       THEN result.parameters.currentVersion ELSE @]

Reply(h) ==
    /\ handler[h].pc = "reply"
    /\ LET r == handler[h].request.requestId
           o == handler[h].request.operationId
           result == handler[h].result
       IN /\ client' = IF client[o].state = "waiting" /\ r = <<o, client[o].attempt>>
                         THEN [client EXCEPT ![o] = Answered(@, result)] ELSE client
          /\ conflicted' = IF result.code = "revision_conflict"
                             THEN conflicted \cup {r} ELSE conflicted
    /\ handler' = [handler EXCEPT ![h] = NoTask]
    /\ UNCHANGED <<clock, session, packets, ledger, events, crashes>>

\* The handler dies: what is committed stays, the task is forgotten.
Crash(h) ==
    /\ handler[h].pc # "idle"
    /\ crashes < MaxCrashes
    /\ crashes' = crashes + 1
    /\ handler' = [handler EXCEPT ![h] = NoTask]
    /\ UNCHANGED <<clock, session, packets, ledger, events, client, conflicted>>

-----------------------------------------------------------------------------
Serve(h) ==
    \/ ValidateStep(h) \/ AuthorizeStep(h) \/ Commit(h) \/ Abort(h)
    \/ Emit(h) \/ Reply(h)

Next ==
    \/ \E o \in Operations : Send(o) \/ Timeout(o)
    \/ Tick
    \/ \E h \in Handlers : Serve(h) \/ Crash(h) \/ \E p \in packets : Receive(h, p)

Spec == Init /\ [][Next]_vars

Delivered(r) == \E h \in Handlers, p \in packets : p.requestId = r /\ Receive(h, p)

\* A handler thread that has a task goes on with it; a client sends what it is
\* ready to send and reads the answers it waits for; a request that can be
\* taken again and again is taken in the end.
Fairness ==
    /\ \A h \in Handlers : WF_vars(Serve(h))
    /\ \A o \in Operations : WF_vars(Send(o))
    /\ \A r \in RequestIds : SF_vars(Delivered(r))

FairSpec == Spec /\ Fairness

-----------------------------------------------------------------------------
(* What holds with any number of handlers *)

\* The commits of a session account for its revision: each of them took one
\* revision, no two the same, none left out (Revision.next is "the only
\* revision that directly follows").  No concurrent commit is overwritten.
RevisionsTakenOnce ==
    /\ \A s \in Sessions : \A n \in FirstRevision..(session[s].revision - 1) :
        \E c \in ledger : c.sessionId = s /\ c.takes = n
    /\ \A c \in ledger : c.takes < session[c.sessionId].revision
    /\ \A c, d \in ledger : c.sessionId = d.sessionId /\ c.takes = d.takes => c = d

\* Every audit envelope carries the correlation chain of exactly one commit,
\* made by the session's own, authorized actor; no operation has two.
AuditTrail ==
    /\ \A e \in events : \E c \in ledger :
        /\ c.operationId = e.operationId
        /\ c.requestId = e.requestId
        /\ c.actor = e.actor
        /\ e.actor = Owner[c.sessionId]
        /\ e.actor \in Granted
    /\ \A e, f \in events : e.operationId = f.operationId => e = f

\* A revision conflict tells the session's revision.  It is only ever told to
\* the session's owner (the early returns of validate come in that order), and
\* the revision told is one the session has reached and the client did not name.
ConflictToldToOwner ==
    \A h \in Handlers :
        LET t == handler[h] IN
        t.pc = "reply" /\ t.result.code = "revision_conflict" =>
            /\ t.actor = Owner[t.request.sessionId]
            /\ t.result.parameters.currentVersion <= session[t.request.sessionId].revision
            /\ t.result.parameters.currentVersion # t.request.expectedVersion

\* A client that was told its operation is done is told the truth.
AppliedIsCommitted ==
    \A o \in Operations : client[o].state = "applied" =>
        \E c \in ledger : c.operationId = o

-----------------------------------------------------------------------------
(* What holds when one handler at a time serves the sessions *)

Ledger == INSTANCE MutationLedger WITH
    applied <- {[operationId |-> c.operationId, version |-> c.expectedVersion] : c \in ledger},
    revision <- [s \in Sessions |-> session[s].revision]

\* A serial server implements the abstract ledger: each operation is applied in
\* one step at the revision its client named, and never again.
ImplementsLedger == Ledger!Spec

\* Once a request was answered with a revision conflict, no later delivery of
\* that same request commits: revisions never come back.
ConflictIsFinal ==
    [][\A c \in ledger' \ ledger : c.requestId \notin conflicted]_vars

\* The revision a client goes by never moves back: a conflict names a later
\* one, so a client that follows the retry guidance makes progress.
ObservedNeverGoesBack ==
    [][\A o \in Operations : client'[o].observed >= client[o].observed]_vars

\* The revision check comes before the idempotency check, so a request that is
\* delivered again is never told "already processed": only a retry under a
\* refreshed revision is.
AlreadyProcessedNeedsRefresh ==
    \A h \in Handlers :
        LET t == handler[h] IN
        t.pc = "reply" /\ t.result.code = "operation_already_processed" =>
            \E c \in ledger :
                /\ c.operationId = t.request.operationId
                /\ c.requestId[2] < t.request.requestId[2]
                /\ c.expectedVersion < t.request.expectedVersion

-----------------------------------------------------------------------------
(* What a document says and the handlers' order does not give *)

\* "persist auditable event envelopes atomically with their mutation"
\* (SECURITY.md): a commit has its envelope, or a handler is about to emit it.
CommitIsAudited ==
    \A c \in ledger :
        \/ \E e \in events : e.requestId = c.requestId
        \/ \E h \in Handlers :
            handler[h].pc = "emit" /\ handler[h].request.requestId = c.requestId

-----------------------------------------------------------------------------
(* Liveness *)

\* A client that follows the retry guidance settles every operation, within
\* MaxAttempts attempts: each conflict it meets is another operation's commit.
EveryOperationSettles ==
    \A o \in Operations : <>(client[o].state \in {"applied", "refused"})
=============================================================================
