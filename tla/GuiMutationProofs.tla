------------------------- MODULE GuiMutationProofs -------------------------
(***************************************************************************)
(* Proofs about GuiMutation, for every set of actors, sessions, operations *)
(* and handlers and every bound.  The safety properties are not inductive: *)
(* they follow from IInv, which adds what a task in progress has           *)
(* established so far.                                                     *)
(***************************************************************************)
EXTENDS GuiMutation, TLAPS

\* Every session value names itself and its owner; a task that passed validate
\* acts for the owner of the session it names, and one that passed the
\* authorization acts for a granted actor.
TaskValidated(t) ==
    /\ t.pc \in {"authorize", "execute", "emit"} =>
        /\ t.session.sessionId = t.request.sessionId
        /\ t.actor = Owner[t.request.sessionId]
    /\ t.pc \in {"execute", "emit"} => t.actor \in Granted

Validated ==
    /\ \A s \in Sessions : session[s].sessionId = s /\ session[s].actor = Owner[s]
    /\ \A h \in Handlers : handler[h].pc # "idle" =>
        /\ handler[h].session.actor = Owner[handler[h].session.sessionId]
        /\ TaskValidated(handler[h])

\* The result of validate, of the authorization and of the work is a Result.
LEMMA ValidateType ==
    ASSUME NEW g \in SessionValues, NEW request \in Metadata,
           NEW actor \in Actors \cup {Null}, NEW now
    PROVE  Validate(g, request, actor, now) \in Results
  BY BoundaryAssumption
     DEF Validate, Mismatched, Stale, Conflict, Results, Parameters, Failure, FailureWith, Success, ErrorCode,
         SessionValues, Metadata, Revisions, RequestIds

\* A failing transaction has a code; "already processed" has its commit.
LEMMA AbortCause ==
    ASSUME NEW h \in Handlers, Abort(h)
    PROVE  \E code \in ErrorCode \ {"revision_conflict"} :
             /\ Outcome(h, Failure(code), "emit")
             /\ code = "operation_already_processed" => AlreadyProcessed(handler[h].request)
  <1>1. WorkErrors \subseteq ErrorCode \ {"revision_conflict", "operation_already_processed"}
    BY BoundaryAssumption DEF WorkErrorCodes
  <1>2. "operation_already_processed" \in ErrorCode \ {"revision_conflict"}
        /\ "internal_failure" \in ErrorCode \ {"revision_conflict", "operation_already_processed"}
    BY DEF ErrorCode
  <1>3. CASE AlreadyProcessed(handler[h].request)
             /\ Outcome(h, Failure("operation_already_processed"), "emit")
    BY <1>2, <1>3
  <1>4. ASSUME NEW code \in ErrorCode \ {"revision_conflict", "operation_already_processed"},
               Outcome(h, Failure(code), "emit")
        PROVE  \E k \in ErrorCode \ {"revision_conflict"} :
                 /\ Outcome(h, Failure(k), "emit")
                 /\ k = "operation_already_processed" => AlreadyProcessed(handler[h].request)
    BY <1>4
  <1> QED
    BY <1>1, <1>2, <1>3, <1>4 DEF Abort

\* A handler step that only ends in a result leaves every handler well typed.
LEMMA OutcomeType ==
    ASSUME TypeOK, NEW h \in Handlers, handler[h] # NoTask,
           NEW result \in Results, NEW next \in {"authorize", "execute", "emit", "reply"},
           Outcome(h, result, next)
    PROVE  handler' \in [Handlers -> Tasks \cup {NoTask}]
  <1>1. handler[h] \in Tasks
    BY DEF TypeOK
  <1>2. [handler[h] EXCEPT !.result = result,
                           !.pc = IF result.code = "success" THEN next ELSE "reply"] \in Tasks
    BY <1>1 DEF Tasks
  <1>3. handler' = [handler EXCEPT ![h] = [handler[h] EXCEPT !.result = result,
                       !.pc = IF result.code = "success" THEN next ELSE "reply"]]
    BY DEF Outcome, TypeOK
  <1> QED
    BY <1>2, <1>3 DEF TypeOK

LEMMA IdleIsNoTask ==
    ASSUME TypeOK, NEW h \in Handlers, handler[h].pc # "idle"
    PROVE  handler[h] # NoTask
  BY DEF NoTask

LEMMA InitType == Init => TypeOK
  <1> SUFFICES ASSUME Init PROVE TypeOK
    OBVIOUS
  <1> USE BoundaryAssumption
  <1>1. session \in [Sessions -> SessionValues]
    BY DEF Init, SessionValues, Open, Revisions
  <1>2. client \in [Operations -> Clients]
    BY DEF Init, Clients, Revisions
  <1> QED
    BY <1>1, <1>2 DEF Init, TypeOK

\* One step per action: each keeps the type of every variable it writes.
LEMMA NextType == TypeOK /\ Validated /\ [Next]_vars => TypeOK'
  <1> SUFFICES ASSUME TypeOK, Validated, [Next]_vars PROVE TypeOK'
    OBVIOUS
  <1> USE BoundaryAssumption
  <1>1. ASSUME NEW o \in Operations, Send(o) PROVE TypeOK'
    <2> DEFINE n == client[o].attempt + 1
    <2>1. client[o] \in Clients
      BY DEF TypeOK
    <2>2. n \in 1..MaxAttempts
      BY <1>1, <2>1 DEF Send, Clients
    <2>3. [requestId |-> <<o, n>>, operationId |-> o, sessionId |-> Target[o],
           expectedVersion |-> client[o].observed] \in Metadata
      BY <2>1, <2>2 DEF Metadata, RequestIds, Clients
    <2>4. packets' \subseteq Metadata
      BY <1>1, <2>3 DEF Send, TypeOK
    <2>5. client' \in [Operations -> Clients]
      BY <1>1, <2>1, <2>2 DEF Send, TypeOK, Clients
    <2> QED
      BY <1>1, <2>4, <2>5 DEF Send, TypeOK
  <1>2. ASSUME NEW o \in Operations, Timeout(o) PROVE TypeOK'
    <2>1. client[o] \in Clients
      BY DEF TypeOK
    <2>2. client' \in [Operations -> Clients]
      BY <1>2, <2>1 DEF Timeout, TypeOK, Clients
    <2> QED
      BY <1>2, <2>2 DEF Timeout, TypeOK
  <1>3. CASE Tick
    BY <1>3 DEF Tick, TypeOK
  <1>4. ASSUME NEW h \in Handlers, NEW p \in packets, Receive(h, p) PROVE TypeOK'
    <2>1. PICK s \in Sessions, a \in {Issuer[p.operationId], Null} :
            handler' = [handler EXCEPT
              ![h] = [pc |-> "validate", session |-> session[s], request |-> p,
                      actor |-> a, result |-> Success]]
      BY <1>4 DEF Receive
    <2>2. p \in Metadata /\ session[s] \in SessionValues
      BY DEF TypeOK
    <2>3. a \in Actors \cup {Null}
      BY <2>2 DEF Metadata
    <2>4. [pc |-> "validate", session |-> session[s], request |-> p,
           actor |-> a, result |-> Success] \in Tasks
      BY <2>2, <2>3 DEF Tasks, Success, Results
    <2> QED
      BY <1>4, <2>1, <2>4 DEF Receive, TypeOK
  <1>5. ASSUME NEW h \in Handlers, ValidateStep(h) PROVE TypeOK'
    <2>1. handler[h] \in Tasks
      BY <1>5 DEF ValidateStep, TypeOK, NoTask
    <2>2. PICK now \in {clock, Null} :
            Outcome(h, Validate(handler[h].session, handler[h].request,
                                handler[h].actor, now), "authorize")
      BY <1>5 DEF ValidateStep
    <2>4. Validate(handler[h].session, handler[h].request, handler[h].actor, now) \in Results
      BY <2>1, ValidateType DEF Tasks, TypeOK
    <2>3. handler' \in [Handlers -> Tasks \cup {NoTask}]
      BY <1>5, <2>2, <2>4, OutcomeType, IdleIsNoTask DEF ValidateStep
    <2> QED
      BY <1>5, <2>3 DEF ValidateStep, TypeOK
  <1>6. ASSUME NEW h \in Handlers, AuthorizeStep(h) PROVE TypeOK'
    <2>1. Authorize(handler[h].actor) \in Results
      BY DEF Authorize, Success, Failure, Results, ErrorCode
    <2>2. handler' \in [Handlers -> Tasks \cup {NoTask}]
      BY <1>6, <2>1, OutcomeType, IdleIsNoTask DEF AuthorizeStep
    <2> QED
      BY <1>6, <2>2 DEF AuthorizeStep, TypeOK
  <1>7. ASSUME NEW h \in Handlers, Commit(h) PROVE TypeOK'
    <2> DEFINE t == handler[h]
               g == Current(h)
    <2>1. t \in Tasks
      BY <1>7 DEF Commit, TypeOK, NoTask
    <2>2. g \in SessionValues /\ g.sessionId \in Sessions
      BY <2>1 DEF Tasks, SessionValues, Current, TypeOK
    <2>3. t.actor \in Actors
      BY <1>7, <2>1 DEF Commit, Validated, TaskValidated
    <2>4. NextRevision(g.revision) \in Revisions
      BY <1>7, <2>2 DEF Commit, NextRevision, Revisions, SessionValues
    <2>5. Open(g.sessionId, g.actor, g.expiresAt, NextRevision(g.revision)) \in SessionValues
      BY <2>2, <2>4 DEF Open, SessionValues
    <2>6. session' \in [Sessions -> SessionValues]
      BY <1>7, <2>5 DEF Commit, TypeOK
    <2>7. [operationId |-> t.request.operationId, requestId |-> t.request.requestId,
           actor |-> t.actor, sessionId |-> g.sessionId,
           expectedVersion |-> t.request.expectedVersion, takes |-> g.revision] \in Commits
      BY <2>1, <2>2, <2>3 DEF Tasks, Metadata, SessionValues, Commits
    <2>8. ledger' \subseteq Commits
      BY <1>7, <2>7 DEF Commit, TypeOK
    <2>9. handler' \in [Handlers -> Tasks \cup {NoTask}]
      <3>1. Success \in Results
        BY DEF Success, Results
      <3> QED
        BY <1>7, <3>1, OutcomeType, IdleIsNoTask DEF Commit
    <2> QED
      BY <1>7, <2>6, <2>8, <2>9 DEF Commit, TypeOK
  <1>8. ASSUME NEW h \in Handlers, Abort(h) PROVE TypeOK'
    <2>1. PICK code \in ErrorCode \ {"revision_conflict"} : Outcome(h, Failure(code), "emit")
      BY <1>8, AbortCause
    <2>3. Failure(code) \in Results
      BY DEF Failure, Results
    <2>2. handler' \in [Handlers -> Tasks \cup {NoTask}]
      BY <1>8, <2>1, <2>3, OutcomeType, IdleIsNoTask DEF Abort
    <2> QED
      BY <1>8, <2>2 DEF Abort, TypeOK
  <1>9. ASSUME NEW h \in Handlers, Emit(h) PROVE TypeOK'
    <2>1. handler[h] \in Tasks
      BY <1>9 DEF Emit, TypeOK, NoTask
    <2>2. handler[h].actor \in Actors
      BY <1>9, <2>1 DEF Emit, Validated, TaskValidated
    <2>3. [requestId |-> handler[h].request.requestId,
           operationId |-> handler[h].request.operationId,
           actor |-> handler[h].actor] \in Envelopes
      BY <2>1, <2>2 DEF Tasks, Metadata, Envelopes
    <2>4. Success \in Results
      BY DEF Success, Results
    <2>5. handler' \in [Handlers -> Tasks \cup {NoTask}]
      BY <1>9, <2>4, OutcomeType, IdleIsNoTask DEF Emit
    <2> QED
      BY <1>9, <2>3, <2>5 DEF Emit, TypeOK
  <1>10. ASSUME NEW h \in Handlers, Reply(h) PROVE TypeOK'
    <2> DEFINE o == handler[h].request.operationId
               result == handler[h].result
    <2>1. handler[h] \in Tasks
      BY <1>10 DEF Reply, TypeOK, NoTask
    <2>2. o \in Operations /\ client[o] \in Clients /\ result \in Results
          /\ handler[h].request.requestId \in RequestIds
      BY <2>1 DEF Tasks, Metadata, TypeOK
    <2>3. Answered(client[o], result) \in Clients
      <3>1. result.code = "revision_conflict" => result.parameters.currentVersion \in Revisions
        BY <2>2 DEF Results, Parameters
      <3> QED
        BY <2>2, <3>1 DEF Answered, Clients
    <2>4. client' \in [Operations -> Clients]
      BY <1>10, <2>2, <2>3 DEF Reply, TypeOK
    <2>5. conflicted' \subseteq RequestIds
      BY <1>10, <2>2 DEF Reply, TypeOK
    <2>6. handler' \in [Handlers -> Tasks \cup {NoTask}]
      BY <1>10 DEF Reply, TypeOK
    <2> QED
      BY <1>10, <2>4, <2>5, <2>6 DEF Reply, TypeOK
  <1>11. ASSUME NEW h \in Handlers, Crash(h) PROVE TypeOK'
    BY <1>11 DEF Crash, TypeOK
  <1>12. CASE UNCHANGED vars
    BY <1>12 DEF vars, TypeOK
  <1> QED
    BY <1>1, <1>2, <1>3, <1>4, <1>5, <1>6, <1>7, <1>8, <1>9, <1>10, <1>11, <1>12
    DEF Next, Serve

-----------------------------------------------------------------------------
\* A handler step changes its own task only.
LEMMA OutcomeOthers ==
    ASSUME TypeOK, NEW h \in Handlers, NEW result, NEW next, Outcome(h, result, next)
    PROVE  \A k \in Handlers \ {h} : handler'[k] = handler[k]
  BY DEF Outcome, TypeOK

\* What the step does to its own task.
LEMMA OutcomeOwn ==
    ASSUME TypeOK, NEW h \in Handlers, handler[h].pc # "idle",
           NEW result, NEW next, Outcome(h, result, next)
    PROVE  /\ handler'[h].session = handler[h].session
           /\ handler'[h].request = handler[h].request
           /\ handler'[h].actor = handler[h].actor
           /\ handler'[h].result = result
           /\ handler'[h].pc = IF result.code = "success" THEN next ELSE "reply"
  <1>1. handler[h] \in Tasks
    BY DEF TypeOK, NoTask
  <1> QED
    BY <1>1 DEF Outcome, TypeOK, Tasks

LEMMA InitValidated == Init => Validated
  BY BoundaryAssumption DEF Init, Validated, Open, NoTask

LEMMA NextValidated == TypeOK /\ Validated /\ [Next]_vars => Validated'
  <1> SUFFICES ASSUME TypeOK, Validated, [Next]_vars PROVE Validated'
    OBVIOUS
  <1> USE BoundaryAssumption
  <1>1. ASSUME session' = session, handler' = handler PROVE Validated'
    BY <1>1 DEF Validated, TaskValidated
  <1>2. ASSUME NEW h \in Handlers, NEW p \in packets, Receive(h, p) PROVE Validated'
    <2>1. PICK s \in Sessions, a \in {Issuer[p.operationId], Null} :
            handler' = [handler EXCEPT
              ![h] = [pc |-> "validate", session |-> session[s], request |-> p,
                      actor |-> a, result |-> Success]]
      BY <1>2 DEF Receive
    <2>2. /\ handler'[h].pc = "validate"
          /\ handler'[h].session = session[s]
          /\ \A k \in Handlers \ {h} : handler'[k] = handler[k]
      BY <2>1 DEF TypeOK
    <2> QED
      BY <1>2, <2>2 DEF Receive, Validated, TaskValidated
  <1>3. ASSUME NEW h \in Handlers, ValidateStep(h) PROVE Validated'
    <2>0. PICK now \in {clock, Null} :
            Outcome(h, Validate(handler[h].session, handler[h].request,
                                handler[h].actor, now), "authorize")
      BY <1>3 DEF ValidateStep
    <2> DEFINE result == Validate(handler[h].session, handler[h].request, handler[h].actor, now)
    <2>1. handler[h] \in Tasks
      BY <1>3 DEF ValidateStep, TypeOK, NoTask
    <2>2. result.code = "success" =>
            /\ handler[h].session.sessionId = handler[h].request.sessionId
            /\ handler[h].actor = handler[h].session.actor
      BY <2>1 DEF Validate, Mismatched, Stale, Conflict, Success, Failure, FailureWith
    <2>3. TaskValidated(handler'[h])
      BY <1>3, <2>0, <2>2, OutcomeOwn DEF ValidateStep, Validated, TaskValidated
    <2> QED
      BY <1>3, <2>0, <2>3, OutcomeOwn, OutcomeOthers DEF ValidateStep, Validated, TaskValidated
  <1>4. ASSUME NEW h \in Handlers, AuthorizeStep(h) PROVE Validated'
    <2>1. Authorize(handler[h].actor).code = "success" => handler[h].actor \in Granted
      BY DEF Authorize, Failure, Success
    <2>2. TaskValidated(handler'[h])
      BY <1>4, <2>1, OutcomeOwn DEF AuthorizeStep, Validated, TaskValidated
    <2> QED
      BY <1>4, <2>2, OutcomeOwn, OutcomeOthers DEF AuthorizeStep, Validated, TaskValidated
  <1>5. ASSUME NEW h \in Handlers, Commit(h) PROVE Validated'
    <2>1. handler[h] \in Tasks
      BY <1>5 DEF Commit, TypeOK, NoTask
    <2>2. \A s \in Sessions : session'[s].sessionId = s /\ session'[s].actor = Owner[s]
      BY <1>5, <2>1 DEF Commit, Validated, Open, Current, TypeOK, Tasks, SessionValues
    <2>3. TaskValidated(handler'[h])
      BY <1>5, OutcomeOwn DEF Commit, Validated, TaskValidated
    <2> QED
      BY <1>5, <2>2, <2>3, OutcomeOwn, OutcomeOthers DEF Commit, Validated
  <1>6. ASSUME NEW h \in Handlers, NEW result, NEW next \in {"reply", "emit"},
               handler[h].pc \in {"execute", "emit"}, Outcome(h, result, next),
               session' = session
        PROVE  Validated'
    BY <1>6, OutcomeOwn, OutcomeOthers DEF Validated, TaskValidated
  <1>7. ASSUME NEW h \in Handlers, Abort(h) PROVE Validated'
    BY <1>6, <1>7 DEF Abort
  <1>8. ASSUME NEW h \in Handlers, Emit(h) PROVE Validated'
    BY <1>6, <1>8 DEF Emit
  <1>9. ASSUME NEW h \in Handlers, Reply(h) \/ Crash(h) PROVE Validated'
    BY <1>9 DEF Reply, Crash, Validated, NoTask, TypeOK
  <1> QED
    BY <1>1, <1>2, <1>3, <1>4, <1>5, <1>7, <1>8, <1>9
    DEF Next, Serve, Send, Timeout, Tick, vars

\* Every reachable state is well typed, and no task got past a check it failed.
THEOREM TypeCorrect == Spec => []TypeOK
  <1>1. Init => TypeOK /\ Validated
    BY InitType, InitValidated
  <1>2. TypeOK /\ Validated /\ [Next]_vars => (TypeOK /\ Validated)'
    BY NextType, NextValidated
  <1> QED
    BY <1>1, <1>2, PTL DEF Spec

-----------------------------------------------------------------------------
(* The safety properties, for any number of handlers *)

\* What a task that reached "emit" or "reply" can count on, and how the session
\* value a task holds relates to the session's present one.
TaskRecorded(t) ==
    /\ t.pc = "emit" => \E c \in ledger :
        /\ c.operationId = t.request.operationId
        /\ c.requestId = t.request.requestId
        /\ c.actor = t.actor
        /\ c.sessionId = t.request.sessionId
    /\ t.pc = "reply" /\ t.result.code \in {"success", "operation_already_processed"} =>
        \E c \in ledger : c.operationId = t.request.operationId
    /\ t.pc # "idle" => t.session.revision <= session[t.session.sessionId].revision

Recorded ==
    /\ \A h \in Handlers : TaskRecorded(handler[h])
    /\ \A c \in ledger : c.actor = Owner[c.sessionId] /\ c.actor \in Granted
    /\ \A s \in Sessions : FirstRevision <= session[s].revision

\* The idempotency store's own promise, from the guard of Commit: no operation is
\* in the ledger twice.
AtMostOnce ==
    \A c, d \in ledger : c.operationId = d.operationId => c = d

Safe == AtMostOnce /\ RevisionsTakenOnce /\ AuditTrail /\ ConflictToldToOwner /\ AppliedIsCommitted

IInv == TypeOK /\ Validated /\ Recorded /\ Safe

LEMMA InitIInv == Init => IInv
  <1> SUFFICES ASSUME Init PROVE IInv
    OBVIOUS
  <1> USE BoundaryAssumption
  <1>1. Recorded
    BY DEF Init, Recorded, TaskRecorded, NoTask, Open
  <1>2. RevisionsTakenOnce
    BY DEF Init, RevisionsTakenOnce, Open
  <1>3. AtMostOnce /\ AuditTrail /\ ConflictToldToOwner /\ AppliedIsCommitted
    BY DEF Init, AtMostOnce, AuditTrail, ConflictToldToOwner, AppliedIsCommitted, NoTask
  <1> QED
    BY <1>1, <1>2, <1>3, InitType, InitValidated DEF IInv, Safe

\* A step that touches no task but h's, leaves the ledger and the sessions
\* alone, and takes h's task where its result allows.
LEMMA QuietStep ==
    ASSUME IInv, UNCHANGED <<session, ledger, events, client>>,
           NEW h \in Handlers, \A k \in Handlers \ {h} : handler'[k] = handler[k],
           TaskRecorded(handler'[h]),
           handler'[h].pc = "reply" /\ handler'[h].result.code = "revision_conflict" =>
             /\ handler'[h].actor = Owner[handler'[h].request.sessionId]
             /\ handler'[h].result.parameters.currentVersion
                  <= session[handler'[h].request.sessionId].revision
             /\ handler'[h].result.parameters.currentVersion # handler'[h].request.expectedVersion
    PROVE  Recorded' /\ Safe'
  <1>1. Recorded'
    BY DEF IInv, Recorded, TaskRecorded
  <1>2. AtMostOnce' /\ RevisionsTakenOnce' /\ AuditTrail' /\ AppliedIsCommitted'
    BY DEF IInv, Safe, AtMostOnce, RevisionsTakenOnce, AuditTrail, AppliedIsCommitted
  <1>3. ConflictToldToOwner'
    BY DEF IInv, Safe, ConflictToldToOwner
  <1> QED
    BY <1>1, <1>2, <1>3 DEF Safe

LEMMA ReceiveSafe ==
    ASSUME IInv, NEW h \in Handlers, NEW p \in packets, Receive(h, p)
    PROVE  Recorded' /\ Safe'
  <1>1. PICK s \in Sessions, a \in {Issuer[p.operationId], Null} :
          handler' = [handler EXCEPT
            ![h] = [pc |-> "validate", session |-> session[s], request |-> p,
                    actor |-> a, result |-> Success]]
    BY DEF Receive
  <1>2. /\ handler'[h].pc = "validate"
        /\ handler'[h].session = session[s]
        /\ \A k \in Handlers \ {h} : handler'[k] = handler[k]
    BY <1>1 DEF IInv, TypeOK
  <1>3. session[s].sessionId = s /\ session[s].revision \in Int
    BY DEF IInv, Validated, TypeOK, SessionValues, Revisions
  <1>4. TaskRecorded(handler'[h])
    BY <1>2, <1>3 DEF TaskRecorded
  <1> QED
    BY <1>2, <1>4, QuietStep DEF Receive

LEMMA ValidateSafe ==
    ASSUME IInv, NEW h \in Handlers, ValidateStep(h)
    PROVE  Recorded' /\ Safe'
  <1>0. PICK now \in {clock, Null} :
          Outcome(h, Validate(handler[h].session, handler[h].request,
                              handler[h].actor, now), "authorize")
    BY DEF ValidateStep
  <1> DEFINE t == handler[h]
             result == Validate(t.session, t.request, t.actor, now)
  <1>1. t \in Tasks /\ t.pc = "validate" /\ TaskRecorded(t)
    BY DEF ValidateStep, IInv, TypeOK, NoTask, Recorded
  <1>2. result.code = "revision_conflict" =>
          /\ t.actor = t.session.actor
          /\ t.session.sessionId = t.request.sessionId
          /\ result.parameters.currentVersion = t.session.revision
          /\ t.session.revision # t.request.expectedVersion
    BY <1>1 DEF Validate, Mismatched, Stale, Conflict, Success, Failure, FailureWith
  <1>3. t.session.actor = Owner[t.session.sessionId]
    BY <1>1 DEF IInv, Validated
  <1>4. result.code # "operation_already_processed"
    BY DEF Validate, Mismatched, Stale, Conflict, Success, Failure, FailureWith
  <1>5. TaskRecorded(handler'[h])
    BY <1>0, <1>1, <1>4, OutcomeOwn DEF ValidateStep, TaskRecorded, IInv
  <1> QED
    BY <1>0, <1>1, <1>2, <1>3, <1>5, QuietStep, OutcomeOwn, OutcomeOthers
    DEF ValidateStep, TaskRecorded, IInv

LEMMA AuthorizeSafe ==
    ASSUME IInv, NEW h \in Handlers, AuthorizeStep(h)
    PROVE  Recorded' /\ Safe'
  <1>1. handler[h].pc = "authorize" /\ TaskRecorded(handler[h])
    BY DEF AuthorizeStep, IInv, Recorded
  <1>2. Authorize(handler[h].actor).code \in {"success", "permission_denied"}
    BY DEF Authorize, Success, Failure
  <1>3. TaskRecorded(handler'[h])
    BY <1>1, <1>2, OutcomeOwn DEF AuthorizeStep, TaskRecorded, IInv
  <1> QED
    BY <1>1, <1>2, <1>3, QuietStep, OutcomeOwn, OutcomeOthers DEF AuthorizeStep, IInv

LEMMA AbortSafe ==
    ASSUME IInv, NEW h \in Handlers, Abort(h)
    PROVE  Recorded' /\ Safe'
  <1>1. handler[h].pc = "execute" /\ TaskRecorded(handler[h])
    BY DEF Abort, IInv, Recorded
  <1>2. PICK code \in ErrorCode \ {"revision_conflict"} :
          /\ Outcome(h, Failure(code), "emit")
          /\ code = "operation_already_processed" => AlreadyProcessed(handler[h].request)
    BY AbortCause
  <1>3. Failure(code).code = code /\ code # "success"
    BY DEF Failure, ErrorCode
  <1>4. TaskRecorded(handler'[h])
    BY <1>1, <1>2, <1>3, OutcomeOwn DEF Abort, TaskRecorded, IInv, AlreadyProcessed
  <1> QED
    BY <1>1, <1>2, <1>3, <1>4, QuietStep, OutcomeOwn, OutcomeOthers DEF Abort, IInv

\* The commit takes the session's present revision, whatever value the handler
\* holds, and an operation that is not in the ledger.
LEMMA CommitSafe ==
    ASSUME IInv, NEW h \in Handlers, Commit(h)
    PROVE  Recorded' /\ Safe'
  <1> USE BoundaryAssumption
  <1> DEFINE t == handler[h]
             s == t.session.sessionId
             g == session[s]
             new == [operationId |-> t.request.operationId, requestId |-> t.request.requestId,
                     actor |-> t.actor, sessionId |-> s,
                     expectedVersion |-> t.request.expectedVersion, takes |-> g.revision]
  <1>1. t \in Tasks /\ t.pc = "execute" /\ s \in Sessions
    BY DEF Commit, IInv, TypeOK, NoTask, Tasks, SessionValues
  <1>2. /\ t.session.sessionId = t.request.sessionId
        /\ t.actor = Owner[t.request.sessionId]
        /\ t.actor \in Granted
        /\ g.sessionId = s
    BY <1>1 DEF IInv, Validated, TaskValidated
  <1>3. g.revision \in Nat /\ FirstRevision <= g.revision
    BY <1>1 DEF IInv, TypeOK, SessionValues, Revisions, Recorded
  <1>4. /\ ledger' = ledger \cup {new}
        /\ session' = [session EXCEPT ![s] = Open(s, g.actor, g.expiresAt, g.revision + 1)]
    BY <1>2 DEF Commit, Current, NextRevision
  <1>5. /\ session'[s].revision = g.revision + 1
        /\ \A r \in Sessions \ {s} : session'[r] = session[r]
    BY <1>1, <1>4 DEF Open, IInv, TypeOK
  <1>6. /\ handler'[h].pc = "emit"
        /\ handler'[h].session = t.session
        /\ handler'[h].request = t.request
        /\ handler'[h].actor = t.actor
        /\ \A k \in Handlers \ {h} : handler'[k] = handler[k]
    BY <1>1, OutcomeOwn, OutcomeOthers DEF Commit, IInv, Success
  <1>7. \A r \in Sessions :
          /\ session[r].revision \in Int /\ session'[r].revision \in Int
          /\ session[r].revision <= session'[r].revision
    BY <1>3, <1>5 DEF IInv, TypeOK, SessionValues, Revisions
  <1>8. \A k \in Handlers : handler[k].pc # "idle" =>
          /\ handler[k].session.sessionId \in Sessions
          /\ handler[k].session.revision \in Int
          /\ handler[k].request.sessionId \in Sessions
    BY DEF IInv, TypeOK, NoTask, Tasks, SessionValues, Metadata, Revisions
  <1>9. Recorded'
    <2>1. TaskRecorded(handler[h])'
      <3>1. new \in ledger'
        BY <1>4
      <3>2. handler'[h].session.revision <= session'[s].revision
        BY <1>1, <1>6, <1>7, <1>8 DEF IInv, Recorded, TaskRecorded
      <3> QED
        BY <1>2, <1>6, <3>1, <3>2 DEF TaskRecorded
    <2>2. ASSUME NEW k \in Handlers \ {h} PROVE TaskRecorded(handler[k])'
      <3>1. handler'[k] = handler[k] /\ TaskRecorded(handler[k]) /\ ledger \subseteq ledger'
        BY <1>4, <1>6 DEF IInv, Recorded
      <3>2. handler[k].pc # "idle" =>
              handler[k].session.revision <= session'[handler[k].session.sessionId].revision
        BY <1>7, <1>8, <3>1 DEF TaskRecorded
      <3> QED
        BY <3>1, <3>2 DEF TaskRecorded
    <2>3. \A c \in ledger' : c.actor = Owner[c.sessionId] /\ c.actor \in Granted
      BY <1>2, <1>4 DEF IInv, Recorded
    <2>4. \A r \in Sessions : FirstRevision <= session'[r].revision
      BY <1>7 DEF IInv, Recorded
    <2> QED
      BY <2>1, <2>2, <2>3, <2>4 DEF Recorded
  <1>10. AtMostOnce'
    BY <1>4 DEF Commit, AlreadyProcessed, IInv, Safe, AtMostOnce
  <1>11. RevisionsTakenOnce'
    <2>1. \A c \in ledger : c.sessionId \in Sessions /\ c.takes \in Int
      BY DEF IInv, TypeOK, Commits, Revisions
    <2>2. ASSUME NEW r \in Sessions, NEW n \in FirstRevision..(session'[r].revision - 1)
          PROVE  \E c \in ledger' : c.sessionId = r /\ c.takes = n
      <3>1. CASE n \in FirstRevision..(session[r].revision - 1)
        BY <1>4, <3>1 DEF IInv, Safe, RevisionsTakenOnce
      <3>2. CASE n \notin FirstRevision..(session[r].revision - 1)
        <4>1. r = s /\ n = g.revision
          BY <1>3, <1>5, <3>2
        <4>2. new \in ledger' /\ new.sessionId = s /\ new.takes = g.revision
          BY <1>4
        <4> QED
          BY <4>1, <4>2
      <3> QED
        BY <3>1, <3>2
    <2>3. ASSUME NEW c \in ledger' PROVE c.takes < session'[c.sessionId].revision
      <3>1. CASE c \in ledger
        <4>1. c.takes < session[c.sessionId].revision
          BY <3>1 DEF IInv, Safe, RevisionsTakenOnce
        <4> QED
          BY <1>7, <2>1, <3>1, <4>1
      <3>2. CASE c = new
        BY <1>3, <1>5, <3>2
      <3> QED
        BY <1>4, <3>1, <3>2
    <2>4. \A c \in ledger : c.sessionId = s => c.takes # g.revision
      BY <1>3, <2>1 DEF IInv, Safe, RevisionsTakenOnce
    <2>5. \A c, d \in ledger' : c.sessionId = d.sessionId /\ c.takes = d.takes => c = d
      BY <1>4, <2>4 DEF IInv, Safe, RevisionsTakenOnce
    <2> QED
      BY <2>2, <2>3, <2>5 DEF RevisionsTakenOnce
  <1>12. AuditTrail' /\ AppliedIsCommitted'
    BY <1>4 DEF Commit, IInv, Safe, AuditTrail, AppliedIsCommitted
  <1>13. ConflictToldToOwner'
    <2> SUFFICES ASSUME NEW k \in Handlers, handler'[k].pc = "reply",
                        handler'[k].result.code = "revision_conflict"
                 PROVE  /\ handler'[k].actor = Owner[handler'[k].request.sessionId]
                        /\ handler'[k].result.parameters.currentVersion
                             <= session'[handler'[k].request.sessionId].revision
                        /\ handler'[k].result.parameters.currentVersion
                             # handler'[k].request.expectedVersion
      BY DEF ConflictToldToOwner
    <2>1. handler'[k] = handler[k]
      BY <1>6
    <2> DEFINE v == handler[k].result.parameters.currentVersion
               r == handler[k].request.sessionId
    <2>2. v \in Int
      BY <2>1 DEF IInv, TypeOK, Tasks, NoTask, Results, Parameters, Revisions
    <2>3. /\ handler[k].actor = Owner[r]
          /\ v <= session[r].revision
          /\ v # handler[k].request.expectedVersion
      BY <2>1 DEF IInv, Safe, ConflictToldToOwner
    <2>4. r \in Sessions
      BY <1>8, <2>1
    <2>5. v <= session'[r].revision
      <3>1. /\ session[r].revision \in Int /\ session'[r].revision \in Int
            /\ session[r].revision <= session'[r].revision
        BY <1>7, <2>4
      <3> HIDE DEF v, r
      <3> QED
        BY <2>2, <2>3, <3>1
    <2> QED
      BY <2>1, <2>3, <2>5
  <1> QED
    BY <1>9, <1>10, <1>11, <1>12, <1>13 DEF Safe

LEMMA EmitSafe ==
    ASSUME IInv, NEW h \in Handlers, Emit(h)
    PROVE  Recorded' /\ Safe'
  <1> DEFINE t == handler[h]
             new == [requestId |-> t.request.requestId,
                     operationId |-> t.request.operationId, actor |-> t.actor]
  <1>1. t.pc = "emit" /\ events' = events \cup {new}
    BY DEF Emit
  <1>2. PICK c \in ledger :
          /\ c.operationId = t.request.operationId
          /\ c.requestId = t.request.requestId
          /\ c.actor = t.actor
    BY <1>1 DEF IInv, Recorded, TaskRecorded
  <1>3. c.actor = Owner[c.sessionId] /\ c.actor \in Granted
    BY DEF IInv, Recorded
  <1>4. /\ handler'[h].pc = "reply"
        /\ handler'[h].result.code = "success"
        /\ handler'[h].session = t.session
        /\ handler'[h].request = t.request
        /\ \A k \in Handlers \ {h} : handler'[k] = handler[k]
    BY <1>1, OutcomeOwn, OutcomeOthers DEF Emit, IInv, Success
  <1>5. Recorded'
    BY <1>1, <1>2, <1>4 DEF Emit, IInv, Recorded, TaskRecorded
  <1>6. AuditTrail'
    <2>1. \A e \in events' : \E d \in ledger :
            /\ d.operationId = e.operationId
            /\ d.requestId = e.requestId
            /\ d.actor = e.actor
            /\ e.actor = Owner[d.sessionId]
            /\ e.actor \in Granted
      BY <1>1, <1>2, <1>3 DEF IInv, Safe, AuditTrail
    <2>2. \A e, f \in events' : e.operationId = f.operationId =>
            e.requestId = f.requestId /\ e.actor = f.actor
      BY <2>1 DEF IInv, Safe, AtMostOnce
    <2>3. \A e, f \in events' : e.operationId = f.operationId => e = f
      <3>1. events' \subseteq Envelopes
        <4>1. t \in Tasks
          BY <1>1 DEF IInv, TypeOK, NoTask
        <4>2. t.actor \in Actors
          BY <1>1, BoundaryAssumption DEF IInv, Validated, TaskValidated
        <4> QED
          BY <1>1, <4>1, <4>2 DEF IInv, TypeOK, Tasks, Metadata, Envelopes
      <3> QED
        BY <2>2, <3>1 DEF Envelopes
    <2> QED
      BY <2>1, <2>3 DEF Emit, AuditTrail
  <1>7. AtMostOnce' /\ RevisionsTakenOnce' /\ AppliedIsCommitted' /\ ConflictToldToOwner'
    BY <1>4 DEF Emit, IInv, Safe, AtMostOnce, RevisionsTakenOnce, AppliedIsCommitted,
                ConflictToldToOwner
  <1> QED
    BY <1>5, <1>6, <1>7 DEF Safe

LEMMA ReplySafe ==
    ASSUME IInv, NEW h \in Handlers, Reply(h)
    PROVE  Recorded' /\ Safe'
  <1> DEFINE o == handler[h].request.operationId
             result == handler[h].result
  <1>1. handler' = [handler EXCEPT ![h] = NoTask] /\ handler[h].pc = "reply"
    BY DEF Reply
  <1>2. o \in Operations /\ client[o] \in Clients
    BY <1>1 DEF IInv, TypeOK, NoTask, Tasks, Metadata
  <1>3. Answered(client[o], result).state = "applied" =>
          result.code \in {"success", "operation_already_processed"}
    BY <1>2 DEF Answered, Clients
  <1>4. AppliedIsCommitted'
    <2>1. client' = client \/ client' = [client EXCEPT ![o] = Answered(@, result)]
      BY DEF Reply
    <2>2. ledger' = ledger /\ client \in [Operations -> Clients]
      BY DEF Reply, IInv, TypeOK
    <2>3. result.code \in {"success", "operation_already_processed"} =>
            \E c \in ledger : c.operationId = o
      BY <1>1 DEF IInv, Recorded, TaskRecorded
    <2> HIDE DEF o, result
    <2>4. Answered(client[o], result).state = "applied" => \E c \in ledger : c.operationId = o
      BY <1>3, <2>3
    <2>5. ASSUME NEW n \in Operations, client'[n].state = "applied"
          PROVE  client[n].state = "applied" \/ \E c \in ledger : c.operationId = n
      BY <2>1, <2>2, <2>4, <2>5
    <2> QED
      BY <2>2, <2>5 DEF IInv, Safe, AppliedIsCommitted
  <1>5. Recorded' /\ ConflictToldToOwner'
    BY <1>1 DEF Reply, IInv, Safe, Recorded, TaskRecorded, ConflictToldToOwner, NoTask, TypeOK
  <1>6. AtMostOnce' /\ RevisionsTakenOnce' /\ AuditTrail'
    BY DEF Reply, IInv, Safe, AtMostOnce, RevisionsTakenOnce, AuditTrail
  <1> QED
    BY <1>4, <1>5, <1>6 DEF Safe

LEMMA NextIInv == IInv /\ [Next]_vars => IInv'
  <1> SUFFICES ASSUME IInv, [Next]_vars PROVE IInv'
    OBVIOUS
  <1>1. TypeOK' /\ Validated'
    BY NextType, NextValidated DEF IInv
  <1>2. ASSUME UNCHANGED <<session, handler, ledger, events>>,
               \A o \in Operations : client'[o].state = "applied" => client[o].state = "applied"
        PROVE  Recorded' /\ Safe'
    BY <1>2 DEF IInv, Recorded, TaskRecorded, Safe, AtMostOnce, RevisionsTakenOnce,
                AuditTrail, ConflictToldToOwner, AppliedIsCommitted
  <1>3. ASSUME NEW o \in Operations, Send(o) \/ Timeout(o) PROVE Recorded' /\ Safe'
    <2>1. \A p \in Operations : client[p] \in Clients
      BY DEF IInv, TypeOK
    <2>2. \A p \in Operations : client'[p].state = "applied" => client[p].state = "applied"
      BY <1>3, <2>1 DEF Send, Timeout, Clients, IInv, TypeOK
    <2> QED
      BY <1>2, <1>3, <2>2 DEF Send, Timeout
  <1>4. ASSUME NEW h \in Handlers, Crash(h) PROVE Recorded' /\ Safe'
    <2>1. TaskRecorded(NoTask) /\ NoTask.pc = "idle"
      BY DEF TaskRecorded, NoTask
    <2>2. handler'[h] = NoTask /\ \A k \in Handlers \ {h} : handler'[k] = handler[k]
      BY <1>4 DEF Crash, IInv, TypeOK
    <2> QED
      BY <1>4, <2>1, <2>2, QuietStep DEF Crash
  <1>5. ASSUME Tick \/ UNCHANGED vars PROVE Recorded' /\ Safe'
    BY <1>2, <1>5 DEF Tick, vars
  <1>6. Recorded' /\ Safe'
    BY <1>3, <1>4, <1>5, ReceiveSafe, ValidateSafe, AuthorizeSafe, AbortSafe, CommitSafe,
       EmitSafe, ReplySafe DEF Next, Serve
  <1> QED
    BY <1>1, <1>6 DEF IInv

LEMMA Invariance == Spec => []IInv
  <1> QED
    BY InitIInv, NextIInv, PTL DEF Spec

\* The commits of a session account for its revision one by one, although
\* handlers go by session values that are out of date.
THEOREM RevisionsTakenOnceHolds == Spec => []RevisionsTakenOnce
  BY Invariance, PTL DEF IInv, Safe

\* Every audit envelope has its commit, by the session's authorized owner.
THEOREM AuditTrailHolds == Spec => []AuditTrail
  BY Invariance, PTL DEF IInv, Safe

\* Revisions are told to the session's owner only.
THEOREM ConflictToldToOwnerHolds == Spec => []ConflictToldToOwner
  BY Invariance, PTL DEF IInv, Safe

\* A client that believes its operation applied is right.
THEOREM AppliedIsCommittedHolds == Spec => []AppliedIsCommitted
  BY Invariance, PTL DEF IInv, Safe

-----------------------------------------------------------------------------
(* A serial server implements the abstract ledger *)

OneHandler == \A h, k \in Handlers : h = k

\* With one handler nothing moves a session between the moment a task takes its
\* value and the commit; past validate the request names that very revision.
TaskCurrent(t) ==
    /\ t.pc # "idle" =>
        /\ t.request.sessionId = Target[t.request.operationId]
        /\ t.session.revision = session[t.session.sessionId].revision
    /\ t.pc \in {"authorize", "execute"} => t.request.expectedVersion = t.session.revision

SerialInv ==
    /\ \A p \in packets : p.sessionId = Target[p.operationId]
    /\ \A h \in Handlers : handler[h].pc # "emit" /\ handler[h].pc # "reply" =>
         TaskCurrent(handler[h])

LEMMA InitSerialInv == Init => SerialInv
  BY DEF Init, SerialInv, TaskCurrent, NoTask

LEMMA NextSerialInv == OneHandler /\ IInv /\ SerialInv /\ [Next]_vars => SerialInv'
  <1> SUFFICES ASSUME OneHandler, IInv, SerialInv, [Next]_vars PROVE SerialInv'
    OBVIOUS
  <1> USE BoundaryAssumption
  <1>0. TypeOK
    BY DEF IInv
  <1>1. ASSUME UNCHANGED <<session, handler>>,
               \A p \in packets' : p.sessionId = Target[p.operationId]
        PROVE  SerialInv'
    BY <1>1 DEF SerialInv, TaskCurrent
  <1>2. ASSUME NEW o \in Operations, Send(o) PROVE SerialInv'
    BY <1>1, <1>2 DEF Send, SerialInv
  <1>3. ASSUME (\E o \in Operations : Timeout(o)) \/ Tick \/ UNCHANGED vars PROVE SerialInv'
    BY <1>1, <1>3 DEF Timeout, Tick, vars, SerialInv
  <1>4. ASSUME NEW h \in Handlers, UNCHANGED <<session, packets>>,
               handler'[h].pc # "emit" /\ handler'[h].pc # "reply" => TaskCurrent(handler'[h])
        PROVE  SerialInv'
    BY <1>4 DEF OneHandler, SerialInv, TaskCurrent
  <1>5. ASSUME NEW h \in Handlers, NEW p \in packets, Receive(h, p) PROVE SerialInv'
    <2>1. PICK s \in Sessions, a \in {Issuer[p.operationId], Null} :
            handler' = [handler EXCEPT
              ![h] = [pc |-> "validate", session |-> session[s], request |-> p,
                      actor |-> a, result |-> Success]]
      BY <1>5 DEF Receive
    <2>2. /\ handler'[h].pc = "validate"
          /\ handler'[h].session = session[s]
          /\ handler'[h].request = p
      BY <1>0, <2>1 DEF TypeOK
    <2>3. session[s].sessionId = s
      BY DEF IInv, Validated
    <2>4. TaskCurrent(handler'[h])
      BY <2>2, <2>3 DEF SerialInv, TaskCurrent
    <2> QED
      BY <1>4, <1>5, <2>4 DEF Receive
  <1>6. ASSUME NEW h \in Handlers, ValidateStep(h) PROVE SerialInv'
    <2>0. PICK now \in {clock, Null} :
            Outcome(h, Validate(handler[h].session, handler[h].request,
                                handler[h].actor, now), "authorize")
      BY <1>6 DEF ValidateStep
    <2> DEFINE t == handler[h]
               result == Validate(t.session, t.request, t.actor, now)
    <2>1. result.code = "success" => t.request.expectedVersion = t.session.revision
      BY DEF Validate, Mismatched, Stale, Conflict, Success, Failure, FailureWith
    <2>2. t.pc = "validate" /\ TaskCurrent(t)
      BY <1>6 DEF ValidateStep, SerialInv
    <2>3. handler'[h].pc # "reply" => TaskCurrent(handler'[h])
      BY <1>0, <1>6, <2>0, <2>1, <2>2, OutcomeOwn DEF ValidateStep, TaskCurrent
    <2> QED
      BY <1>4, <1>6, <2>3 DEF ValidateStep
  <1>7. ASSUME NEW h \in Handlers, AuthorizeStep(h) PROVE SerialInv'
    <2>1. handler[h].pc = "authorize" /\ TaskCurrent(handler[h])
      BY <1>7 DEF AuthorizeStep, SerialInv
    <2>2. handler'[h].pc # "reply" => TaskCurrent(handler'[h])
      BY <1>0, <1>7, <2>1, OutcomeOwn DEF AuthorizeStep, TaskCurrent
    <2> QED
      BY <1>4, <1>7, <2>2 DEF AuthorizeStep
  <1>8. ASSUME NEW h \in Handlers, Commit(h) PROVE SerialInv'
    <2>1. handler'[h].pc = "emit"
      BY <1>0, <1>8, OutcomeOwn DEF Commit, Success
    <2> QED
      BY <1>8, <2>1 DEF Commit, OneHandler, SerialInv
  <1>9. ASSUME NEW h \in Handlers, Abort(h) \/ Emit(h) PROVE SerialInv'
    <2>1. handler'[h].pc = "reply"
      <3>1. CASE Emit(h)
        BY <1>0, <3>1, OutcomeOwn DEF Emit, Success
      <3>2. CASE Abort(h)
        <4>1. PICK code \in ErrorCode \ {"revision_conflict"} : Outcome(h, Failure(code), "emit")
          BY <3>2, AbortCause
        <4>2. Failure(code).code # "success"
          BY DEF Failure, ErrorCode
        <4> QED
          BY <1>0, <3>2, <4>1, <4>2, OutcomeOwn DEF Abort
      <3> QED
        BY <1>9, <3>1, <3>2
    <2> QED
      BY <1>4, <1>9, <2>1 DEF Abort, Emit
  <1>10. ASSUME NEW h \in Handlers, Reply(h) \/ Crash(h) PROVE SerialInv'
    <2>1. handler'[h] = NoTask
      BY <1>0, <1>10 DEF Reply, Crash, TypeOK
    <2> QED
      BY <1>4, <1>10, <2>1 DEF Reply, Crash, TaskCurrent, NoTask
  <1> QED
    BY <1>2, <1>3, <1>5, <1>6, <1>7, <1>8, <1>9, <1>10 DEF Next, Serve

\* A commit is one step of the abstract ledger.
LEMMA CommitApplies ==
    ASSUME IInv, SerialInv, NEW h \in Handlers, Commit(h)
    PROVE  Ledger!Next
  <1> USE BoundaryAssumption
  <1> DEFINE t == handler[h]
             o == t.request.operationId
             s == Target[o]
             new == [operationId |-> o, requestId |-> t.request.requestId,
                     actor |-> t.actor, sessionId |-> s,
                     expectedVersion |-> t.request.expectedVersion,
                     takes |-> session[s].revision]
             Applied(l) == {[operationId |-> c.operationId, version |-> c.expectedVersion] : c \in l}
  <1>1. t \in Tasks /\ t.pc = "execute" /\ o \in Operations /\ s \in Sessions
    BY DEF Commit, IInv, TypeOK, NoTask, Tasks, Metadata
  <1>2. /\ t.session.sessionId = s /\ t.request.sessionId = s
        /\ t.request.expectedVersion = session[s].revision
        /\ session[s].sessionId = s
    BY <1>1 DEF SerialInv, TaskCurrent, IInv, Validated, TaskValidated
  <1>3. session[s].revision \in Nat /\ session[s].revision < MaxRevision
    <2>1. session[s].revision # MaxRevision
      BY <1>2 DEF Commit, Current, NextRevision
    <2>2. session[s].revision \in 0..MaxRevision
      BY <1>1 DEF IInv, TypeOK, SessionValues, Revisions
    <2> HIDE DEF s
    <2> QED
      BY <2>1, <2>2
  <1>4. /\ ledger' = ledger \cup {new}
        /\ session' = [session EXCEPT ![s] =
             Open(s, session[s].actor, session[s].expiresAt, session[s].revision + 1)]
    BY <1>2, <1>3 DEF Commit, Current, NextRevision
  <1>5. Applied(ledger') = Applied(ledger) \cup
          {[operationId |-> o, version |-> [r \in Sessions |-> session[r].revision][s]]}
    <2>1. Applied(ledger') = Applied(ledger) \cup
            {[operationId |-> new.operationId, version |-> new.expectedVersion]}
      <3> HIDE DEF new
      <3> QED
        BY <1>4
    <2>2. new.operationId = o /\ new.expectedVersion = session[s].revision
      BY <1>2
    <2>3. [r \in Sessions |-> session[r].revision][s] = session[s].revision
      BY <1>1
    <2> HIDE DEF new, o, s
    <2> QED
      BY <2>1, <2>2, <2>3
  <1>6. [r \in Sessions |-> session'[r].revision] =
          [[r \in Sessions |-> session[r].revision] EXCEPT ![s] = @ + 1]
    BY <1>1, <1>4 DEF Open, IInv, TypeOK
  <1>7. \A a \in Applied(ledger) : a.operationId # o
    BY DEF Commit, AlreadyProcessed
  <1> HIDE DEF o, s, Applied
  <1> QED
    BY <1>1, <1>3, <1>5, <1>6, <1>7 DEF Ledger!Next, Ledger!Apply, Applied, s

\* With one handler every step is a step of the abstract ledger or leaves it
\* alone: each operation is applied in one step, once, at the revision its
\* client named.
THEOREM SerialImplementsLedger == OneHandler => (Spec => ImplementsLedger)
  <1> SUFFICES ASSUME OneHandler PROVE Spec => ImplementsLedger
    OBVIOUS
  <1>1. Init => Ledger!Init
    BY DEF Init, Ledger!Init, Open
  <1>2. IInv /\ SerialInv /\ [Next]_vars => [Ledger!Next]_(Ledger!ledgerVars)
    <2> SUFFICES ASSUME IInv, SerialInv, [Next]_vars
                 PROVE  Ledger!Next \/ UNCHANGED Ledger!ledgerVars
      OBVIOUS
    <2>1. CASE \E h \in Handlers : Commit(h)
      BY <2>1, CommitApplies
    <2>2. CASE UNCHANGED <<ledger, session>>
      BY <2>2 DEF Ledger!ledgerVars
    <2> QED
      BY <2>1, <2>2 DEF Next, Serve, Send, Timeout, Tick, Receive, ValidateStep,
         AuthorizeStep, Abort, Emit, Reply, Crash, vars
  <1>3. SerialInv /\ IInv /\ [Next]_vars => SerialInv'
    BY NextSerialInv
  <1> QED
    BY <1>1, <1>2, <1>3, InitSerialInv, Invariance, PTL
    DEF Spec, ImplementsLedger, Ledger!Spec

-----------------------------------------------------------------------------
(* What the clients' requests have to do with the revisions *)

\* The requests of an operation are numbered, and name revisions that the
\* client had observed by then; the number of the last one is with the client.
RequestsAge ==
    /\ \A p \in packets :
        /\ p.requestId[1] = p.operationId /\ p.sessionId = Target[p.operationId]
        /\ p.requestId[2] <= client[p.operationId].attempt
        /\ p.expectedVersion <= client[p.operationId].observed
        /\ client[p.operationId].state = "waiting"
              /\ p.requestId[2] = client[p.operationId].attempt =>
           p.expectedVersion = client[p.operationId].observed
    /\ \A p, q \in packets : p.operationId = q.operationId /\ p.requestId[2] <= q.requestId[2] =>
         p.expectedVersion <= q.expectedVersion

\* No client is ahead of its session, and a conflict is about an older revision.
RevisionsAge ==
    /\ \A o \in Operations : client[o].observed <= session[Target[o]].revision
    /\ \A r \in conflicted : r[2] <= client[r[1]].attempt
    /\ \A p \in packets : p.requestId \in conflicted =>
         p.expectedVersion < session[p.sessionId].revision

\* A task has its request from the network, and took its session value later.
TaskAged(t) ==
    t.pc # "idle" =>
        /\ t.request \in packets
        /\ t.session.sessionId = t.request.sessionId =>
             t.request.expectedVersion <= t.session.revision
        /\ t.pc = "reply" /\ t.result.code = "revision_conflict" =>
             t.request.expectedVersion < t.result.parameters.currentVersion

Aged == RequestsAge /\ RevisionsAge /\ \A h \in Handlers : TaskAged(handler[h])

LEMMA InitAged == Init => Aged
  BY BoundaryAssumption
     DEF Init, Aged, RequestsAge, RevisionsAge, TaskAged, NoTask, Open

\* The numbers and revisions are numbers.
LEMMA NumbersType ==
    ASSUME TypeOK
    PROVE  /\ \A s \in Sessions : session[s].revision \in Nat
           /\ \A p \in Metadata : /\ p.operationId \in Operations /\ p.sessionId \in Sessions
                                  /\ p.requestId \in RequestIds /\ p.requestId[2] \in Nat
                                  /\ p.expectedVersion \in Nat
           /\ \A o \in Operations : /\ client[o].observed \in Nat /\ client[o].attempt \in Nat
                                    /\ Target[o] \in Sessions
           /\ \A r \in RequestIds : r[1] \in Operations /\ r[2] \in Nat
  BY BoundaryAssumption DEF TypeOK, SessionValues, Metadata, RequestIds, Clients, Revisions

\* No session goes back.
LEMMA SessionsGrow ==
    ASSUME IInv, [Next]_vars, NEW s \in Sessions
    PROVE  session[s].revision <= session'[s].revision
  <1>1. session[s].revision \in Nat
    BY NumbersType DEF IInv
  <1>2. ASSUME NEW h \in Handlers, Commit(h) PROVE session[s].revision <= session'[s].revision
    <2> DEFINE g == Current(h)
    <2>1. handler[h] \in Tasks
      BY <1>2 DEF Commit, IInv, TypeOK, NoTask
    <2>2. g.sessionId \in Sessions /\ g = session[g.sessionId]
      BY <2>1 DEF Current, IInv, Validated, Tasks, SessionValues
    <2>3. NextRevision(g.revision) = g.revision + 1
      BY <1>2 DEF Commit, NextRevision
    <2>4. session' = [session EXCEPT ![g.sessionId] =
               Open(g.sessionId, g.actor, g.expiresAt, g.revision + 1)]
      BY <1>2, <2>3 DEF Commit
    <2> HIDE DEF g
    <2> QED
      BY <1>1, <2>2, <2>4 DEF Open, IInv, TypeOK
  <1>3. CASE UNCHANGED session
    BY <1>1, <1>3
  <1> QED
    BY <1>2, <1>3 DEF Next, Serve, Send, Timeout, Tick, Receive, ValidateStep, AuthorizeStep,
       Abort, Emit, Reply, Crash, vars

\* A step of the server, short of its answer: no request and no client changes.
LEMMA ServerAged ==
    ASSUME IInv, Aged, [Next]_vars, UNCHANGED <<packets, client, conflicted>>
    PROVE  RequestsAge' /\ RevisionsAge'
  <1>1. RequestsAge'
    BY DEF Aged, RequestsAge
  <1>2. \A s \in Sessions : /\ session[s].revision <= session'[s].revision
                            /\ session[s].revision \in Nat /\ session'[s].revision \in Nat
    <2>1. TypeOK /\ TypeOK'
      BY NextType DEF IInv
    <2>2. \A s \in Sessions : session[s].revision \in Nat /\ session'[s].revision \in Nat
      BY <2>1, BoundaryAssumption DEF TypeOK, SessionValues, Revisions
    <2> QED
      BY <2>2, SessionsGrow
  <1>3. \A p \in packets : p.sessionId \in Sessions /\ p.expectedVersion \in Nat
    BY NumbersType DEF IInv, TypeOK
  <1>4. \A o \in Operations : client[o].observed \in Nat /\ Target[o] \in Sessions
    BY NumbersType DEF IInv
  <1> QED
    BY <1>1, <1>2, <1>3, <1>4 DEF Aged, RevisionsAge

\* A step that changes the task of h only.
LEMMA TaskAgedStep ==
    ASSUME Aged, packets \subseteq packets', NEW h \in Handlers, TaskAged(handler[h])',
           \A k \in Handlers \ {h} : handler'[k] = handler[k]
    PROVE  \A k \in Handlers : TaskAged(handler[k])'
  BY DEF Aged, TaskAged

LEMMA SendAged ==
    ASSUME IInv, Aged, NEW o \in Operations, Send(o)
    PROVE  Aged'
  <1> DEFINE n == client[o].attempt + 1
             new == [requestId |-> <<o, n>>, operationId |-> o,
                     sessionId |-> Target[o], expectedVersion |-> client[o].observed]
  <1>1. /\ packets' = packets \cup {new}
        /\ client' = [client EXCEPT ![o].state = "waiting", ![o].attempt = n]
        /\ UNCHANGED <<session, handler, conflicted>>
    BY DEF Send
  <1>2. /\ \A q \in Operations : client'[q].observed = client[q].observed
        /\ client'[o].attempt = n
        /\ \A q \in Operations \ {o} : client'[q] = client[q]
    BY <1>1 DEF IInv, TypeOK, Clients
  <1>3. /\ new.requestId[1] = o /\ new.requestId[2] = n /\ new.operationId = o
        /\ new.sessionId = Target[o] /\ new.expectedVersion = client[o].observed
    OBVIOUS
  <1>4. \A p \in packets : p \in Metadata
    BY DEF IInv, TypeOK
  <1>5. /\ n \in Nat /\ client[o].attempt < n /\ client[o].observed \in Nat
        /\ \A p \in packets : p.operationId \in Operations /\ p.requestId \in RequestIds
                              /\ p.requestId[2] \in Nat /\ p.expectedVersion \in Nat
        /\ \A r \in conflicted : r \in RequestIds /\ r[1] \in Operations /\ r[2] \in Nat
        /\ \A q \in Operations : client[q].attempt \in Nat
    BY <1>4, NumbersType DEF IInv, TypeOK
  <1> HIDE DEF n, new
  <1>6. RequestsAge'
    <2>1. \A p \in packets' :
            /\ p.requestId[1] = p.operationId /\ p.sessionId = Target[p.operationId]
            /\ p.requestId[2] <= client'[p.operationId].attempt
            /\ p.expectedVersion <= client'[p.operationId].observed
            /\ client'[p.operationId].state = "waiting"
                  /\ p.requestId[2] = client'[p.operationId].attempt =>
               p.expectedVersion = client'[p.operationId].observed
      <3>1. ASSUME NEW p \in packets, p.operationId = o
            PROVE  /\ p.requestId[1] = o /\ p.sessionId = Target[o]
                   /\ p.requestId[2] < n /\ p.expectedVersion <= client[o].observed
        BY <1>5, <3>1 DEF Aged, RequestsAge
      <3>2. ASSUME NEW p \in packets, p.operationId # o
            PROVE  client'[p.operationId] = client[p.operationId]
        BY <1>2, <1>5, <3>2
      <3>3. ASSUME NEW p \in packets, p.operationId = o
            PROVE  p.requestId[2] < client'[o].attempt /\ p.requestId[2] # client'[o].attempt
        BY <1>2, <1>5, <3>1, <3>3
      <3>4. /\ new.requestId[2] <= client'[o].attempt
            /\ new.expectedVersion <= client'[o].observed
            /\ new.expectedVersion = client'[o].observed
        BY <1>2, <1>3, <1>5
      <3>5. \A p \in packets' : p \in packets \/ p = new
        BY <1>1
      <3> SUFFICES ASSUME NEW p \in packets'
                   PROVE  /\ p.requestId[1] = p.operationId /\ p.sessionId = Target[p.operationId]
                          /\ p.requestId[2] <= client'[p.operationId].attempt
                          /\ p.expectedVersion <= client'[p.operationId].observed
                          /\ client'[p.operationId].state = "waiting"
                                /\ p.requestId[2] = client'[p.operationId].attempt =>
                             p.expectedVersion = client'[p.operationId].observed
        OBVIOUS
      <3>6. CASE p = new
        BY <1>3, <3>4, <3>6
      <3>7. CASE p \in packets /\ p.operationId # o
        BY <3>2, <3>7 DEF Aged, RequestsAge
      <3>8. CASE p \in packets /\ p.operationId = o
        BY <1>2, <1>5, <3>1, <3>3, <3>8
      <3> QED
        BY <3>5, <3>6, <3>7, <3>8
    <2>2. \A p \in packets : p.operationId = o =>
            p.requestId[2] < n /\ p.expectedVersion <= client[o].observed
      BY <1>5 DEF Aged, RequestsAge
    <2>3. \A p, q \in packets' :
            p.operationId = q.operationId /\ p.requestId[2] <= q.requestId[2] =>
              p.expectedVersion <= q.expectedVersion
      BY <1>1, <1>3, <1>5, <2>2 DEF Aged, RequestsAge
    <2> QED
      BY <2>1, <2>3 DEF RequestsAge
  <1>7. new.requestId \notin conflicted
    BY <1>3, <1>5 DEF Aged, RevisionsAge
  <1>8. RevisionsAge'
    <2>1. \A q \in Operations : client'[q].observed <= session'[Target[q]].revision
      BY <1>1, <1>2 DEF Aged, RevisionsAge
    <2>2. \A r \in conflicted' : r[2] <= client'[r[1]].attempt
      <3> SUFFICES ASSUME NEW r \in conflicted PROVE r[2] <= client'[r[1]].attempt
        BY <1>1
      <3>1. r[2] <= client[r[1]].attempt /\ r[1] \in Operations /\ r[2] \in Nat
        BY <1>5 DEF Aged, RevisionsAge
      <3>2. CASE r[1] = o
        BY <1>2, <1>5, <3>1, <3>2
      <3>3. CASE r[1] # o
        BY <1>2, <3>1, <3>3
      <3> QED
        BY <3>2, <3>3
    <2>3. \A p \in packets' : p.requestId \in conflicted' =>
            p.expectedVersion < session'[p.sessionId].revision
      BY <1>1, <1>7 DEF Aged, RevisionsAge
    <2> QED
      BY <2>1, <2>2, <2>3 DEF RevisionsAge
  <1>9. \A k \in Handlers : TaskAged(handler[k])'
    BY <1>1 DEF Aged, TaskAged
  <1> QED
    BY <1>6, <1>8, <1>9 DEF Aged

LEMMA TimeoutAged ==
    ASSUME IInv, Aged, NEW o \in Operations, Timeout(o)
    PROVE  Aged'
  <1>1. /\ \A q \in Operations : /\ client'[q].observed = client[q].observed
                                 /\ client'[q].attempt = client[q].attempt
                                 /\ client'[q].state \in {client[q].state, "ready"}
        /\ UNCHANGED <<packets, session, handler, conflicted>>
    BY DEF Timeout, IInv, TypeOK, Clients
  <1>2. /\ \A p \in packets : p.operationId \in Operations
        /\ \A r \in conflicted : r[1] \in Operations
    BY NumbersType DEF IInv, TypeOK
  <1> QED
    BY <1>1, <1>2 DEF Aged, RequestsAge, RevisionsAge, TaskAged

LEMMA ReceiveAged ==
    ASSUME IInv, Aged, NEW h \in Handlers, NEW p \in packets, Receive(h, p)
    PROVE  \A k \in Handlers : TaskAged(handler[k])'
  <1>1. PICK s \in Sessions, a \in {Issuer[p.operationId], Null} :
          handler' = [handler EXCEPT
            ![h] = [pc |-> "validate", session |-> session[s], request |-> p,
                    actor |-> a, result |-> Success]]
    BY DEF Receive
  <1>2. /\ handler'[h].pc = "validate"
        /\ handler'[h].session = session[s] /\ handler'[h].request = p
        /\ \A k \in Handlers \ {h} : handler'[k] = handler[k]
    BY <1>1 DEF IInv, TypeOK
  <1>3. session[s].sessionId = s
    BY DEF IInv, Validated
  <1>4. p \in Metadata
    BY DEF IInv, TypeOK
  <1>5. s = p.sessionId => p.expectedVersion <= session[s].revision
    <2>1. /\ p.operationId \in Operations /\ p.expectedVersion \in Nat
          /\ client[p.operationId].observed \in Nat
          /\ session[s].revision \in Nat
      BY <1>4, NumbersType DEF IInv
    <2> QED
      BY <2>1 DEF Aged, RequestsAge, RevisionsAge
  <1>6. packets' = packets
    BY DEF Receive
  <1>7. TaskAged(handler[h])'
    BY <1>2, <1>3, <1>5, <1>6 DEF TaskAged
  <1> QED
    BY <1>2, <1>6, <1>7, TaskAgedStep

LEMMA ServeAged ==
    ASSUME IInv, Aged, NEW h \in Handlers,
           ValidateStep(h) \/ AuthorizeStep(h) \/ Commit(h) \/ Abort(h) \/ Emit(h)
    PROVE  \A k \in Handlers : TaskAged(handler[k])'
  <1>1. handler[h].pc # "idle" /\ packets' = packets
    BY DEF ValidateStep, AuthorizeStep, Commit, Abort, Emit
  <1>2. handler[h] \in Tasks /\ TaskAged(handler[h])
    BY <1>1 DEF IInv, TypeOK, NoTask, Aged
  <1>3. ASSUME NEW result, NEW next, Outcome(h, result, next),
               result.code = "revision_conflict" =>
                   handler[h].request.expectedVersion < result.parameters.currentVersion
        PROVE  \A k \in Handlers : TaskAged(handler[k])'
    <2>1. TaskAged(handler[h])'
      BY <1>1, <1>2, <1>3, OutcomeOwn DEF TaskAged, IInv
    <2> QED
      BY <1>1, <1>3, <2>1, TaskAgedStep, OutcomeOthers DEF IInv
  <1>4. CASE ValidateStep(h)
    <2>0. PICK now \in {clock, Null} :
            Outcome(h, Validate(handler[h].session, handler[h].request,
                                handler[h].actor, now), "authorize")
      BY <1>4 DEF ValidateStep
    <2> DEFINE t == handler[h]
               result == Validate(t.session, t.request, t.actor, now)
    <2>1. result.code = "revision_conflict" =>
            /\ t.session.sessionId = t.request.sessionId
            /\ result.parameters.currentVersion = t.session.revision
            /\ t.session.revision # t.request.expectedVersion
      BY <1>2 DEF Validate, Mismatched, Stale, Conflict, Success, Failure, FailureWith
    <2>2. t.session.revision \in Nat /\ t.request.expectedVersion \in Nat
      BY <1>2, NumbersType DEF IInv, Tasks, SessionValues, Revisions
    <2>3. result.code = "revision_conflict" =>
            t.request.expectedVersion < result.parameters.currentVersion
      <3> HIDE DEF result
      <3> QED  BY <1>1, <1>2, <2>1, <2>2 DEF TaskAged
    <2> QED
      BY <1>3, <2>0, <2>3
  <1>5. CASE AuthorizeStep(h)
    <2>1. Authorize(handler[h].actor).code # "revision_conflict"
      BY DEF Authorize, Success, Failure
    <2> QED
      BY <1>3, <1>5, <2>1 DEF AuthorizeStep
  <1>6. CASE Commit(h) \/ Emit(h)
    <2>1. Success.code # "revision_conflict"
      BY DEF Success
    <2> QED
      BY <1>3, <1>6, <2>1 DEF Commit, Emit
  <1>7. CASE Abort(h)
    <2>1. PICK code \in ErrorCode \ {"revision_conflict"} : Outcome(h, Failure(code), "emit")
      BY <1>7, AbortCause
    <2>2. Failure(code).code # "revision_conflict"
      BY DEF Failure
    <2> QED
      BY <1>3, <2>1, <2>2
  <1> QED
    BY <1>4, <1>5, <1>6, <1>7

\* An answer that is read: the revision a conflict names is later than the one
\* the client went by.
LEMMA ReplyObserved ==
    ASSUME IInv, Aged, NEW h \in Handlers, Reply(h)
    PROVE  \A o \in Operations :
             /\ client'[o].attempt = client[o].attempt
             /\ client'[o].observed \in Nat
             /\ client[o].observed <= client'[o].observed
             /\ client'[o].observed <= session[Target[o]].revision
             /\ client'[o] = client[o] \/ client'[o].state # "waiting"
  <1> DEFINE t == handler[h]
             o == t.request.operationId
             told == t.result.parameters.currentVersion
  <1>1. t.pc = "reply" /\ t \in Tasks /\ TaskAged(t)
    BY DEF Reply, IInv, TypeOK, NoTask, Aged
  <1>2. /\ t.request \in packets /\ t.request \in Metadata /\ o \in Operations
        /\ t.request.expectedVersion \in Nat
        /\ client[o] \in Clients /\ Target[o] \in Sessions
        /\ client[o].observed \in Nat
    BY <1>1, NumbersType DEF TaskAged, Tasks, IInv, TypeOK
  <1>3. CASE client' = client
    BY <1>3, NumbersType DEF Aged, RevisionsAge, IInv
  <1>4. CASE /\ client' = [client EXCEPT ![o] = Answered(@, t.result)]
             /\ client[o].state = "waiting" /\ t.request.requestId = <<o, client[o].attempt>>
    <2>1. t.request.expectedVersion = client[o].observed
      <3>1. t.request.requestId[2] = client[o].attempt
        BY <1>4
      <3> HIDE DEF t
      <3> QED  BY <1>2, <1>4, <3>1 DEF Aged, RequestsAge
    <2>2. t.result.code = "revision_conflict" =>
            /\ told \in Nat /\ client[o].observed < told
            /\ told <= session[Target[o]].revision
      <3>1. t.request.sessionId = Target[o]
        BY <1>2 DEF Aged, RequestsAge
      <3>2. t.result.code = "revision_conflict" => told \in Nat
        BY <1>1, BoundaryAssumption DEF Tasks, Results, Parameters, Revisions, Success
      <3> QED
        BY <1>1, <2>1, <3>1, <3>2 DEF TaskAged, IInv, Safe, ConflictToldToOwner
    <2>3. /\ Answered(client[o], t.result).attempt = client[o].attempt
          /\ Answered(client[o], t.result).state # "waiting"
          /\ Answered(client[o], t.result).observed =
               IF t.result.code = "revision_conflict" THEN told ELSE client[o].observed
      BY <1>2 DEF Answered, Clients
    <2>4. client'[o] = Answered(client[o], t.result)
          /\ \A q \in Operations \ {o} : client'[q] = client[q]
      BY <1>2, <1>4 DEF IInv, TypeOK
    <2>5. \A q \in Operations : client[q].observed \in Nat
                                /\ client[q].observed <= session[Target[q]].revision
      BY NumbersType DEF Aged, RevisionsAge, IInv
    <2> HIDE DEF o, told, t
    <2> QED
      BY <1>2, <2>2, <2>3, <2>4, <2>5
  <1>5. \/ client' = client
        \/ /\ client' = [client EXCEPT ![o] = Answered(@, t.result)]
           /\ client[o].state = "waiting" /\ t.request.requestId = <<o, client[o].attempt>>
    BY DEF Reply
  <1> QED
    BY <1>3, <1>4, <1>5

LEMMA ReplyAged ==
    ASSUME IInv, Aged, NEW h \in Handlers, Reply(h)
    PROVE  Aged'
  <1> DEFINE t == handler[h]
  <1>1. t.pc = "reply" /\ t \in Tasks /\ TaskAged(t)
    BY DEF Reply, IInv, TypeOK, NoTask, Aged
  <1>2. UNCHANGED <<packets, session>> /\ handler' = [handler EXCEPT ![h] = NoTask]
    BY DEF Reply
  <1>3. /\ \A p \in packets : /\ p \in Metadata
                              /\ p.operationId \in Operations /\ p.requestId[2] \in Nat
                              /\ p.requestId \in RequestIds
                              /\ p.expectedVersion \in Nat
        /\ \A r \in conflicted : r[1] \in Operations
        /\ \A q \in Operations : client[q].observed \in Nat
    BY NumbersType DEF IInv, TypeOK
  <1>4. RequestsAge'
    BY <1>2, <1>3, ReplyObserved DEF Aged, RequestsAge
  <1>5. t.request \in packets /\ t.request.requestId[1] = t.request.operationId
    BY <1>1 DEF TaskAged, Aged, RequestsAge
  <1>6. t.result.code = "revision_conflict" =>
          t.request.expectedVersion < session[t.request.sessionId].revision
    <2>1. t.result.code = "revision_conflict" => t.result.parameters.currentVersion \in Nat
      BY <1>1, BoundaryAssumption DEF Tasks, Results, Parameters, Revisions, Success
    <2>2. session[t.request.sessionId].revision \in Nat
      BY <1>3, <1>5, NumbersType DEF IInv
    <2> QED
      BY <1>1, <1>3, <1>5, <2>1, <2>2 DEF TaskAged, IInv, Safe, ConflictToldToOwner
  <1>7. conflicted' = IF t.result.code = "revision_conflict"
                        THEN conflicted \cup {t.request.requestId} ELSE conflicted
    BY DEF Reply
  <1>8. ASSUME NEW p \in packets, p.requestId = t.request.requestId PROVE p = t.request
    <2>1. p.operationId = t.request.operationId /\ p.sessionId = t.request.sessionId
      BY <1>5, <1>8 DEF Aged, RequestsAge
    <2>2. p.expectedVersion = t.request.expectedVersion
      BY <1>3, <1>5, <1>8, <2>1 DEF Aged, RequestsAge
    <2> QED
      BY <1>3, <1>5, <1>8, <2>1, <2>2 DEF Metadata
  <1>9. RevisionsAge'
    <2>1. \A q \in Operations : /\ client'[q].observed <= session[Target[q]].revision
                                /\ client'[q].attempt = client[q].attempt
      BY ReplyObserved
    <2>2. \A r \in conflicted' : r[2] <= client'[r[1]].attempt
      BY <1>3, <1>5, <1>7, <2>1 DEF Aged, RequestsAge, RevisionsAge
    <2>3. \A p \in packets : p.requestId \in conflicted' =>
            p.expectedVersion < session[p.sessionId].revision
      BY <1>6, <1>7, <1>8 DEF Aged, RevisionsAge
    <2> QED
      BY <1>2, <2>1, <2>2, <2>3 DEF RevisionsAge
  <1>10. \A k \in Handlers : TaskAged(handler[k])'
    <2>1. handler'[h] = NoTask /\ \A k \in Handlers \ {h} : handler'[k] = handler[k]
      BY <1>2 DEF IInv, TypeOK
    <2>2. TaskAged(handler[h])'
      BY <2>1 DEF TaskAged, NoTask
    <2> QED
      BY <1>2, <2>1, <2>2, TaskAgedStep
  <1> QED
    BY <1>4, <1>9, <1>10 DEF Aged

LEMMA NextAged == IInv /\ Aged /\ [Next]_vars => Aged'
  <1> SUFFICES ASSUME IInv, Aged, [Next]_vars PROVE Aged'
    OBVIOUS
  <1>1. ASSUME NEW o \in Operations, Send(o) \/ Timeout(o) PROVE Aged'
    BY <1>1, SendAged, TimeoutAged
  <1>2. ASSUME NEW h \in Handlers, Reply(h) PROVE Aged'
    BY <1>2, ReplyAged
  <1>3. ASSUME NEW h \in Handlers,
               ValidateStep(h) \/ AuthorizeStep(h) \/ Commit(h) \/ Abort(h) \/ Emit(h)
        PROVE  Aged'
    <2>1. UNCHANGED <<packets, client, conflicted>>
      BY <1>3 DEF ValidateStep, AuthorizeStep, Commit, Abort, Emit
    <2> QED
      BY <1>3, <2>1, ServeAged, ServerAged DEF Aged
  <1>4. ASSUME NEW h \in Handlers, NEW p \in packets, Receive(h, p) PROVE Aged'
    <2>1. UNCHANGED <<packets, client, conflicted>>
      BY <1>4 DEF Receive
    <2> QED
      BY <1>4, <2>1, ReceiveAged, ServerAged DEF Aged
  <1>5. ASSUME NEW h \in Handlers, Crash(h) PROVE Aged'
    <2>1. UNCHANGED <<packets, client, conflicted>>
      BY <1>5 DEF Crash
    <2>2. handler'[h] = NoTask /\ \A k \in Handlers \ {h} : handler'[k] = handler[k]
      BY <1>5 DEF Crash, IInv, TypeOK
    <2>3. TaskAged(handler[h])'
      BY <2>2 DEF TaskAged, NoTask
    <2> QED
      BY <2>1, <2>2, <2>3, TaskAgedStep, ServerAged DEF Aged
  <1>6. ASSUME Tick \/ UNCHANGED vars PROVE Aged'
    <2>1. UNCHANGED <<packets, client, conflicted, handler>>
      BY <1>6 DEF Tick, vars
    <2> QED
      BY <2>1, ServerAged DEF Aged, TaskAged
  <1> QED
    BY <1>1, <1>2, <1>3, <1>4, <1>5, <1>6 DEF Next, Serve

LEMMA AgedHolds == Spec => [](IInv /\ Aged)
  <1>1. IInv /\ Aged /\ [Next]_vars => (IInv /\ Aged)'
    BY NextIInv, NextAged
  <1> QED
    BY <1>1, InitIInv, InitAged, PTL DEF Spec

\* The revision a client goes by never moves back, with any number of handlers:
\* a conflict names a later one.
THEOREM ObservedNeverGoesBackHolds == Spec => ObservedNeverGoesBack
  <1>1. IInv /\ Aged /\ [Next]_vars =>
          \A o \in Operations : client'[o].observed >= client[o].observed
    <2> SUFFICES ASSUME IInv, Aged, [Next]_vars, NEW o \in Operations
                 PROVE  client'[o].observed >= client[o].observed
      OBVIOUS
    <2>1. client[o].observed \in Nat
      BY NumbersType DEF IInv
    <2>2. ASSUME NEW h \in Handlers, Reply(h) PROVE client'[o].observed >= client[o].observed
      BY <2>1, <2>2, ReplyObserved
    <2>3. ASSUME NEW q \in Operations, Send(q) \/ Timeout(q)
          PROVE  client'[o].observed >= client[o].observed
      BY <2>1, <2>3 DEF Send, Timeout, IInv, TypeOK, Clients
    <2>4. CASE UNCHANGED client
      BY <2>1, <2>4
    <2> QED
      BY <2>2, <2>3, <2>4 DEF Next, Serve, Tick, Receive, ValidateStep, AuthorizeStep,
         Commit, Abort, Emit, Crash, vars
  <1> QED
    BY <1>1, AgedHolds, PTL DEF Spec, ObservedNeverGoesBack

-----------------------------------------------------------------------------
(* Conflicts and repeated operations, with one handler *)

\* With one handler a request that was answered with a conflict never commits:
\* a commit takes the very revision its request names, and the session is past
\* the one a conflict was about.
THEOREM ConflictIsFinalHolds == OneHandler => (Spec => ConflictIsFinal)
  <1> SUFFICES ASSUME OneHandler PROVE Spec => ConflictIsFinal
    OBVIOUS
  <1>1. IInv /\ SerialInv /\ Aged /\ [Next]_vars =>
          \A c \in ledger' \ ledger : c.requestId \notin conflicted
    <2> SUFFICES ASSUME IInv, SerialInv, Aged, [Next]_vars, NEW c \in ledger' \ ledger
                 PROVE  c.requestId \notin conflicted
      OBVIOUS
    <2>1. PICK h \in Handlers : Commit(h)
      BY DEF Next, Serve, Send, Timeout, Tick, Receive, ValidateStep, AuthorizeStep,
         Abort, Emit, Reply, Crash, vars
    <2> DEFINE t == handler[h]
    <2>2. c.requestId = t.request.requestId
      BY <2>1 DEF Commit
    <2>3. t.pc = "execute" /\ TaskAged(t) /\ TaskCurrent(t)
      BY <2>1 DEF Commit, Aged, SerialInv
    <2>4. t.session.sessionId = t.request.sessionId
      BY <2>3 DEF IInv, Validated, TaskValidated
    <2>5. /\ t.request \in packets
          /\ t.request.expectedVersion = session[t.request.sessionId].revision
      BY <2>3, <2>4 DEF TaskAged, TaskCurrent
    <2>6. t.request.expectedVersion \in Nat
      BY <2>5, NumbersType DEF IInv, TypeOK
    <2> QED
      BY <2>2, <2>5, <2>6 DEF Aged, RevisionsAge
  <1>2. SerialInv /\ IInv /\ [Next]_vars => SerialInv'
    BY NextSerialInv
  <1> QED
    BY <1>1, <1>2, InitSerialInv, AgedHolds, PTL DEF Spec, ConflictIsFinal

\* A commit took the revision its request named, and the request is still in the
\* network.
LedgerSerial ==
    \A c \in ledger : \E p \in packets :
        /\ c.requestId = p.requestId /\ c.operationId = p.operationId
        /\ c.sessionId = p.sessionId
        /\ c.expectedVersion = p.expectedVersion /\ c.takes = p.expectedVersion

LEMMA NextLedgerSerial ==
    IInv /\ SerialInv /\ Aged /\ LedgerSerial /\ [Next]_vars => LedgerSerial'
  <1> SUFFICES ASSUME IInv, SerialInv, Aged, LedgerSerial, [Next]_vars PROVE LedgerSerial'
    OBVIOUS
  <1>1. packets \subseteq packets'
    BY DEF Next, Serve, Send, Timeout, Tick, Receive, ValidateStep, AuthorizeStep,
       Commit, Abort, Emit, Reply, Crash, vars
  <1>2. CASE UNCHANGED ledger
    BY <1>1, <1>2 DEF LedgerSerial
  <1>3. ASSUME NEW h \in Handlers, Commit(h) PROVE LedgerSerial'
    <2> DEFINE t == handler[h]
               g == Current(h)
               new == [operationId |-> t.request.operationId, requestId |-> t.request.requestId,
                       actor |-> t.actor, sessionId |-> g.sessionId,
                       expectedVersion |-> t.request.expectedVersion, takes |-> g.revision]
    <2>1. ledger' = ledger \cup {new}
      BY <1>3 DEF Commit
    <2>2. t.pc = "execute" /\ TaskAged(t) /\ TaskCurrent(t) /\ t \in Tasks
      BY <1>3 DEF Commit, Aged, SerialInv, IInv, TypeOK, NoTask
    <2>3. t.session.sessionId = t.request.sessionId /\ t.session.sessionId \in Sessions
      BY <2>2 DEF IInv, Validated, TaskValidated, Tasks, SessionValues
    <2>4. g = session[t.request.sessionId] /\ g.sessionId = t.request.sessionId
      BY <2>3 DEF Current, IInv, Validated
    <2>5. t.request \in packets /\ g.revision = t.request.expectedVersion
      BY <2>2, <2>3, <2>4 DEF TaskAged, TaskCurrent
    <2>6. /\ new.requestId = t.request.requestId /\ new.operationId = t.request.operationId
          /\ new.sessionId = t.request.sessionId
          /\ new.expectedVersion = t.request.expectedVersion
          /\ new.takes = t.request.expectedVersion
      BY <2>4, <2>5
    <2> HIDE DEF new
    <2> QED
      BY <1>1, <2>1, <2>5, <2>6 DEF LedgerSerial
  <1> QED
    BY <1>2, <1>3 DEF Next, Serve, Send, Timeout, Tick, Receive, ValidateStep,
       AuthorizeStep, Abort, Emit, Reply, Crash, vars

\* The invariant as it is at one handler.
Refreshed(t) ==
    t.pc = "reply" /\ t.result.code = "operation_already_processed" =>
        \E c \in ledger :
            /\ c.operationId = t.request.operationId
            /\ c.requestId[2] < t.request.requestId[2]
            /\ c.expectedVersion < t.request.expectedVersion

LEMMA AbortRefreshed ==
    ASSUME IInv, SerialInv, Aged, LedgerSerial, NEW h \in Handlers, Abort(h)
    PROVE  Refreshed(handler[h])'
  <1> DEFINE t == handler[h]
  <1>1. t.pc = "execute" /\ TaskAged(t) /\ TaskCurrent(t) /\ t \in Tasks
    BY DEF Abort, Aged, SerialInv, IInv, TypeOK, NoTask
  <1>2. handler'[h].request = t.request /\ ledger' = ledger
    BY <1>1, OutcomeOwn DEF Abort, IInv
  <1>3. CASE ~AlreadyProcessed(t.request)
    <2>0. PICK code \in ErrorCode \ {"revision_conflict"} :
            /\ Outcome(h, Failure(code), "emit")
            /\ code = "operation_already_processed" => AlreadyProcessed(t.request)
      BY AbortCause
    <2>1. handler'[h].result.code # "operation_already_processed"
      BY <1>1, <1>3, <2>0, OutcomeOwn DEF IInv, Failure
    <2> QED  BY <2>1 DEF Refreshed
  <1>4. CASE AlreadyProcessed(t.request)
    <2>1. PICK c \in ledger : c.operationId = t.request.operationId
      BY <1>4 DEF AlreadyProcessed
    <2>2. PICK p \in packets :
            /\ c.requestId = p.requestId /\ c.operationId = p.operationId
            /\ c.sessionId = p.sessionId
            /\ c.expectedVersion = p.expectedVersion /\ c.takes = p.expectedVersion
      BY DEF LedgerSerial
    <2>3. t.request \in packets
      BY <1>1 DEF TaskAged
    <2>4. /\ p.requestId[2] \in Nat /\ p.expectedVersion \in Nat
          /\ t.request.requestId[2] \in Nat /\ t.request.expectedVersion \in Nat
      BY <2>3, NumbersType DEF IInv, TypeOK
    <2>5. p.sessionId = t.request.sessionId
      BY <2>1, <2>2, <2>3 DEF Aged, RequestsAge
    <2>6. t.request.expectedVersion = session[t.request.sessionId].revision
      BY <1>1 DEF TaskCurrent, IInv, Validated, TaskValidated
    <2>7. p.expectedVersion < t.request.expectedVersion
      BY <2>2, <2>5, <2>6 DEF IInv, Safe, RevisionsTakenOnce
    <2>8. p.requestId[2] < t.request.requestId[2]
      <3>1. /\ p.operationId = t.request.operationId
            /\ ~(t.request.expectedVersion <= p.expectedVersion)
        BY <2>1, <2>2, <2>4, <2>7
      <3>2. ~(t.request.requestId[2] <= p.requestId[2])
        BY <2>3, <3>1 DEF Aged, RequestsAge
      <3> QED
        BY <2>4, <3>2
    <2> QED
      BY <1>2, <2>1, <2>2, <2>7, <2>8 DEF Refreshed
  <1> QED
    BY <1>3, <1>4

LEMMA NextRefreshed ==
    ASSUME IInv, SerialInv, Aged, LedgerSerial, AlreadyProcessedNeedsRefresh, [Next]_vars
    PROVE  AlreadyProcessedNeedsRefresh'
  <1>1. ledger \subseteq ledger'
    BY DEF Next, Serve, Send, Timeout, Tick, Receive, ValidateStep, AuthorizeStep,
       Commit, Abort, Emit, Reply, Crash, vars
  <1>2. SUFFICES ASSUME NEW h \in Handlers PROVE Refreshed(handler[h])'
    BY DEF AlreadyProcessedNeedsRefresh, Refreshed
  <1>3. CASE handler'[h] = handler[h]
    BY <1>1, <1>3 DEF AlreadyProcessedNeedsRefresh, Refreshed
  <1>4. CASE Abort(h)
    BY <1>4, AbortRefreshed
  <1>5. CASE handler'[h].pc # "reply" \/ handler'[h].result.code # "operation_already_processed"
    BY <1>5 DEF Refreshed
  <1>6. ASSUME NEW p \in packets, Receive(h, p) PROVE handler'[h].pc # "reply"
    BY <1>6 DEF Receive, IInv, TypeOK
  <1>7. ASSUME ValidateStep(h) \/ AuthorizeStep(h) \/ Commit(h) \/ Emit(h)
        PROVE  handler'[h].result.code # "operation_already_processed"
    <2>1. /\ \A now : Validate(handler[h].session, handler[h].request, handler[h].actor, now).code
                # "operation_already_processed"
          /\ Authorize(handler[h].actor).code # "operation_already_processed"
          /\ Success.code # "operation_already_processed"
      BY DEF Validate, Mismatched, Stale, Conflict, Success, Failure, FailureWith, Authorize
    <2> QED
      BY <1>7, <2>1, OutcomeOwn DEF ValidateStep, AuthorizeStep, Commit, Emit, IInv
  <1>8. ASSUME Reply(h) \/ Crash(h) PROVE handler'[h].pc # "reply"
    BY <1>8 DEF Reply, Crash, IInv, TypeOK, NoTask
  <1>9. ASSUME NEW k \in Handlers \ {h}, Serve(k) \/ Crash(k) \/ \E p \in packets : Receive(k, p)
        PROVE  handler'[h] = handler[h]
    <2>1. CASE Reply(k) \/ Crash(k) \/ \E p \in packets : Receive(k, p)
      BY <2>1 DEF Reply, Crash, Receive, IInv, TypeOK
    <2>2. CASE ValidateStep(k) \/ AuthorizeStep(k) \/ Commit(k) \/ Abort(k) \/ Emit(k)
      BY <2>2, OutcomeOthers DEF ValidateStep, AuthorizeStep, Commit, Abort, Emit, IInv
    <2> QED  BY <1>9, <2>1, <2>2 DEF Serve
  <1>10. CASE UNCHANGED handler
    BY <1>3, <1>10
  <1> QED
    <2>1. CASE \E k \in Handlers \ {h} :
                 Serve(k) \/ Crash(k) \/ \E p \in packets : Receive(k, p)
      BY <1>3, <1>9, <2>1
    <2>2. CASE Serve(h) \/ Crash(h) \/ \E p \in packets : Receive(h, p)
      BY <1>4, <1>5, <1>6, <1>7, <1>8, <2>2 DEF Serve
    <2>3. CASE (\E o \in Operations : Send(o) \/ Timeout(o)) \/ Tick \/ UNCHANGED vars
      BY <1>10, <2>3 DEF Send, Timeout, Tick, vars
    <2> QED
      BY <2>1, <2>2, <2>3 DEF Next

\* With one handler only a retry under a later revision is told that its
\* operation is done.
THEOREM AlreadyProcessedNeedsRefreshHolds ==
    OneHandler => (Spec => []AlreadyProcessedNeedsRefresh)
  <1> SUFFICES ASSUME OneHandler PROVE Spec => []AlreadyProcessedNeedsRefresh
    OBVIOUS
  <1>1. Init => LedgerSerial /\ AlreadyProcessedNeedsRefresh
    BY DEF Init, LedgerSerial, AlreadyProcessedNeedsRefresh, NoTask
  <1>2. IInv /\ SerialInv /\ Aged /\ LedgerSerial /\ AlreadyProcessedNeedsRefresh /\ [Next]_vars
          => LedgerSerial' /\ AlreadyProcessedNeedsRefresh'
    BY NextLedgerSerial, NextRefreshed
  <1>3. SerialInv /\ IInv /\ [Next]_vars => SerialInv'
    BY NextSerialInv
  <1> QED
    BY <1>1, <1>2, <1>3, InitSerialInv, AgedHolds, PTL DEF Spec
=============================================================================
