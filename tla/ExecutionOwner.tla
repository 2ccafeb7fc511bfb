--------------------------- MODULE ExecutionOwner ---------------------------
(***************************************************************************)
(* One native execution, the Worker that owns it and the processes that    *)
(* control it through files (execution/runner_connection.py,               *)
(* runtimes/codex/managed_session.py, runtimes/codex/app_server.py).  The  *)
(* native service answers calls and reports events over one ordered pipe,  *)
(* `wire`; the Worker's event loop consumes it, keeps the result and the   *)
(* handlers of the service's own requests, and runs control operations     *)
(* that a serving thread takes, one after the other, from request files.   *)
(***************************************************************************)
EXTENDS Naturals, Sequences, FiniteSets

CONSTANTS Senders,      \* callers that send an instruction into the execution
          Interrupters, \* callers that interrupt it
          Repliers,     \* callers that answer a request of the service
          Requests,     \* the requests the service may make
          Target,       \* the request each replier answers
          Nobody,       \* no caller is being served
          MaxCalls,     \* bound: control requests made
          MaxFaults     \* bound: calls without answer, lost services, dead callers

Callers == Senders \cup Interrupters \cup Repliers

ASSUME CallerAssumption ==
  /\ Senders \cap Interrupters = {} /\ Senders \cap Repliers = {}
  /\ Interrupters \cap Repliers = {} /\ Nobody \notin Callers
  /\ Target \in [Repliers -> Requests] /\ {MaxCalls, MaxFaults} \subseteq Nat

VARIABLES turn,      \* the service: its turn
          inputs,    \* the service: the instructions that entered the turn
          answers,   \* the service: the answers each of its requests got
          request,   \* the service: its requests
          wire,      \* what it has reported and the Worker has not read
          owner,     \* where the Worker is
          active,    \* _active: whether the Worker holds the turn for running
          result,    \* the result of the turn, as far as the Worker knows
          terminal,  \* the Worker has seen the end of the turn
          broken,    \* the Worker has given the connection up
          outcome,   \* what it reports of the execution
          handler,   \* its handler of each request of the service
          reply,     \* the answers given to handlers
          caller,    \* each caller, with its request directory
          serving,   \* the caller whose request the serving thread has taken
          operation, \* the control operations on the event loop
          faults

service == <<turn, inputs, answers, request>>
execution == <<owner, active, result, terminal, broken, outcome>>
control == <<caller, serving, operation>>
vars == <<service, wire, execution, handler, reply, control, faults>>

\* The native outcomes of a turn.
Ends == {"completed", "interrupted", "failed"}

Message == {<<"started">>} \cup ({"ended"} \X Ends) \cup ({"asks", "withdraws"} \X Requests)
             \cup ({"accepts", "rejects"} \X Callers)

InProgress == {"called", "accepted", "rejected", "awaiting"}

TypeOK ==
  /\ turn \in {"running", "lost"} \cup Ends
  /\ inputs \in [Senders -> Nat] /\ answers \in [Requests -> Nat]
  /\ request \in [Requests -> {"none", "open", "settled"}]
  /\ wire \in Seq(Message)
  /\ owner \in {"starting", "owning", "draining", "closed", "gone"}
  /\ active \in {"reserved", "answered", "yes", "no"}
  /\ result \in {"pending", "error"} \cup Ends
  /\ {terminal, broken} \subseteq BOOLEAN
  /\ outcome \in {"none", "error"} \cup Ends
  /\ handler \in [Requests -> {"none", "notifying", "waiting", "gone"}]
  /\ reply \subseteq Requests
  /\ caller \in [Callers -> {"idle", "asked", "taken", "ok", "refused",
                             "acknowledged", "denied", "timeout", "dead"}]
  /\ serving \in Callers \cup {Nobody}
  /\ operation \in [Callers -> {"none", "scheduled", "ok", "error"} \cup InProgress]
  /\ faults \in 0 .. MaxFaults

\* turn/start has been sent: the Session is reserved until its answer is read.
Init ==
  /\ turn = "running"
  /\ inputs = [c \in Senders |-> 0] /\ answers = [r \in Requests |-> 0]
  /\ request = [r \in Requests |-> "none"]
  /\ wire = <<<<"started">>>>
  /\ owner = "starting" /\ active = "reserved"
  /\ result = "pending" /\ terminal = FALSE /\ broken = FALSE
  /\ outcome = "none"
  /\ handler = [r \in Requests |-> "none"]
  /\ reply = {}
  /\ caller = [c \in Callers |-> "idle"]
  /\ serving = Nobody
  /\ operation = [c \in Callers |-> "none"]
  /\ faults = 0

Fault == faults < MaxFaults /\ faults' = faults + 1

----------------------------------------------------------------------------
(* The native service *)

Reports(m) == wire' = Append(wire, m)

\* The turn ends by itself.
TurnEnds(status) ==
  /\ turn = "running" /\ status # "interrupted"
  /\ turn' = status
  /\ Reports(<<"ended", status>>)
  /\ UNCHANGED <<inputs, answers, request, execution, handler, reply, control, faults>>

\* It asks for a decision, and may withdraw the request again.
Asks(r) ==
  /\ turn = "running" /\ request[r] = "none"
  /\ request' = [request EXCEPT ![r] = "open"]
  /\ Reports(<<"asks", r>>)
  /\ UNCHANGED <<turn, inputs, answers, execution, handler, reply, control, faults>>

Withdraws(r) ==
  /\ turn = "running" /\ request[r] = "open"
  /\ request' = [request EXCEPT ![r] = "settled"]
  /\ Reports(<<"withdraws", r>>)
  /\ UNCHANGED <<turn, inputs, answers, execution, handler, reply, control, faults>>

\* _fail: the connection is given up, which gives every waiter of it an error.
Breaks ==
  /\ broken' = TRUE
  /\ result' = IF result = "pending" THEN "error" ELSE result

\* The service dies, or its pipe does.
ServiceLost ==
  /\ Fault /\ ~broken
  /\ turn' = IF turn = "running" THEN "lost" ELSE turn
  /\ Breaks
  /\ UNCHANGED <<inputs, answers, request, wire, owner, active, terminal, outcome, handler,
                 reply, control>>

----------------------------------------------------------------------------
(* The Worker reads the pipe *)

\* The next message of the pipe; nothing is read from one that was given up.
Reads(kind) ==
  /\ wire # <<>> /\ ~broken
  /\ Head(wire)[1] = kind
  /\ wire' = Tail(wire)
  /\ UNCHANGED <<service, owner, broken, outcome, reply, caller, serving, faults>>

ReadsStarted ==
  /\ Reads("started")
  /\ active' = "answered"
  /\ UNCHANGED <<result, terminal, handler, operation>>

\* _complete: a newer execution's ownership would be left alone.
ReadsEnd ==
  /\ Reads("ended")
  /\ terminal' = TRUE
  /\ active' = IF active = "yes" THEN "no" ELSE active
  /\ result' = IF result = "pending" THEN Head(wire)[2] ELSE result
  /\ UNCHANGED <<handler, operation>>

\* A request of the service starts a handler, which first tells the direct parent.
ReadsRequest ==
  /\ Reads("asks")
  /\ handler' = [handler EXCEPT ![Head(wire)[2]] = "notifying"]
  /\ UNCHANGED <<active, result, terminal, operation>>

\* serverRequest/resolved cancels it.
ReadsWithdrawal ==
  /\ Reads("withdraws")
  /\ handler' = [handler EXCEPT ![Head(wire)[2]] = "gone"]
  /\ UNCHANGED <<active, result, terminal, operation>>

ReadsAnswer ==
  /\ \E kind \in {"accepts", "rejects"} :
        /\ Reads(kind)
        /\ operation' = [operation EXCEPT ![Head(wire)[2]] =
                           IF kind = "accepts" THEN "accepted" ELSE "rejected"]
  /\ UNCHANGED <<active, result, terminal, handler>>

----------------------------------------------------------------------------
(* The execution: _start_execution, run, close *)

\* start_execution returns, after the end of the turn it may be, and the mapping names
\* the execution.
Started ==
  /\ owner = "starting" /\ active = "answered"
  /\ owner' = "owning"
  /\ active' = IF terminal THEN "no" ELSE "yes"
  /\ UNCHANGED <<service, wire, result, terminal, broken, outcome, handler, reply, control,
                 faults>>

\* wait: a result, or an error that is confirmed if the end was seen, is the outcome.
Outcome == IF result \in {"completed", "interrupted"} THEN result ELSE "error"

ResultKnown ==
  /\ owner = "owning" /\ result # "pending"
  /\ owner' = "draining"
  /\ outcome' = IF result # "error" \/ terminal THEN Outcome ELSE outcome
  /\ UNCHANGED <<service, wire, active, result, terminal, broken, handler, reply, control,
                 faults>>

\* A mutated form: operations under way are not waited for.
Undrained == TRUE

NothingUnderWay == \A c \in Callers : operation[c] \notin InProgress

\* A mutated form: a service that ignores the end of its input is left running.
LeftRunning == turn

\* The service leaves at the end of its input, or its process group is killed.
Stopped == IF turn = "running" THEN "lost" ELSE turn

\* close: the service ends with its connection; handlers, and operations that have not
\* begun, are cancelled.  run returns.
Closes ==
  /\ owner' = "closed"
  /\ Breaks
  /\ turn' = Stopped
  /\ handler' = [r \in Requests |-> "gone"]
  /\ operation' = [c \in Callers |->
                     IF operation[c] \in InProgress \cup {"scheduled"} THEN "error" ELSE operation[c]]
  /\ UNCHANGED <<inputs, answers, request, wire, active, terminal, reply, caller, serving,
                 faults>>

\* The execution has ended and the operations on it as well.
Drained ==
  /\ owner = "draining" /\ NothingUnderWay
  /\ outcome' = Outcome
  /\ Closes

\* The start fails with its connection.
StartFails ==
  /\ owner = "starting" /\ broken
  /\ outcome' = "error"
  /\ Closes

----------------------------------------------------------------------------
(* Handlers of the service's requests *)

\* notify_direct_parent has returned.
Notified(r) ==
  /\ handler[r] = "notifying"
  /\ handler' = [handler EXCEPT ![r] = "waiting"]
  /\ UNCHANGED <<service, wire, execution, reply, control, faults>>

\* The reply is sent, unless completion won the race with it; a withdrawal has cancelled
\* the handler.
Answers(r) ==
  /\ handler[r] = "waiting" /\ r \in reply /\ ~broken
  /\ handler' = [handler EXCEPT ![r] = "gone"]
  /\ IF ~terminal
       THEN /\ answers' = [answers EXCEPT ![r] = @ + 1]
            /\ request' = [request EXCEPT ![r] = "settled"]
       ELSE UNCHANGED <<answers, request>>
  /\ UNCHANGED <<turn, inputs, wire, execution, reply, control, faults>>

\* A handler fails: the service is told, and the execution fails with it while its
\* turn may still run.
HandlerFails(r) ==
  /\ handler[r] \in {"notifying", "waiting"} /\ Fault /\ ~broken
  /\ handler' = [handler EXCEPT ![r] = "gone"]
  /\ request' = [request EXCEPT ![r] = "settled"]
  /\ answers' = [answers EXCEPT ![r] = @ + 1]
  /\ result' = IF result = "pending" THEN "error" ELSE result
  /\ UNCHANGED <<turn, inputs, wire, owner, active, terminal, broken, outcome, reply,
                 control>>

----------------------------------------------------------------------------
(* Control requests *)

\* session_operation: a caller makes its request directory and file.
Calls(c) ==
  /\ caller[c] = "idle"
  /\ owner \notin {"starting", "gone"}
  /\ Cardinality({d \in Callers : caller[d] # "idle"}) < MaxCalls
  /\ caller' = [caller EXCEPT ![c] = "asked"]
  /\ UNCHANGED <<service, wire, execution, handler, reply, serving, operation, faults>>

\* The serving thread takes one request at a time and removes its file.  operate
\* refuses once the outcome is known, and else schedules the operation.
Takes(c) ==
  /\ serving = Nobody /\ caller[c] = "asked" /\ owner # "gone"
  /\ serving' = c
  /\ caller' = [caller EXCEPT ![c] = "taken"]
  /\ operation' = [operation EXCEPT ![c] =
                     IF outcome # "none"
                       THEN "error" ELSE "scheduled"]
  /\ UNCHANGED <<service, wire, execution, handler, reply, faults>>

Becomes(c, state) == operation' = [operation EXCEPT ![c] = state]

\* _operate begins on the event loop, and runs to its call of the service.
Begins(c) == operation[c] = "scheduled"

\* An operation on an execution that is no longer active is refused.
Active == ~broken /\ active = "yes"

Refused(c) ==
  /\ Begins(c) /\ c \notin Repliers /\ ~Active
  /\ Becomes(c, "error")
  /\ UNCHANGED <<service, wire, execution, handler, reply, caller, serving, faults>>

\* turn/steer: the service takes the instruction into the turn it expects, or rejects
\* it, and answers.
Steers(c) ==
  /\ Begins(c) /\ c \in Senders /\ Active
  /\ Becomes(c, "called")
  /\ IF turn = "running"
       THEN inputs' = [inputs EXCEPT ![c] = @ + 1] /\ Reports(<<"accepts", c>>)
       ELSE UNCHANGED inputs /\ Reports(<<"rejects", c>>)
  /\ UNCHANGED <<turn, answers, request, execution, handler, reply, caller, serving, faults>>

\* turn/interrupt: the answer and the end of the turn may come in either order.
Interrupts(c) ==
  /\ Begins(c) /\ c \in Interrupters /\ Active
  /\ Becomes(c, "called")
  /\ IF turn = "running"
       THEN /\ turn' = "interrupted"
            /\ wire' \in {Append(Append(wire, <<"accepts", c>>), <<"ended", "interrupted">>),
                          Append(Append(wire, <<"ended", "interrupted">>), <<"accepts", c>>)}
       ELSE UNCHANGED turn /\ (Reports(<<"rejects", c>>) \/ Reports(<<"accepts", c>>))
  /\ UNCHANGED <<inputs, answers, request, execution, handler, reply, caller, serving,
                 faults>>

\* terminate: a signal to the Worker interrupts the turn, and waits for nothing.
Terminates ==
  /\ owner \in {"owning", "draining"} /\ Active /\ turn = "running"
  /\ turn' = "interrupted"
  /\ Reports(<<"ended", "interrupted">>)
  /\ UNCHANGED <<inputs, answers, request, execution, handler, reply, control, faults>>

\* A mutated form: a request that has its answer is still open to others.
AwaitsAny(r) == handler[r] \in {"notifying", "waiting"} /\ owner = "owning"

AwaitsReply(r) == AwaitsAny(r) /\ r \notin reply

\* The reply reaches the handler, or the request is no longer pending.
Replies(c) ==
  /\ Begins(c) /\ c \in Repliers
  /\ IF AwaitsReply(Target[c])
       THEN reply' = reply \cup {Target[c]} /\ Becomes(c, "ok")
       ELSE UNCHANGED reply /\ Becomes(c, "error")
  /\ UNCHANGED <<service, wire, execution, handler, caller, serving, faults>>

\* A mutated form: a call that waits does not learn that the connection was given up.
NeverGivenUp(c) == FALSE

GivenUp(c) == operation[c] = "called" /\ broken

\* The answer of the service has been read, or will never be.
Goes(c) ==
  /\ \/ operation[c] = "accepted" /\ Becomes(c, IF c \in Interrupters THEN "awaiting" ELSE "ok")
     \/ operation[c] = "rejected" /\ Becomes(c, "error")
     \/ GivenUp(c) /\ Becomes(c, "error")
  /\ UNCHANGED <<service, wire, execution, handler, reply, caller, serving, faults>>

ConfirmsInterruption == result = "interrupted"

Confirms(c) ==
  /\ operation[c] = "awaiting" /\ result # "pending"
  /\ Becomes(c, IF ConfirmsInterruption THEN "ok" ELSE "error")
  /\ UNCHANGED <<service, wire, execution, handler, reply, caller, serving, faults>>

\* The answer of the service does not come within the time of a call: the connection is
\* given up.
CallTimesOut(c) ==
  /\ operation[c] = "called" /\ ~broken /\ Fault
  /\ Breaks
  /\ Becomes(c, "error")
  /\ UNCHANGED <<service, wire, owner, active, terminal, outcome, handler, reply, caller,
                 serving>>

\* The response is written, for a caller that still waits.
Responds(c) ==
  /\ serving = c /\ operation[c] \in {"ok", "error"}
  /\ serving' = Nobody
  /\ caller' = [caller EXCEPT ![c] =
                  IF @ # "taken" THEN @ ELSE IF operation[c] = "ok" THEN "ok" ELSE "refused"]
  /\ UNCHANGED <<service, wire, execution, handler, reply, operation, faults>>

\* An interruption that is not confirmed in time is left to itself.
ServingTimesOut(c) ==
  /\ serving = c /\ operation[c] = "awaiting"
  /\ serving' = Nobody
  /\ caller' = [caller EXCEPT ![c] = IF @ = "taken" THEN "refused" ELSE @]
  /\ UNCHANGED <<service, wire, execution, handler, reply, operation, faults>>

\* The caller reads the response and removes its directory.
ReadsResponse(c) ==
  /\ caller[c] \in {"ok", "refused"} /\ owner # "gone"
  /\ caller' = [caller EXCEPT ![c] = IF @ = "ok" THEN "acknowledged" ELSE "denied"]
  /\ UNCHANGED <<service, wire, execution, handler, reply, serving, operation, faults>>

\* "Session control timed out; delivery is unconfirmed."
TimesOut(c) ==
  /\ caller[c] \in {"asked", "taken"}
  /\ caller' = [caller EXCEPT ![c] = "timeout"]
  /\ UNCHANGED <<service, wire, execution, handler, reply, serving, operation, faults>>

\* A caller is killed; its directory stays.
CallerDies(c) ==
  /\ caller[c] \in {"asked", "taken", "ok", "refused"} /\ Fault
  /\ caller' = [caller EXCEPT ![c] = "dead"]
  /\ UNCHANGED <<service, wire, execution, handler, reply, serving, operation>>

----------------------------------------------------------------------------
(* The end of worker_connection *)

\* Every caller that lives has read its response or timed out: both take less than the
\* grace period.
ResponsesAreRead == \A c \in Callers : caller[c] \notin {"asked", "taken", "ok", "refused"}

Gone ==
  /\ owner = "closed" /\ serving = Nobody
  /\ ResponsesAreRead
  /\ owner' = "gone"
  /\ UNCHANGED <<service, wire, active, result, terminal, broken, outcome, handler, reply,
                 control, faults>>

Execution ==
  \/ ReadsStarted \/ ReadsEnd \/ ReadsRequest \/ ReadsWithdrawal \/ ReadsAnswer
  \/ Started \/ StartFails \/ ResultKnown \/ Drained \/ Gone

Handling(r) == Notified(r) \/ Answers(r)

Operating(c) ==
  \/ Refused(c) \/ Goes(c) \/ Confirms(c)
  \/ c \in Senders /\ Steers(c)
  \/ c \in Interrupters /\ Interrupts(c)
  \/ c \in Repliers /\ Replies(c)

Serving(c) == Takes(c) \/ Responds(c)

Next ==
  \/ Execution
  \/ \E status \in Ends : TurnEnds(status)
  \/ \E r \in Requests : Asks(r) \/ Withdraws(r) \/ Handling(r) \/ HandlerFails(r)
  \/ \E c \in Callers :
        \/ Calls(c) \/ Operating(c) \/ Serving(c) \/ ServingTimesOut(c) \/ CallTimesOut(c)
        \/ ReadsResponse(c) \/ TimesOut(c) \/ CallerDies(c)
  \/ Terminates
  \/ ServiceLost

\* The Worker's event loop and its serving thread go on, and a caller polls until it
\* has its response or its time is over.  The service owes no end of its turn.
Worker ==
  \/ Execution
  \/ \E r \in Requests : Handling(r)
  \/ \E c \in Callers : Operating(c) \/ Responds(c)

Fairness ==
  /\ WF_vars(Worker)
  /\ WF_vars(\E c \in Callers : ReadsResponse(c) \/ TimesOut(c))

Spec == Init /\ [][Next]_vars /\ Fairness

----------------------------------------------------------------------------
(* Properties *)

\* What the Worker reports of the execution is how the native turn ended, whatever
\* order starts, ends, failures and interruptions were read in: a completed or
\* interrupted outcome is the service's, and a run that has returned leaves no turn
\* running (managed_session.py:124-146, app_server.py:790-817).
OutcomeIsNative ==
  /\ outcome \in {"completed", "interrupted"} => turn = outcome
  /\ owner \in {"closed", "gone"} => turn # "running" /\ outcome # "none"

\* A caller is told that its instruction was received only if it entered the running
\* turn, that its interruption was confirmed only if that is how the turn ended, and
\* no instruction enters twice.  A caller that timed out knows nothing
\* (runner_connection.py:70).
AcknowledgedTookEffect ==
  /\ \A c \in Senders : inputs[c] <= 1 /\ (caller[c] = "acknowledged" => inputs[c] = 1)
  /\ \A c \in Interrupters : caller[c] = "acknowledged" => turn = "interrupted"

\* A caller whose instruction was refused may send it again: while nothing fails, it did
\* not enter the turn ("Keep acknowledged operations owned through a native completion
\* race.", managed_session.py:178).
RefusedHadNoEffect ==
  faults = 0 => \A c \in Senders : caller[c] = "denied" => inputs[c] = 0

\* What a caller is told is what happened to the turn, in both directions.
CallersAreToldTheTruth == AcknowledgedTookEffect /\ RefusedHadNoEffect

\* A request of the service is answered at most once, by one replier, however many try
\* ("The native request is no longer pending.", managed_session.py:205).
AnsweredOnce ==
  \A r \in Requests :
     /\ answers[r] <= 1
     /\ \A c, d \in Repliers :
          (Target[c] = r /\ Target[d] = r /\ operation[c] = "ok" /\ operation[d] = "ok") => c = d

\* The Worker ends when its turn or its connection does, whatever control operations,
\* handlers and callers are under way.
OwnerEnds == (turn # "running" \/ broken) ~> (owner = "gone")

\* A response that has been written is read ("Keep acknowledged results available across
\* fast native completion.", runner_connection.py:48), unless its caller dies.
Unread == {c \in Callers : caller[c] \in {"ok", "refused"}}

ResponsesArrive == (Unread # {}) ~> (Unread = {})

\* Both together: neither side of the control connection waits for ever.
NobodyWaitsForEver == OwnerEnds /\ ResponsesArrive
=============================================================================
