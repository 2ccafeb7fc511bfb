------------------------ MODULE ExecutionOwnerProofs ------------------------
(***************************************************************************)
(* What is proved of ExecutionOwner, for any number of callers and of      *)
(* requests of the service: its types, that the outcome and what callers   *)
(* are told are true of the native turn, and that a request of the service *)
(* is answered once.                                                       *)
(***************************************************************************)
EXTENDS ExecutionOwner, TLAPS

\* Message m is in the pipe w; and no message is in it twice.
Has(w, m) == \E i \in DOMAIN w : w[i] = m
Distinct(w) == \A i, j \in DOMAIN w : w[i] = w[j] => i = j

\* The end that is in the pipe is how the turn ended, and repliers are not answered
\* over it.
PipeOK ==
  /\ Distinct(wire)
  /\ \A s \in Ends : Has(wire, <<"ended", s>>) => turn = s
  /\ \A c \in Repliers : ~Has(wire, <<"accepts", c>>) /\ ~Has(wire, <<"rejects", c>>)

\* What the Worker knows of the turn is true, and its end leaves nothing under way.
TurnOK ==
  /\ result \in Ends => turn = result
  /\ outcome \in {"completed", "interrupted"} => turn = outcome
  /\ owner \in {"closed", "gone"} =>
       /\ turn # "running" /\ outcome # "none" /\ broken
       /\ \A c \in Callers : operation[c] \notin InProgress \cup {"scheduled"}
  /\ (faults = 0 /\ broken) => owner \in {"closed", "gone"}

\* A request of the service is answered by its handler only, which it gets once.
RequestOK(r) ==
  /\ answers[r] <= 1
  /\ (Has(wire, <<"asks", r>>) \/ handler[r] # "gone" \/ request[r] = "none") => answers[r] = 0
  /\ request[r] = "none" => handler[r] \in {"none", "gone"} /\ ~Has(wire, <<"asks", r>>)
  /\ request[r] \in {"none", "open"} => ~Has(wire, <<"withdraws", r>>)
  /\ handler[r] \in {"notifying", "waiting"} => ~Has(wire, <<"asks", r>>)

RequestsOK == \A r \in Requests : RequestOK(r)

\* What a caller is told follows its operation, and only an operation that waits for the
\* service has an answer in the pipe.
OperationsOK ==
  \A c \in Callers :
     /\ caller[c] \in {"idle", "asked"} => operation[c] = "none"
     /\ caller[c] \in {"ok", "acknowledged"} => operation[c] = "ok"
     /\ (~broken /\ (Has(wire, <<"accepts", c>>) \/ Has(wire, <<"rejects", c>>)))
          => operation[c] = "called"
     /\ ~broken => ~(Has(wire, <<"accepts", c>>) /\ Has(wire, <<"rejects", c>>))

\* An instruction has entered the turn as far as the operation of its sender says.
SenderOK(c) ==
  /\ inputs[c] <= 1
  /\ operation[c] \in {"none", "scheduled", "rejected"} => inputs[c] = 0
  /\ operation[c] \in {"accepted", "ok"} => inputs[c] = 1
  /\ operation[c] # "awaiting"
  /\ ~broken => /\ Has(wire, <<"accepts", c>>) => inputs[c] = 1
                /\ Has(wire, <<"rejects", c>>) => inputs[c] = 0
  /\ caller[c] \in {"refused", "denied"} => operation[c] = "error"
  /\ (faults = 0 /\ operation[c] = "error") => inputs[c] = 0

SendersOK == \A c \in Senders : SenderOK(c)

\* An interruption that was confirmed is one.
InterruptersOK ==
  \A c \in Interrupters : operation[c] = "ok" => turn = "interrupted"

\* Of the replies to a request one was accepted, the one it holds.
RepliersOK ==
  /\ \A c \in Repliers :
        /\ operation[c] \in {"none", "scheduled", "ok", "error"}
        /\ operation[c] = "ok" => Target[c] \in reply
  /\ \A c, d \in Repliers :
        (operation[c] = "ok" /\ operation[d] = "ok" /\ Target[c] = Target[d]) => c = d

Inv == TypeOK /\ PipeOK /\ TurnOK /\ RequestsOK /\ OperationsOK /\ SendersOK
         /\ InterruptersOK /\ RepliersOK

----------------------------------------------------------------------------
(* The pipe *)

\* A message that is written comes to those that are there.
LEMMA Written ==
  ASSUME NEW w \in Seq(Message), NEW m \in Message
  PROVE  /\ Append(w, m) \in Seq(Message)
         /\ \A x : Has(Append(w, m), x) <=> (Has(w, x) \/ x = m)
         /\ (Distinct(w) /\ ~Has(w, m)) => Distinct(Append(w, m))
<1>1. Append(w, m) \in Seq(Message)
  OBVIOUS
<1>2. /\ DOMAIN w = 1 .. Len(w) /\ DOMAIN Append(w, m) = 1 .. Len(w) + 1
      /\ Len(w) \in Nat
      /\ \A i \in 1 .. Len(w) : Append(w, m)[i] = w[i]
      /\ Append(w, m)[Len(w) + 1] = m
  OBVIOUS
<1>3. ASSUME NEW x PROVE Has(Append(w, m), x) <=> (Has(w, x) \/ x = m)
  <2>1. Has(w, x) => Has(Append(w, m), x)
    BY <1>2 DEF Has
  <2>2. x = m => Has(Append(w, m), x)
    BY <1>2 DEF Has
  <2>3. Has(Append(w, m), x) => (Has(w, x) \/ x = m)
    BY <1>2 DEF Has
  <2>. QED BY <2>1, <2>2, <2>3
<1>4. ASSUME Distinct(w), ~Has(w, m) PROVE Distinct(Append(w, m))
  BY <1>2, <1>4 DEF Has, Distinct
<1>. QED BY <1>1, <1>3, <1>4

\* A message that is read was there, and leaves the others.
LEMMA Taken ==
  ASSUME NEW w \in Seq(Message), w # <<>>
  PROVE  /\ Head(w) \in Message /\ Tail(w) \in Seq(Message)
         /\ Has(w, Head(w))
         /\ \A x : Has(Tail(w), x) => Has(w, x)
         /\ Distinct(w) => Distinct(Tail(w)) /\ ~Has(Tail(w), Head(w))
<1>1. Head(w) \in Message /\ Tail(w) \in Seq(Message)
  OBVIOUS
<1>2. /\ Len(w) \in Nat \ {0} /\ DOMAIN w = 1 .. Len(w)
      /\ DOMAIN Tail(w) = 1 .. Len(w) - 1
      /\ Head(w) = w[1]
      /\ \A i \in 1 .. Len(w) - 1 : Tail(w)[i] = w[i + 1]
  OBVIOUS
<1>3. Has(w, Head(w))
  BY <1>2 DEF Has
<1>4. ASSUME NEW x, Has(Tail(w), x) PROVE Has(w, x)
  <2>1. PICK i \in 1 .. Len(w) - 1 : w[i + 1] = x
    BY <1>2, <1>4 DEF Has
  <2>. QED BY <1>2, <2>1 DEF Has
<1>5. ASSUME Distinct(w) PROVE Distinct(Tail(w)) /\ ~Has(Tail(w), Head(w))
  <2>1. ASSUME NEW i \in 1 .. Len(w) - 1, NEW j \in 1 .. Len(w) - 1, w[i + 1] = w[j + 1]
        PROVE  i = j
    BY <1>2, <1>5, <2>1 DEF Distinct
  <2>2. ASSUME NEW i \in 1 .. Len(w) - 1 PROVE w[i + 1] # w[1]
    BY <1>2, <1>5 DEF Distinct
  <2>. QED BY <1>2, <2>1, <2>2 DEF Has, Distinct
<1>. QED BY <1>1, <1>3, <1>4, <1>5

\* What may be written.
LEMMA Messages ==
  /\ \A s \in Ends : <<"ended", s>> \in Message
  /\ \A r \in Requests : <<"asks", r>> \in Message /\ <<"withdraws", r>> \in Message
  /\ \A c \in Callers : <<"accepts", c>> \in Message /\ <<"rejects", c>> \in Message
BY DEF Message

\* What the second part of a message of each kind is.
LEMMA Kinds ==
  ASSUME NEW m \in Message
  PROVE  /\ m[1] = "ended" => \E s \in Ends : m = <<"ended", s>>
         /\ m[1] \in {"asks", "withdraws"} => \E r \in Requests : m = <<m[1], r>>
         /\ m[1] \in {"accepts", "rejects"} => \E c \in Callers : m = <<m[1], c>>
BY DEF Message

----------------------------------------------------------------------------
(* Types *)

\* The service's own steps and the Worker's reading of the pipe keep the types.
LEMMA ServiceTyped ==
  ASSUME TypeOK,
         \/ \E status \in Ends : TurnEnds(status)
         \/ \E r \in Requests : Asks(r) \/ Withdraws(r)
         \/ ServiceLost \/ Terminates
         \/ ReadsStarted \/ ReadsEnd \/ ReadsRequest \/ ReadsWithdrawal \/ ReadsAnswer
  PROVE  TypeOK'
<1>1. CASE \E status \in Ends : TurnEnds(status)
  <2>1. PICK status \in Ends : TurnEnds(status)
    BY <1>1
  <2>2. wire' \in Seq(Message)
    BY <2>1, Messages, Written DEF TurnEnds, Reports, TypeOK
  <2>. QED BY <2>1, <2>2 DEF TurnEnds, TypeOK, execution, control
<1>2. CASE \E r \in Requests : Asks(r) \/ Withdraws(r)
  <2>1. PICK r \in Requests : Asks(r) \/ Withdraws(r)
    BY <1>2
  <2>2. /\ Append(wire, <<"asks", r>>) \in Seq(Message)
        /\ Append(wire, <<"withdraws", r>>) \in Seq(Message)
    BY Messages, Written DEF TypeOK
  <2>3. wire' \in Seq(Message)
    BY <2>1, <2>2 DEF Asks, Withdraws, Reports
  <2>4. request' \in [Requests -> {"none", "open", "settled"}]
    BY <2>1 DEF Asks, Withdraws, TypeOK
  <2>5. UNCHANGED <<turn, inputs, answers, execution, handler, reply, control, faults>>
    BY <2>1 DEF Asks, Withdraws
  <2>. QED BY <2>3, <2>4, <2>5 DEF TypeOK, execution, control
<1>3. CASE ServiceLost
  BY <1>3, CallerAssumption DEF ServiceLost, Breaks, Fault, TypeOK, control, CallerAssumption
<1>4. CASE Terminates
  <2>2. wire' \in Seq(Message)
    BY <1>4, Messages, Written DEF Terminates, Reports, TypeOK, Ends
  <2>. QED BY <1>4, <2>2 DEF Terminates, TypeOK, execution, control, Ends
<1>5. CASE ReadsStarted \/ ReadsEnd \/ ReadsRequest \/ ReadsWithdrawal \/ ReadsAnswer
  <2>1. /\ \E kind : Reads(kind)
        /\ wire' \in Seq(Message)
    BY <1>5, Taken DEF ReadsStarted, ReadsEnd, ReadsRequest, ReadsWithdrawal, ReadsAnswer,
                       Reads, TypeOK
  <2>2. ReadsEnd => Head(wire)[2] \in Ends
    BY Taken, Kinds DEF ReadsEnd, Reads, TypeOK
  <2>3. /\ active' \in {"reserved", "answered", "yes", "no"}
        /\ result' \in {"pending", "error"} \cup Ends
        /\ terminal' \in BOOLEAN
        /\ handler' \in [Requests -> {"none", "notifying", "waiting", "gone"}]
        /\ operation' \in [Callers -> {"none", "scheduled", "ok", "error"} \cup InProgress]
    BY <1>5, <2>2 DEF ReadsStarted, ReadsEnd, ReadsRequest, ReadsWithdrawal, ReadsAnswer,
                      TypeOK, InProgress
  <2>. QED BY <2>1, <2>3 DEF Reads, TypeOK, service
<1>. QED BY <1>1, <1>2, <1>3, <1>4, <1>5

\* So do the steps of the execution and of its handlers.
LEMMA ExecutionTyped ==
  ASSUME TypeOK,
         \/ Started \/ StartFails \/ ResultKnown \/ Drained \/ Gone
         \/ \E r \in Requests : Notified(r) \/ Answers(r) \/ HandlerFails(r)
  PROVE  TypeOK'
<1>. USE CallerAssumption DEF CallerAssumption
<1>1. CASE Started \/ Gone
  BY <1>1 DEF Started, Gone, TypeOK, service, control
<1>2. CASE StartFails \/ Drained
  <2>1. Outcome \in {"error"} \cup Ends /\ Stopped \in {"running", "lost"} \cup Ends
    BY DEF Outcome, Stopped, Ends, TypeOK
  <2>2. Closes /\ outcome' \in {"error"} \cup Ends
    BY <1>2, <2>1 DEF StartFails, Drained
  <2>. QED BY <2>1, <2>2 DEF Closes, Breaks, TypeOK
<1>3. CASE ResultKnown
  <2>1. Outcome \in {"error"} \cup Ends
    BY DEF Outcome, Ends, TypeOK
  <2>. QED BY <1>3, <2>1 DEF ResultKnown, TypeOK, service, control
<1>4. CASE \E r \in Requests : Notified(r) \/ Answers(r) \/ HandlerFails(r)
  <2>1. PICK r \in Requests : Notified(r) \/ Answers(r) \/ HandlerFails(r)
    BY <1>4
  <2>2. CASE Notified(r)
    BY <2>2 DEF Notified, TypeOK, service, execution, control
  <2>3. CASE Answers(r)
    <3>1. answers' \in [Requests -> Nat]
      <4>1. answers' \in {answers, [answers EXCEPT ![r] = answers[r] + 1]}
        BY <2>3 DEF Answers
      <4>2. answers[r] + 1 \in Nat /\ answers \in [Requests -> Nat]
        BY DEF TypeOK
      <4>. QED BY <4>1, <4>2
    <3>2. request' \in [Requests -> {"none", "open", "settled"}]
      BY <2>3 DEF Answers, TypeOK
    <3>3. handler' \in [Requests -> {"none", "notifying", "waiting", "gone"}]
      BY <2>3 DEF Answers, TypeOK
    <3>. QED BY <2>3, <3>1, <3>2, <3>3 DEF Answers, TypeOK, execution, control
  <2>4. CASE HandlerFails(r)
    BY <2>4 DEF HandlerFails, Fault, TypeOK, control
  <2>. QED BY <2>1, <2>2, <2>3, <2>4
<1>. QED BY <1>1, <1>2, <1>3, <1>4

\* What is true of all steps by which a caller is served.
ControlStep(c) ==
  \/ Calls(c) \/ Takes(c) \/ Refused(c) \/ Goes(c) \/ Confirms(c) \/ Responds(c)
  \/ c \in Senders /\ Steers(c)
  \/ c \in Interrupters /\ Interrupts(c)
  \/ c \in Repliers /\ Replies(c)
  \/ ServingTimesOut(c) \/ CallTimesOut(c) \/ ReadsResponse(c) \/ TimesOut(c)
  \/ CallerDies(c)

\* So do the control requests and their operations.
LEMMA ControlTyped ==
  ASSUME TypeOK, NEW c \in Callers, ControlStep(c)
  PROVE  TypeOK'
<1>. USE CallerAssumption DEF CallerAssumption
<1>1. CASE Calls(c) \/ ReadsResponse(c) \/ TimesOut(c) \/ CallerDies(c)
  <2>1. PICK state \in {"asked", "acknowledged", "denied", "timeout", "dead"} :
          caller' = [caller EXCEPT ![c] = state]
    BY <1>1 DEF Calls, ReadsResponse, TimesOut, CallerDies, TypeOK
  <2>2. faults' \in 0 .. MaxFaults
    BY <1>1 DEF Calls, ReadsResponse, TimesOut, CallerDies, Fault, TypeOK
  <2>3. UNCHANGED <<service, wire, execution, handler, reply, serving, operation>>
    BY <1>1 DEF Calls, ReadsResponse, TimesOut, CallerDies
  <2>. QED BY <2>1, <2>2, <2>3 DEF TypeOK, service, execution
<1>2. CASE Takes(c) \/ Responds(c) \/ ServingTimesOut(c)
  <2>1. caller' \in [Callers -> {"idle", "asked", "taken", "ok", "refused", "acknowledged",
                                "denied", "timeout", "dead"}]
    <3>1. PICK state \in {"taken", "ok", "refused", caller[c]} :
            caller' = [caller EXCEPT ![c] = state]
      BY <1>2 DEF Takes, Responds, ServingTimesOut, TypeOK
    <3>. QED BY <3>1 DEF TypeOK
  <2>2. operation' \in [Callers -> {"none", "scheduled", "ok", "error"} \cup InProgress]
    BY <1>2 DEF Takes, Responds, ServingTimesOut, TypeOK
  <2>3. serving' \in Callers \cup {Nobody}
    BY <1>2 DEF Takes, Responds, ServingTimesOut
  <2>4. UNCHANGED <<service, wire, execution, handler, reply, faults>>
    BY <1>2 DEF Takes, Responds, ServingTimesOut
  <2>. QED BY <2>1, <2>2, <2>3, <2>4 DEF TypeOK, service, execution
<1>3. CASE Refused(c) \/ Goes(c) \/ Confirms(c)
  BY <1>3 DEF Refused, Goes, Confirms, Becomes, TypeOK, InProgress, service, execution
<1>4. CASE c \in Senders /\ Steers(c)
  <2>1. /\ Append(wire, <<"accepts", c>>) \in Seq(Message)
        /\ Append(wire, <<"rejects", c>>) \in Seq(Message)
    BY Messages, Written DEF TypeOK
  <2>2. wire' \in Seq(Message)
    BY <1>4, <2>1 DEF Steers, Reports
  <2>3. inputs' \in [Senders -> Nat]
    <3>1. inputs' \in {inputs, [inputs EXCEPT ![c] = inputs[c] + 1]}
      BY <1>4 DEF Steers
    <3>2. inputs[c] + 1 \in Nat /\ inputs \in [Senders -> Nat]
      BY <1>4 DEF TypeOK
    <3>. QED BY <3>1, <3>2
  <2>4. operation' \in [Callers -> {"none", "scheduled", "ok", "error"} \cup InProgress]
    BY <1>4 DEF Steers, Becomes, TypeOK, InProgress
  <2>5. UNCHANGED <<turn, answers, request, execution, handler, reply, caller, serving,
                    faults>>
    BY <1>4 DEF Steers
  <2>. QED BY <2>2, <2>3, <2>4, <2>5 DEF TypeOK, execution
<1>5. CASE c \in Interrupters /\ Interrupts(c)
  <2> DEFINE accepts == <<"accepts", c>>  rejects == <<"rejects", c>>
             ended == <<"ended", "interrupted">>
  <2>1. accepts \in Message /\ rejects \in Message /\ ended \in Message
    BY Messages DEF Ends
  <2>2. wire \in Seq(Message)
    BY DEF TypeOK
  <2>3. Append(wire, accepts) \in Seq(Message) /\ Append(wire, rejects) \in Seq(Message)
          /\ Append(wire, ended) \in Seq(Message)
    BY <2>1, <2>2, Written
  <2>4. Append(Append(wire, accepts), ended) \in Seq(Message)
          /\ Append(Append(wire, ended), accepts) \in Seq(Message)
    BY <2>1, <2>3, Written
  <2>5. wire' \in {Append(wire, accepts), Append(wire, rejects),
                   Append(Append(wire, accepts), ended), Append(Append(wire, ended), accepts)}
    BY <1>5 DEF Interrupts, Reports
  <2>6. wire' \in Seq(Message)
    BY <2>3, <2>4, <2>5
  <2>7. turn' \in {"running", "lost"} \cup Ends
    BY <1>5 DEF Interrupts, TypeOK, Ends
  <2>8. operation' \in [Callers -> {"none", "scheduled", "ok", "error"} \cup InProgress]
    BY <1>5 DEF Interrupts, Becomes, TypeOK, InProgress
  <2>9. UNCHANGED <<inputs, answers, request, execution, handler, reply, caller, serving,
                    faults>>
    BY <1>5 DEF Interrupts
  <2>. QED BY <2>6, <2>7, <2>8, <2>9 DEF TypeOK, execution
<1>6. CASE c \in Repliers /\ Replies(c)
  <2>1. reply' \in {reply, reply \cup {Target[c]}} /\ Target[c] \in Requests
    BY <1>6 DEF Replies
  <2>2. operation' \in [Callers -> {"none", "scheduled", "ok", "error"} \cup InProgress]
    BY <1>6 DEF Replies, Becomes, TypeOK
  <2>3. UNCHANGED <<service, wire, execution, handler, caller, serving, faults>>
    BY <1>6 DEF Replies
  <2>. QED BY <2>1, <2>2, <2>3 DEF TypeOK, service, execution
<1>7. CASE CallTimesOut(c)
  BY <1>7 DEF CallTimesOut, Breaks, Becomes, Fault, TypeOK, InProgress, service
<1>. QED BY <1>1, <1>2, <1>3, <1>4, <1>5, <1>6, <1>7 DEF ControlStep

\* Every step is one of these.
LEMMA Steps ==
  ASSUME Next
  PROVE  \/ \E status \in Ends : TurnEnds(status)
         \/ \E r \in Requests : Asks(r) \/ Withdraws(r)
         \/ ServiceLost \/ Terminates
         \/ ReadsStarted \/ ReadsEnd \/ ReadsRequest \/ ReadsWithdrawal \/ ReadsAnswer
         \/ Started \/ StartFails \/ ResultKnown \/ Drained \/ Gone
         \/ \E r \in Requests : Notified(r) \/ Answers(r) \/ HandlerFails(r)
         \/ \E c \in Callers : ControlStep(c)
BY DEF Next, Execution, Handling, Operating, Serving, ControlStep

\* They have their types at the start.
LEMMA InitiallyTyped == ASSUME Init PROVE TypeOK
<1>1. wire \in Seq(Message)
  BY DEF Init, Message
<1>2. 0 \in 0 .. MaxFaults
  BY CallerAssumption DEF CallerAssumption
<1>3. /\ turn \in {"running", "lost"} \cup Ends
      /\ request \in [Requests -> {"none", "open", "settled"}]
      /\ handler \in [Requests -> {"none", "notifying", "waiting", "gone"}]
      /\ {terminal, broken} \subseteq BOOLEAN
  BY DEF Init
<1>4. /\ caller \in [Callers -> {"idle", "asked", "taken", "ok", "refused",
                                "acknowledged", "denied", "timeout", "dead"}]
      /\ operation \in [Callers -> {"none", "scheduled", "ok", "error"} \cup InProgress]
  BY DEF Init
<1>. QED BY <1>1, <1>2, <1>3, <1>4 DEF Init, TypeOK

----------------------------------------------------------------------------
(* The pipe is kept *)

\* What a report leaves in the pipe.
LEMMA Reported ==
  ASSUME TypeOK, NEW m \in Message, Reports(m)
  PROVE  /\ \A x : Has(wire', x) <=> (Has(wire, x) \/ x = m)
         /\ (Distinct(wire) /\ ~Has(wire, m)) => Distinct(wire')
<1>1. wire \in Seq(Message)
  BY DEF TypeOK
<1>2. wire' = Append(wire, m)
  BY DEF Reports
<1>. QED BY <1>1, <1>2, Written

\* What reading a message leaves there.
LEMMA Consumed ==
  ASSUME TypeOK, NEW kind, Reads(kind)
  PROVE  /\ Head(wire) \in Message /\ Has(wire, Head(wire)) /\ Head(wire)[1] = kind
         /\ \A x : Has(wire', x) => Has(wire, x)
         /\ Distinct(wire) => Distinct(wire') /\ ~Has(wire', Head(wire))
<1>1. wire \in Seq(Message) /\ wire # <<>>
  BY DEF TypeOK, Reads
<1>2. wire' = Tail(wire) /\ Head(wire)[1] = kind
  BY DEF Reads
<1>. QED BY <1>1, <1>2, Taken

\* An interruption reports the end of the turn and its answer, in some order, or only
\* an answer if the turn has ended.
LEMMA InterruptionReported ==
  ASSUME TypeOK, NEW c \in Interrupters, Interrupts(c)
  PROVE  /\ turn = "running" =>
              /\ \A x : Has(wire', x) <=> (Has(wire, x) \/ x = <<"accepts", c>>
                                             \/ x = <<"ended", "interrupted">>)
              /\ (Distinct(wire) /\ ~Has(wire, <<"accepts", c>>)
                    /\ ~Has(wire, <<"ended", "interrupted">>)) => Distinct(wire')
         /\ turn # "running" =>
              \E m \in {<<"accepts", c>>, <<"rejects", c>>} :
                 /\ \A x : Has(wire', x) <=> (Has(wire, x) \/ x = m)
                 /\ (Distinct(wire) /\ ~Has(wire, m)) => Distinct(wire')
<1> DEFINE accepts == <<"accepts", c>>  rejects == <<"rejects", c>>
           ended == <<"ended", "interrupted">>
<1>1. accepts \in Message /\ rejects \in Message /\ ended \in Message /\ accepts # ended
  BY Messages DEF Ends, Callers
<1>2. wire \in Seq(Message)
  BY DEF TypeOK
<1> HIDE DEF accepts, rejects, ended
<1>3. ASSUME NEW m \in {accepts, ended}, NEW n \in {accepts, ended}, m # n,
             wire' = Append(Append(wire, m), n)
      PROVE  /\ \A x : Has(wire', x) <=> (Has(wire, x) \/ x = accepts \/ x = ended)
             /\ (Distinct(wire) /\ ~Has(wire, accepts) /\ ~Has(wire, ended)) => Distinct(wire')
  <2> DEFINE between == Append(wire, m)
  <2>0. m \in Message /\ n \in Message
    BY <1>1
  <2>1. /\ between \in Seq(Message)
        /\ \A x : Has(between, x) <=> (Has(wire, x) \/ x = m)
        /\ (Distinct(wire) /\ ~Has(wire, m)) => Distinct(between)
    BY <1>2, <2>0, Written
  <2>2. wire' = Append(between, n)
    BY <1>3
  <2> HIDE DEF between
  <2>3. /\ \A x : Has(wire', x) <=> (Has(between, x) \/ x = n)
        /\ (Distinct(between) /\ ~Has(between, n)) => Distinct(wire')
    BY <2>0, <2>1, <2>2, Written
  <2>. QED BY <1>3, <2>1, <2>3
<1>4. CASE turn = "running"
  <2>1. wire' = Append(Append(wire, accepts), ended) \/ wire' = Append(Append(wire, ended), accepts)
    BY <1>4 DEF Interrupts, accepts, ended
  <2>2. /\ \A x : Has(wire', x) <=> (Has(wire, x) \/ x = accepts \/ x = ended)
        /\ (Distinct(wire) /\ ~Has(wire, accepts) /\ ~Has(wire, ended)) => Distinct(wire')
    BY <1>1, <1>3, <2>1
  <2>. QED BY <1>4, <2>2 DEF accepts, ended
<1>5. CASE turn # "running"
  <2>1. PICK m \in {accepts, rejects} : Reports(m)
    BY <1>5 DEF Interrupts, accepts, rejects
  <2>2. /\ \A x : Has(wire', x) <=> (Has(wire, x) \/ x = m)
        /\ (Distinct(wire) /\ ~Has(wire, m)) => Distinct(wire')
    BY <1>1, <2>1, Reported
  <2>. QED BY <1>5, <2>2 DEF accepts, rejects
<1>. QED BY <1>4, <1>5

\* Which steps write and read the pipe; the others leave it, and the turn unless it runs.
LEMMA Frame ==
  ASSUME Next
  PROVE  \/ \E kind : Reads(kind)
         \/ \E status \in Ends : TurnEnds(status)
         \/ Terminates
         \/ \E r \in Requests : Asks(r) \/ Withdraws(r)
         \/ \E c \in Senders : Steers(c)
         \/ \E c \in Interrupters : Interrupts(c)
         \/ wire' = wire /\ (turn' = turn \/ turn = "running")
<1>1. CASE \E status \in Ends : TurnEnds(status)
  BY <1>1
<1>2. CASE \E r \in Requests : Asks(r) \/ Withdraws(r)
  BY <1>2
<1>3. CASE ReadsStarted \/ ReadsEnd \/ ReadsRequest \/ ReadsWithdrawal \/ ReadsAnswer
  BY <1>3 DEF ReadsStarted, ReadsEnd, ReadsRequest, ReadsWithdrawal, ReadsAnswer
<1>4. CASE Started \/ ResultKnown \/ Gone \/ ServiceLost
  BY <1>4 DEF Started, ResultKnown, Gone, ServiceLost, service
<1>5. CASE StartFails \/ Drained
  BY <1>5 DEF StartFails, Drained, Closes, Stopped
<1>6. CASE \E r \in Requests : Notified(r) \/ Answers(r) \/ HandlerFails(r)
  BY <1>6 DEF Notified, Answers, HandlerFails, service
<1>7. ASSUME NEW c \in Callers, ControlStep(c)
      PROVE  \/ c \in Senders /\ Steers(c)
             \/ c \in Interrupters /\ Interrupts(c)
             \/ wire' = wire /\ turn' = turn
  BY <1>7 DEF ControlStep, Calls, Takes, Refused, Goes, Confirms, Responds, Replies,
              ServingTimesOut, CallTimesOut, ReadsResponse, TimesOut, CallerDies, service
<1>. QED BY <1>1, <1>2, <1>3, <1>4, <1>5, <1>6, <1>7, Steps

\* No message is twice in the pipe, and the end in it is that of the turn.
LEMMA PipeKept == ASSUME Inv, Next PROVE PipeOK'
<1>. USE DEF Inv
<1>1. ASSUME NEW status \in Ends, TurnEnds(status) PROVE PipeOK'
  <2>1. Reports(<<"ended", status>>) /\ turn = "running" /\ turn' = status
    BY <1>1 DEF TurnEnds
  <2>2. /\ \A x : Has(wire', x) <=> (Has(wire, x) \/ x = <<"ended", status>>)
        /\ (Distinct(wire) /\ ~Has(wire, <<"ended", status>>)) => Distinct(wire')
    BY <2>1, Messages, Reported
  <2>. QED BY <2>1, <2>2 DEF PipeOK, Ends
<1>2. CASE Terminates
  <2>1. Reports(<<"ended", "interrupted">>) /\ turn = "running" /\ turn' = "interrupted"
    BY <1>2 DEF Terminates
  <2>2. /\ \A x : Has(wire', x) <=> (Has(wire, x) \/ x = <<"ended", "interrupted">>)
        /\ (Distinct(wire) /\ ~Has(wire, <<"ended", "interrupted">>)) => Distinct(wire')
    BY <2>1, Messages, Reported DEF Ends
  <2>. QED BY <2>1, <2>2 DEF PipeOK, Ends
<1>3. ASSUME NEW r \in Requests, Asks(r) \/ Withdraws(r) PROVE PipeOK'
  <2>1. PICK kind \in {"asks", "withdraws"} : Reports(<<kind, r>>) /\ ~Has(wire, <<kind, r>>)
    BY <1>3 DEF Asks, Withdraws, RequestsOK, RequestOK
  <2>2. /\ \A x : Has(wire', x) <=> (Has(wire, x) \/ x = <<kind, r>>)
        /\ (Distinct(wire) /\ ~Has(wire, <<kind, r>>)) => Distinct(wire')
    BY <2>1, Messages, Reported
  <2>3. turn' = turn
    BY <1>3 DEF Asks, Withdraws
  <2>. QED BY <2>1, <2>2, <2>3 DEF PipeOK
<1>4. ASSUME NEW c \in Senders, Steers(c) PROVE PipeOK'
  <2>1. PICK kind \in {"accepts", "rejects"} : Reports(<<kind, c>>)
    BY <1>4 DEF Steers
  <2>2. ~Has(wire, <<kind, c>>) /\ turn' = turn
    BY <1>4, CallerAssumption DEF Steers, Active, Begins, OperationsOK, Callers
  <2>3. /\ \A x : Has(wire', x) <=> (Has(wire, x) \/ x = <<kind, c>>)
        /\ (Distinct(wire) /\ ~Has(wire, <<kind, c>>)) => Distinct(wire')
    BY <2>1, Messages, Reported DEF Callers
  <2>4. c \notin Repliers
    BY CallerAssumption DEF CallerAssumption
  <2>. QED BY <2>2, <2>3, <2>4 DEF PipeOK
<1>5. ASSUME NEW c \in Interrupters, Interrupts(c) PROVE PipeOK'
  <2>1. ~Has(wire, <<"accepts", c>>) /\ ~Has(wire, <<"rejects", c>>)
    BY <1>5 DEF Interrupts, Active, Begins, OperationsOK, Callers
  <2>2. c \notin Repliers
    BY CallerAssumption DEF CallerAssumption
  <2>3. CASE turn = "running"
    <3>1. turn' = "interrupted" /\ \A s \in Ends : ~Has(wire, <<"ended", s>>)
      BY <1>5, <2>3 DEF Interrupts, PipeOK, Ends
    <3>. QED BY <1>5, <2>1, <2>2, <2>3, <3>1, InterruptionReported DEF PipeOK, Ends
  <2>4. CASE turn # "running"
    <3>1. turn' = turn
      BY <1>5, <2>4 DEF Interrupts
    <3>2. PICK m \in {<<"accepts", c>>, <<"rejects", c>>} :
            /\ \A x : Has(wire', x) <=> (Has(wire, x) \/ x = m)
            /\ (Distinct(wire) /\ ~Has(wire, m)) => Distinct(wire')
      BY <1>5, <2>4, InterruptionReported
    <3>. QED BY <2>1, <2>2, <3>1, <3>2 DEF PipeOK, Ends
  <2>. QED BY <2>3, <2>4
<1>6. ASSUME NEW kind, Reads(kind) PROVE PipeOK'
  <2>1. turn' = turn
    BY <1>6 DEF Reads, service
  <2>. QED BY <1>6, <2>1, Consumed DEF PipeOK
<1>7. CASE wire' = wire /\ (turn' = turn \/ turn = "running")
  BY <1>7 DEF PipeOK, Ends
<1>. QED BY <1>1, <1>2, <1>3, <1>4, <1>5, <1>6, <1>7, Frame

\* What the Worker knows of the turn stays true.
LEMMA TurnKept == ASSUME Inv, Next PROVE TurnOK'
<1>. USE DEF Inv
<1>1. CASE (\E status \in Ends : TurnEnds(status)) \/ Terminates
  BY <1>1 DEF TurnEnds, Terminates, TurnOK, Ends, execution, control
<1>2. CASE \E r \in Requests : Asks(r) \/ Withdraws(r) \/ Notified(r) \/ Answers(r)
  BY <1>2 DEF Asks, Withdraws, Notified, Answers, TurnOK, service, execution, control
<1>3. CASE ServiceLost
  <2>1. faults' # 0
    BY <1>3 DEF ServiceLost, Fault, TypeOK
  <2>. QED BY <1>3, <2>1 DEF ServiceLost, Breaks, TurnOK, Ends, control
<1>4. CASE ReadsStarted \/ ReadsRequest \/ ReadsWithdrawal
  BY <1>4 DEF ReadsStarted, ReadsRequest, ReadsWithdrawal, Reads, TurnOK, service
<1>5. CASE ReadsEnd
  <2>1. PICK s \in Ends : Head(wire) = <<"ended", s>>
    BY <1>5, Consumed, Kinds DEF ReadsEnd
  <2>2. turn = s
    BY <1>5, <2>1, Consumed DEF ReadsEnd, PipeOK
  <2>3. result' \in {result, s}
    BY <1>5, <2>1 DEF ReadsEnd
  <2>. QED BY <1>5, <2>2, <2>3 DEF ReadsEnd, Reads, TurnOK, service
<1>6. CASE ReadsAnswer
  BY <1>6 DEF ReadsAnswer, Reads, TurnOK, service
<1>7. CASE Started \/ ResultKnown \/ Gone
  BY <1>7 DEF Started, ResultKnown, Gone, Outcome, TurnOK, Ends, service, control
<1>8. CASE StartFails \/ Drained
  <2>1. outcome' \in {"completed", "interrupted"} => outcome' = result
    BY <1>8 DEF StartFails, Drained, Outcome
  <2>2. outcome' # "none"
    BY <1>8 DEF StartFails, Drained, Outcome
  <2>3. turn' = Stopped /\ broken' /\ owner' = "closed" /\ result' \in {result, "error"}
    BY <1>8 DEF StartFails, Drained, Closes, Breaks
  <2>4. \A c \in Callers : operation'[c] \notin InProgress \cup {"scheduled"}
    BY <1>8 DEF StartFails, Drained, Closes, InProgress, TypeOK
  <2>. QED BY <2>1, <2>2, <2>3, <2>4 DEF Stopped, TurnOK, Ends
<1>9. CASE \E r \in Requests : HandlerFails(r)
  <2>1. faults' # 0
    BY <1>9 DEF HandlerFails, Fault, TypeOK
  <2>. QED BY <1>9, <2>1 DEF HandlerFails, TurnOK, Ends, control
<1>10. ASSUME NEW c \in Callers, ControlStep(c) PROVE TurnOK'
  <2>1. CASE Calls(c) \/ Responds(c) \/ ServingTimesOut(c) \/ ReadsResponse(c) \/ TimesOut(c)
    BY <2>1 DEF Calls, Responds, ServingTimesOut, ReadsResponse, TimesOut, TurnOK, service,
                execution
  <2>2. CASE CallerDies(c)
    <3>1. faults' # 0
      BY <2>2 DEF CallerDies, Fault, TypeOK
    <3>. QED BY <2>2, <3>1 DEF CallerDies, TurnOK, service, execution
  <2>3. CASE CallTimesOut(c)
    <3>1. faults' # 0 /\ owner \notin {"closed", "gone"} /\ owner' = owner
      BY <2>3 DEF CallTimesOut, Fault, TypeOK, TurnOK
    <3>. QED BY <2>3, <3>1 DEF CallTimesOut, Breaks, TurnOK, Ends, service
  <2>4. CASE Takes(c)
    BY <2>4 DEF Takes, TurnOK, TypeOK, InProgress, service, execution
  <2>5. CASE Refused(c) \/ Goes(c) \/ Confirms(c) \/ Replies(c)
    <3>1. operation[c] \in InProgress \cup {"scheduled"}
      BY <2>5 DEF Refused, Goes, GivenUp, Confirms, Replies, Begins, InProgress
    <3>. QED BY <2>5, <3>1 DEF Refused, Goes, Confirms, Replies, TurnOK, service, execution
  <2>6. CASE (c \in Senders /\ Steers(c)) \/ (c \in Interrupters /\ Interrupts(c))
    <3>1. operation[c] = "scheduled" /\ (turn' = turn \/ turn = "running")
      BY <2>6 DEF Steers, Interrupts, Begins
    <3>2. UNCHANGED <<owner, result, broken, outcome, faults>>
      BY <2>6 DEF Steers, Interrupts, execution
    <3>. QED BY <3>1, <3>2 DEF TurnOK, Ends
  <2>. QED BY <1>10, <2>1, <2>2, <2>3, <2>4, <2>5, <2>6 DEF ControlStep
<1>. QED BY <1>1, <1>2, <1>3, <1>4, <1>5, <1>6, <1>7, <1>8, <1>9, <1>10, Steps

\* A request of the service stays with its handler, and is answered once.
LEMMA RequestsKept == ASSUME Inv, Next PROVE RequestsOK'
<1>. USE DEF Inv
<1>1. ASSUME UNCHANGED <<answers, handler, request>>,
             \A r \in Requests : /\ Has(wire', <<"asks", r>>) => Has(wire, <<"asks", r>>)
                                 /\ Has(wire', <<"withdraws", r>>) => Has(wire, <<"withdraws", r>>)
      PROVE  RequestsOK'
  BY <1>1 DEF RequestsOK, RequestOK
<1>2. ASSUME NEW status \in Ends, TurnEnds(status) PROVE RequestsOK'
  <2>1. \A x : Has(wire', x) <=> (Has(wire, x) \/ x = <<"ended", status>>)
    BY <1>2, Messages, Reported DEF TurnEnds
  <2>2. UNCHANGED <<answers, handler, request>>
    BY <1>2 DEF TurnEnds
  <2>. QED BY <1>1, <2>1, <2>2
<1>3. CASE Terminates
  <2>1. \A x : Has(wire', x) <=> (Has(wire, x) \/ x = <<"ended", "interrupted">>)
    BY <1>3, Messages, Reported DEF Terminates, Ends
  <2>2. UNCHANGED <<answers, handler, request>>
    BY <1>3 DEF Terminates
  <2>. QED BY <1>1, <2>1, <2>2
<1>4. ASSUME NEW c \in Senders, Steers(c) PROVE RequestsOK'
  <2>1. PICK kind \in {"accepts", "rejects"} : Reports(<<kind, c>>)
    BY <1>4 DEF Steers
  <2>2. \A x : Has(wire', x) <=> (Has(wire, x) \/ x = <<kind, c>>)
    BY <2>1, Messages, Reported DEF Callers
  <2>3. UNCHANGED <<answers, handler, request>>
    BY <1>4 DEF Steers
  <2>. QED BY <1>1, <2>2, <2>3
<1>5. ASSUME NEW c \in Interrupters, Interrupts(c) PROVE RequestsOK'
  <2>1. \A x : Has(wire', x) => (Has(wire, x) \/ x \in {<<"accepts", c>>, <<"rejects", c>>,
                                                       <<"ended", "interrupted">>})
    BY <1>5, InterruptionReported
  <2>2. UNCHANGED <<answers, handler, request>>
    BY <1>5 DEF Interrupts
  <2>. QED BY <1>1, <2>1, <2>2
<1>6. CASE ReadsStarted \/ ReadsEnd \/ ReadsAnswer
  <2>1. PICK kind : Reads(kind)
    BY <1>6 DEF ReadsStarted, ReadsEnd, ReadsAnswer
  <2>2. UNCHANGED <<answers, handler, request>>
    BY <1>6 DEF ReadsStarted, ReadsEnd, ReadsAnswer, Reads, service
  <2>. QED BY <1>1, <2>1, <2>2, Consumed
<1>7. ASSUME NEW r \in Requests, Asks(r) \/ Withdraws(r) PROVE RequestsOK'
  <2>1. CASE Asks(r)
    <3>1. \A x : Has(wire', x) <=> (Has(wire, x) \/ x = <<"asks", r>>)
      BY <2>1, Messages, Reported DEF Asks
    <3>2. /\ request[r] = "none" /\ request' = [request EXCEPT ![r] = "open"]
          /\ UNCHANGED <<answers, handler>>
      BY <2>1 DEF Asks
    <3>. QED BY <3>1, <3>2 DEF RequestsOK, RequestOK, TypeOK
  <2>2. CASE Withdraws(r)
    <3>1. \A x : Has(wire', x) <=> (Has(wire, x) \/ x = <<"withdraws", r>>)
      BY <2>2, Messages, Reported DEF Withdraws
    <3>2. /\ request[r] = "open" /\ request' = [request EXCEPT ![r] = "settled"]
          /\ UNCHANGED <<answers, handler>>
      BY <2>2 DEF Withdraws
    <3>. QED BY <3>1, <3>2 DEF RequestsOK, RequestOK, TypeOK
  <2>. QED BY <1>7, <2>1, <2>2
<1>8. CASE ReadsRequest \/ ReadsWithdrawal
  <2>1. PICK kind \in {"asks", "withdraws"} :
          /\ Reads(kind)
          /\ handler' = [handler EXCEPT ![Head(wire)[2]] =
                           IF kind = "asks" THEN "notifying" ELSE "gone"]
    BY <1>8 DEF ReadsRequest, ReadsWithdrawal
  <2>2. PICK r \in Requests : Head(wire) = <<kind, r>>
    BY <2>1, Consumed, Kinds
  <2>3. /\ Has(wire, <<kind, r>>) /\ ~Has(wire', <<kind, r>>)
        /\ \A x : Has(wire', x) => Has(wire, x)
    BY <2>1, <2>2, Consumed DEF PipeOK
  <2>4. UNCHANGED <<answers, request>>
    BY <2>1 DEF Reads, service
  <2>5. handler' = [handler EXCEPT ![r] = IF kind = "asks" THEN "notifying" ELSE "gone"]
    <3>1. Head(wire)[2] = r
      BY <2>2
    <3>. QED BY <2>1, <3>1
  <2>6. CASE kind = "asks"
    BY <2>3, <2>4, <2>5, <2>6 DEF RequestsOK, RequestOK, TypeOK
  <2>7. CASE kind = "withdraws"
    BY <2>3, <2>4, <2>5, <2>7 DEF RequestsOK, RequestOK, TypeOK
  <2>. QED BY <2>6, <2>7
<1>9. ASSUME NEW r \in Requests, Notified(r) \/ Answers(r) \/ HandlerFails(r) PROVE RequestsOK'
  <2>1. wire' = wire /\ handler[r] \in {"notifying", "waiting"}
    BY <1>9 DEF Notified, Answers, HandlerFails
  <2>2. CASE Notified(r)
    BY <2>1, <2>2 DEF Notified, RequestsOK, RequestOK, TypeOK, service
  <2>3. CASE UNCHANGED <<answers, request>> /\ handler' = [handler EXCEPT ![r] = "gone"]
    BY <2>1, <2>3 DEF RequestsOK, RequestOK, TypeOK
  <2>4. CASE /\ answers' = [answers EXCEPT ![r] = @ + 1]
             /\ request' = [request EXCEPT ![r] = "settled"]
             /\ handler' = [handler EXCEPT ![r] = "gone"]
    <3>1. answers[r] = 0 /\ ~Has(wire, <<"asks", r>>)
      BY <2>1 DEF RequestsOK, RequestOK
    <3>2. answers'[r] = 1 /\ request'[r] = "settled" /\ handler'[r] = "gone"
      BY <2>4, <3>1 DEF TypeOK
    <3>3. ASSUME NEW q \in Requests, q # r
          PROVE  answers'[q] = answers[q] /\ request'[q] = request[q] /\ handler'[q] = handler[q]
      BY <2>4, <3>3 DEF TypeOK
    <3>. SUFFICES ASSUME NEW q \in Requests PROVE RequestOK(q)'
      BY DEF RequestsOK
    <3>4. CASE q = r
      BY <2>1, <3>1, <3>2, <3>4 DEF RequestOK
    <3>5. CASE q # r
      BY <2>1, <3>3, <3>5 DEF RequestsOK, RequestOK
    <3>. QED BY <3>4, <3>5
  <2>5. Answers(r) \/ HandlerFails(r) =>
          /\ handler' = [handler EXCEPT ![r] = "gone"]
          /\ \/ UNCHANGED <<answers, request>>
             \/ /\ answers' = [answers EXCEPT ![r] = @ + 1]
                /\ request' = [request EXCEPT ![r] = "settled"]
    BY DEF Answers, HandlerFails
  <2>. QED BY <1>9, <2>2, <2>3, <2>4, <2>5
<1>10. CASE StartFails \/ Drained
  <2>1. UNCHANGED <<wire, answers, request>> /\ handler' = [r \in Requests |-> "gone"]
    BY <1>10 DEF StartFails, Drained, Closes
  <2>. QED BY <2>1 DEF RequestsOK, RequestOK
<1>11. CASE Started \/ ResultKnown \/ Gone \/ ServiceLost
  BY <1>1, <1>11 DEF Started, ResultKnown, Gone, ServiceLost, service
<1>12. ASSUME NEW c \in Callers, ControlStep(c) PROVE RequestsOK'
  <2>1. CASE (c \in Senders /\ Steers(c)) \/ (c \in Interrupters /\ Interrupts(c))
    BY <1>4, <1>5, <2>1
  <2>2. CASE UNCHANGED <<answers, handler, request, wire>>
    BY <1>1, <2>2
  <2>. QED BY <1>12, <2>1, <2>2
         DEF ControlStep, Calls, Takes, Refused, Goes, Confirms, Responds, Replies,
             ServingTimesOut, CallTimesOut, ReadsResponse, TimesOut, CallerDies, service
<1>. QED BY <1>2, <1>3, <1>6, <1>7, <1>8, <1>9, <1>10, <1>11, <1>12, Steps

\* What callers are told follows their operations, and only one that waits has an answer
\* in the pipe.
LEMMA OperationsKept == ASSUME Inv, Next PROVE OperationsOK'
<1>. USE DEF Inv
<1>1. ASSUME UNCHANGED <<caller, operation>>, broken' = broken \/ broken' = TRUE,
             \A c \in Callers : /\ Has(wire', <<"accepts", c>>) => Has(wire, <<"accepts", c>>)
                                /\ Has(wire', <<"rejects", c>>) => Has(wire, <<"rejects", c>>)
      PROVE  OperationsOK'
  <2>1. broken' = FALSE => broken = FALSE
    BY <1>1 DEF TypeOK
  <2>2. broken' \in BOOLEAN
    BY <1>1 DEF TypeOK
  <2>. QED BY <1>1, <2>1, <2>2 DEF OperationsOK
<1>2. ASSUME NEW status \in Ends, TurnEnds(status) PROVE OperationsOK'
  <2>1. \A x : Has(wire', x) <=> (Has(wire, x) \/ x = <<"ended", status>>)
    BY <1>2, Messages, Reported DEF TurnEnds
  <2>. QED BY <1>1, <1>2, <2>1 DEF TurnEnds, execution, control
<1>3. CASE Terminates
  <2>1. \A x : Has(wire', x) <=> (Has(wire, x) \/ x = <<"ended", "interrupted">>)
    BY <1>3, Messages, Reported DEF Terminates, Ends
  <2>. QED BY <1>1, <1>3, <2>1 DEF Terminates, execution, control
<1>4. ASSUME NEW r \in Requests, Asks(r) \/ Withdraws(r) PROVE OperationsOK'
  <2>1. PICK kind \in {"asks", "withdraws"} : Reports(<<kind, r>>)
    BY <1>4 DEF Asks, Withdraws
  <2>2. \A x : Has(wire', x) <=> (Has(wire, x) \/ x = <<kind, r>>)
    BY <2>1, Messages, Reported
  <2>. QED BY <1>1, <1>4, <2>2 DEF Asks, Withdraws, execution, control
<1>5. CASE ReadsStarted \/ ReadsEnd \/ ReadsRequest \/ ReadsWithdrawal
  <2>1. PICK kind : Reads(kind)
    BY <1>5 DEF ReadsStarted, ReadsEnd, ReadsRequest, ReadsWithdrawal
  <2>2. UNCHANGED <<caller, operation, broken>>
    BY <1>5 DEF ReadsStarted, ReadsEnd, ReadsRequest, ReadsWithdrawal, Reads
  <2>. QED BY <1>1, <2>1, <2>2, Consumed
<1>6. CASE ReadsAnswer
  <2>1. PICK kind \in {"accepts", "rejects"} :
          /\ Reads(kind)
          /\ operation' = [operation EXCEPT ![Head(wire)[2]] =
                             IF kind = "accepts" THEN "accepted" ELSE "rejected"]
    BY <1>6 DEF ReadsAnswer
  <2>2. PICK d \in Callers : Head(wire) = <<kind, d>>
    BY <2>1, Consumed, Kinds
  <2>3. /\ Has(wire, <<kind, d>>) /\ ~Has(wire', <<kind, d>>)
        /\ \A x : Has(wire', x) => Has(wire, x)
    BY <2>1, <2>2, Consumed DEF PipeOK
  <2>4. UNCHANGED <<caller, broken>> /\ ~broken
    BY <2>1 DEF Reads
  <2>5. operation[d] = "called" /\ ~Has(wire', <<"accepts", d>>) /\ ~Has(wire', <<"rejects", d>>)
    BY <2>3, <2>4 DEF OperationsOK
  <2>6. PICK state \in {"accepted", "rejected"} : operation' = [operation EXCEPT ![d] = state]
    <3>1. Head(wire)[2] = d
      BY <2>2
    <3>. QED BY <2>1, <3>1
  <2>. QED BY <2>3, <2>4, <2>5, <2>6 DEF OperationsOK, TypeOK
<1>7. CASE Started \/ ResultKnown \/ Gone \/ ServiceLost
  BY <1>1, <1>7 DEF Started, ResultKnown, Gone, ServiceLost, Breaks, control
<1>8. CASE \E r \in Requests : Notified(r) \/ Answers(r) \/ HandlerFails(r)
  BY <1>1, <1>8 DEF Notified, Answers, HandlerFails, execution, control
<1>9. CASE StartFails \/ Drained
  <2>1. UNCHANGED caller /\ broken'
    BY <1>9 DEF StartFails, Drained, Closes, Breaks
  <2>2. \A c \in Callers : operation[c] \in {"none", "ok"} => operation'[c] = operation[c]
    BY <1>9 DEF StartFails, Drained, Closes, InProgress
  <2>. QED BY <2>1, <2>2 DEF OperationsOK
<1>10. ASSUME NEW c \in Callers, ControlStep(c) PROVE OperationsOK'
  <2>1. CASE Calls(c) \/ TimesOut(c) \/ CallerDies(c) \/ ReadsResponse(c) \/ ServingTimesOut(c)
    <3>1. UNCHANGED <<wire, operation, broken>>
      BY <2>1 DEF Calls, TimesOut, CallerDies, ReadsResponse, ServingTimesOut, execution
    <3>2. \/ caller' = caller
          \/ caller' = [caller EXCEPT ![c] = "asked"] /\ caller[c] = "idle"
          \/ caller' = [caller EXCEPT ![c] = "acknowledged"] /\ caller[c] = "ok"
          \/ \E state \in {"timeout", "dead", "denied", "refused"} :
                caller' = [caller EXCEPT ![c] = state]
      <4>1. CASE ServingTimesOut(c)
        BY <4>1 DEF ServingTimesOut, TypeOK
      <4>2. CASE ReadsResponse(c)
        BY <4>2 DEF ReadsResponse, TypeOK
      <4>. QED BY <2>1, <4>1, <4>2 DEF Calls, TimesOut, CallerDies
    <3>. QED BY <3>1, <3>2 DEF OperationsOK, TypeOK
  <2>2. CASE Responds(c)
    <3>1. UNCHANGED <<wire, operation, broken>>
      BY <2>2 DEF Responds, execution
    <3>2. PICK state \in {"ok", "refused", caller[c]} :
            /\ caller' = [caller EXCEPT ![c] = state]
            /\ state = "ok" => operation[c] = "ok"
      BY <2>2 DEF Responds, OperationsOK
    <3>. QED BY <3>1, <3>2 DEF OperationsOK, TypeOK
  <2>3. CASE Takes(c)
    <3>1. UNCHANGED <<wire, broken>> /\ operation[c] = "none"
      BY <2>3 DEF Takes, execution, OperationsOK
    <3>. QED BY <2>3, <3>1 DEF Takes, OperationsOK, TypeOK
  <2>4. CASE CallTimesOut(c)
    <3>1. broken' /\ operation[c] = "called" /\ operation' = [operation EXCEPT ![c] = "error"]
            /\ caller' = caller
      BY <2>4 DEF CallTimesOut, Breaks, Becomes
    <3>. QED BY <3>1 DEF OperationsOK, TypeOK
  <2>5. CASE Refused(c) \/ Goes(c) \/ Confirms(c) \/ Replies(c)
    <3>1. UNCHANGED <<wire, broken, caller>>
      BY <2>5 DEF Refused, Goes, Confirms, Replies, execution
    <3>2. /\ operation[c] \notin {"none", "ok"}
          /\ operation[c] = "called" => broken
      BY <2>5 DEF Refused, Goes, GivenUp, Confirms, Replies, Begins
    <3>3. PICK state \in {"ok", "error", "awaiting"} : operation' = [operation EXCEPT ![c] = state]
      BY <2>5 DEF Refused, Goes, Confirms, Replies, Becomes
    <3>. QED BY <3>1, <3>2, <3>3 DEF OperationsOK, TypeOK
  <2>6. CASE (c \in Senders /\ Steers(c)) \/ (c \in Interrupters /\ Interrupts(c))
    <3>1. /\ UNCHANGED <<broken, caller>> /\ ~broken
          /\ operation[c] = "scheduled" /\ operation' = [operation EXCEPT ![c] = "called"]
      BY <2>6 DEF Steers, Interrupts, Begins, Active, Becomes, execution
    <3>2. PICK kind \in {"accepts", "rejects"} :
            \A x : Has(wire', x) => \/ Has(wire, x) \/ x = <<kind, c>>
                                    \/ x = <<"ended", "interrupted">>
      <4>1. CASE c \in Senders /\ Steers(c)
        <5>1. PICK kind \in {"accepts", "rejects"} : Reports(<<kind, c>>)
          BY <4>1 DEF Steers
        <5>2. \A x : Has(wire', x) <=> (Has(wire, x) \/ x = <<kind, c>>)
          BY <5>1, Messages, Reported
        <5>. QED BY <5>2
      <4>2. CASE c \in Interrupters /\ Interrupts(c)
        BY <4>2, InterruptionReported
      <4>. QED BY <2>6, <4>1, <4>2
    <3>3. ~Has(wire, <<"accepts", c>>) /\ ~Has(wire, <<"rejects", c>>)
      BY <3>1 DEF OperationsOK
    <3>. QED BY <3>1, <3>2, <3>3 DEF OperationsOK, TypeOK
  <2>. QED BY <1>10, <2>1, <2>2, <2>3, <2>4, <2>5, <2>6 DEF ControlStep
<1>. QED BY <1>2, <1>3, <1>4, <1>5, <1>6, <1>7, <1>8, <1>9, <1>10, Steps

\* An interruption that was confirmed stays one: the turn has ended, and ends once.
LEMMA InterruptersKept == ASSUME Inv, Next PROVE InterruptersOK'
<1>. USE DEF Inv
<1>1. ASSUME turn' = turn \/ turn = "running",
             \A c \in Interrupters : operation'[c] = "ok" => operation[c] = "ok"
      PROVE  InterruptersOK'
  BY <1>1 DEF InterruptersOK
<1>2. CASE \/ \E status \in Ends : TurnEnds(status)
           \/ \E r \in Requests : Asks(r) \/ Withdraws(r)
           \/ Terminates \/ ServiceLost
  BY <1>1, <1>2 DEF TurnEnds, Asks, Withdraws, Terminates, ServiceLost, control
<1>3. CASE ReadsStarted \/ ReadsEnd \/ ReadsRequest \/ ReadsWithdrawal
  BY <1>1, <1>3 DEF ReadsStarted, ReadsEnd, ReadsRequest, ReadsWithdrawal, Reads, service
<1>4. CASE ReadsAnswer
  <2>1. PICK state \in {"accepted", "rejected"} :
          operation' = [operation EXCEPT ![Head(wire)[2]] = state]
    BY <1>4 DEF ReadsAnswer
  <2>2. turn' = turn
    BY <1>4 DEF ReadsAnswer, Reads, service
  <2>. QED BY <1>1, <2>1, <2>2 DEF TypeOK, Callers
<1>5. CASE Started \/ ResultKnown \/ Gone
  BY <1>1, <1>5 DEF Started, ResultKnown, Gone, service, control
<1>6. CASE StartFails \/ Drained
  BY <1>1, <1>6 DEF StartFails, Drained, Closes, Stopped, Callers
<1>7. CASE \E r \in Requests : Notified(r) \/ Answers(r) \/ HandlerFails(r)
  BY <1>1, <1>7 DEF Notified, Answers, HandlerFails, service, control
<1>8. ASSUME NEW c \in Callers, ControlStep(c) PROVE InterruptersOK'
  <2>1. CASE \/ Calls(c) \/ Responds(c) \/ ServingTimesOut(c) \/ ReadsResponse(c)
             \/ TimesOut(c) \/ CallerDies(c)
    BY <1>1, <2>1 DEF Calls, Responds, ServingTimesOut, ReadsResponse, TimesOut, CallerDies,
                      service
  <2>2. CASE Takes(c) \/ Refused(c) \/ CallTimesOut(c)
    <3>1. turn' = turn
      BY <2>2 DEF Takes, Refused, CallTimesOut, service
    <3>2. PICK state \in {"error", "scheduled"} : operation' = [operation EXCEPT ![c] = state]
      BY <2>2 DEF Takes, Refused, CallTimesOut, Becomes
    <3>. QED BY <1>1, <3>1, <3>2 DEF TypeOK, Callers
  <2>3. CASE (c \in Senders /\ Steers(c)) \/ (c \in Interrupters /\ Interrupts(c))
    <3>1. turn' = turn \/ turn = "running"
      BY <2>3 DEF Steers, Interrupts
    <3>2. operation' = [operation EXCEPT ![c] = "called"]
      BY <2>3 DEF Steers, Interrupts, Becomes
    <3>. QED BY <1>1, <3>1, <3>2 DEF TypeOK, Callers
  <2>4. CASE c \in Repliers /\ Replies(c)
    <3>1. turn' = turn /\ c \notin Interrupters
      BY <2>4, CallerAssumption DEF Replies, service, CallerAssumption
    <3>2. PICK state : operation' = [operation EXCEPT ![c] = state]
      BY <2>4 DEF Replies, Becomes
    <3>. QED BY <1>1, <3>1, <3>2 DEF TypeOK, Callers
  <2>5. CASE Goes(c)
    <3>1. turn' = turn
      BY <2>5 DEF Goes, service
    <3>2. PICK state \in {"ok", "error", "awaiting"} :
            /\ operation' = [operation EXCEPT ![c] = state]
            /\ state = "ok" => c \notin Interrupters
      BY <2>5 DEF Goes, Becomes
    <3>. QED BY <1>1, <3>1, <3>2 DEF TypeOK, Callers
  <2>6. CASE Confirms(c)
    <3>1. turn' = turn
      BY <2>6 DEF Confirms, service
    <3>2. PICK state \in {"ok", "error"} :
            /\ operation' = [operation EXCEPT ![c] = state]
            /\ state = "ok" => result = "interrupted"
      BY <2>6 DEF Confirms, ConfirmsInterruption, Becomes
    <3>. QED BY <3>1, <3>2 DEF TypeOK, Callers, InterruptersOK, TurnOK, Ends
  <2>. QED BY <1>8, <2>1, <2>2, <2>3, <2>4, <2>5, <2>6 DEF ControlStep
<1>. QED BY <1>2, <1>3, <1>4, <1>5, <1>6, <1>7, <1>8, Steps

\* Of the replies to a request one is accepted.
LEMMA RepliersKept == ASSUME Inv, Next PROVE RepliersOK'
<1>. USE CallerAssumption DEF Inv, CallerAssumption
<1>1. ASSUME reply' = reply,
             \A c \in Repliers : /\ operation'[c] \in {"none", "scheduled", "ok", "error"}
                                 /\ operation'[c] = "ok" => operation[c] = "ok"
      PROVE  RepliersOK'
  BY <1>1 DEF RepliersOK
<1>2. CASE UNCHANGED <<operation, reply>>
  BY <1>2 DEF RepliersOK
<1>3. ASSUME NEW c \in Callers, reply' = reply,
             NEW state, operation' = [operation EXCEPT ![c] = state],
             c \in Repliers => state \in {"scheduled", "error"}
      PROVE  RepliersOK'
  <2>1. operation \in [Callers -> {"none", "scheduled", "ok", "error"} \cup InProgress]
    BY DEF TypeOK
  <2>. QED BY <1>1, <1>3, <2>1 DEF RepliersOK, Callers
<1>4. CASE \/ \E status \in Ends : TurnEnds(status)
           \/ \E r \in Requests : Asks(r) \/ Withdraws(r) \/ Notified(r) \/ Answers(r)
           \/ \E r \in Requests : HandlerFails(r)
           \/ Terminates \/ ServiceLost \/ Started \/ ResultKnown \/ Gone
  BY <1>2, <1>4 DEF TurnEnds, Asks, Withdraws, Notified, Answers, HandlerFails, Terminates,
                    ServiceLost, Started, ResultKnown, Gone, control
<1>5. CASE ReadsStarted \/ ReadsEnd \/ ReadsRequest \/ ReadsWithdrawal
  BY <1>2, <1>5 DEF ReadsStarted, ReadsEnd, ReadsRequest, ReadsWithdrawal, Reads
<1>6. CASE ReadsAnswer
  <2>1. PICK kind \in {"accepts", "rejects"} :
          /\ Reads(kind)
          /\ operation' = [operation EXCEPT ![Head(wire)[2]] =
                             IF kind = "accepts" THEN "accepted" ELSE "rejected"]
    BY <1>6 DEF ReadsAnswer
  <2>2. PICK d \in Callers : Head(wire) = <<kind, d>>
    BY <2>1, Consumed, Kinds
  <2>3. Has(wire, <<kind, d>>) /\ reply' = reply
    BY <2>1, <2>2, Consumed DEF Reads
  <2>4. d \notin Repliers
    BY <2>3 DEF PipeOK
  <2>5. Head(wire)[2] = d
    BY <2>2
  <2>. QED BY <1>3, <2>1, <2>3, <2>4, <2>5
<1>7. CASE StartFails \/ Drained
  <2>1. reply' = reply
    BY <1>7 DEF StartFails, Drained, Closes
  <2>2. \A c \in Callers : operation'[c] \in {operation[c], "error"}
    BY <1>7 DEF StartFails, Drained, Closes
  <2>. QED BY <1>1, <2>1, <2>2 DEF RepliersOK, Callers
<1>8. ASSUME NEW c \in Callers, ControlStep(c) PROVE RepliersOK'
  <2>1. CASE \/ Calls(c) \/ Responds(c) \/ ServingTimesOut(c) \/ ReadsResponse(c)
             \/ TimesOut(c) \/ CallerDies(c)
    BY <1>2, <2>1 DEF Calls, Responds, ServingTimesOut, ReadsResponse, TimesOut, CallerDies
  <2>2. CASE Takes(c) \/ Refused(c) \/ CallTimesOut(c)
    <3>1. reply' = reply
      BY <2>2 DEF Takes, Refused, CallTimesOut
    <3>2. PICK state \in {"error", "scheduled"} : operation' = [operation EXCEPT ![c] = state]
      BY <2>2 DEF Takes, Refused, CallTimesOut, Becomes
    <3>. QED BY <1>3, <3>1, <3>2
  <2>3. CASE (c \in Senders /\ Steers(c)) \/ (c \in Interrupters /\ Interrupts(c))
    <3>1. /\ reply' = reply /\ operation' = [operation EXCEPT ![c] = "called"]
          /\ c \notin Repliers
      BY <2>3 DEF Steers, Interrupts, Becomes
    <3>. QED BY <1>3, <3>1
  <2>4. CASE Goes(c) \/ Confirms(c)
    <3>1. operation[c] \in InProgress /\ reply' = reply
      BY <2>4 DEF Goes, GivenUp, Confirms, InProgress
    <3>2. c \notin Repliers
      BY <3>1 DEF RepliersOK, InProgress
    <3>3. PICK state \in {"ok", "error", "awaiting"} : operation' = [operation EXCEPT ![c] = state]
      BY <2>4 DEF Goes, Confirms, Becomes
    <3>. QED BY <1>3, <3>1, <3>2, <3>3
  <2>5. CASE c \in Repliers /\ Replies(c)
    <3>1. CASE AwaitsReply(Target[c])
      <4>1. /\ reply' = reply \cup {Target[c]} /\ Target[c] \notin reply
            /\ operation' = [operation EXCEPT ![c] = "ok"]
        BY <2>5, <3>1 DEF Replies, AwaitsReply, Becomes
      <4>2. operation'[c] = "ok" /\ \A d \in Repliers \ {c} : operation'[d] = operation[d]
        BY <4>1 DEF TypeOK, Callers
      <4>. QED BY <2>5, <4>1, <4>2 DEF RepliersOK
    <3>2. CASE ~AwaitsReply(Target[c])
      BY <1>3, <2>5, <3>2 DEF Replies, Becomes
    <3>. QED BY <3>1, <3>2
  <2>. QED BY <1>8, <2>1, <2>2, <2>3, <2>4, <2>5 DEF ControlStep
<1>. QED BY <1>4, <1>5, <1>6, <1>7, <1>8, Steps

\* An instruction has entered the turn as far as the operation of its sender says.
LEMMA SendersKept == ASSUME Inv, Next PROVE SendersOK'
<1>. USE CallerAssumption DEF Inv, CallerAssumption
<1>0. /\ broken \in BOOLEAN /\ broken' \in BOOLEAN
      /\ faults' = 0 => faults = 0
  <2>1. TypeOK'
    BY Steps, ServiceTyped, ExecutionTyped, ControlTyped
  <2>2. faults' \in {faults, faults + 1}
    BY DEF Next, Execution, Handling, Operating, Serving, ReadsStarted, ReadsEnd, ReadsRequest,
           ReadsWithdrawal, ReadsAnswer, Reads, Started, StartFails, ResultKnown, Drained, Closes,
           Gone, TurnEnds, Asks, Withdraws, Notified, Answers, HandlerFails, Calls, Takes,
           Refused, Goes, Confirms, Responds, Steers, Interrupts, Replies, ServingTimesOut,
           CallTimesOut, ReadsResponse, TimesOut, CallerDies, Terminates, ServiceLost, Fault
  <2>. QED BY <2>1, <2>2 DEF TypeOK
\* What leaves an instruction and its operation alone.
<1>1. ASSUME NEW c \in Senders,
             UNCHANGED <<inputs[c], operation[c]>>, broken' = broken \/ broken',
             Has(wire', <<"accepts", c>>) => Has(wire, <<"accepts", c>>),
             Has(wire', <<"rejects", c>>) => Has(wire, <<"rejects", c>>),
             caller'[c] \in {"refused", "denied"} =>
               operation[c] = "error" \/ caller[c] \in {"refused", "denied"}
      PROVE  SenderOK(c)'
  BY <1>0, <1>1 DEF SendersOK, SenderOK
<1>2. ASSUME UNCHANGED <<inputs, operation, caller>>, broken' = broken \/ broken',
             \A c \in Senders : /\ Has(wire', <<"accepts", c>>) => Has(wire, <<"accepts", c>>)
                                /\ Has(wire', <<"rejects", c>>) => Has(wire, <<"rejects", c>>)
      PROVE  SendersOK'
  BY <1>1, <1>2 DEF SendersOK
<1>3. ASSUME NEW status \in Ends, TurnEnds(status) PROVE SendersOK'
  <2>1. \A x : Has(wire', x) <=> (Has(wire, x) \/ x = <<"ended", status>>)
    BY <1>3, Messages, Reported DEF TurnEnds
  <2>. QED BY <1>2, <1>3, <2>1 DEF TurnEnds, execution, control
<1>4. CASE Terminates
  <2>1. \A x : Has(wire', x) <=> (Has(wire, x) \/ x = <<"ended", "interrupted">>)
    BY <1>4, Messages, Reported DEF Terminates, Ends
  <2>. QED BY <1>2, <1>4, <2>1 DEF Terminates, execution, control
<1>5. ASSUME NEW r \in Requests, Asks(r) \/ Withdraws(r) PROVE SendersOK'
  <2>1. PICK kind \in {"asks", "withdraws"} : Reports(<<kind, r>>)
    BY <1>5 DEF Asks, Withdraws
  <2>2. \A x : Has(wire', x) <=> (Has(wire, x) \/ x = <<kind, r>>)
    BY <2>1, Messages, Reported
  <2>. QED BY <1>2, <1>5, <2>2 DEF Asks, Withdraws, execution, control
<1>6. CASE ReadsStarted \/ ReadsEnd \/ ReadsRequest \/ ReadsWithdrawal
  <2>1. PICK kind : Reads(kind)
    BY <1>6 DEF ReadsStarted, ReadsEnd, ReadsRequest, ReadsWithdrawal
  <2>2. UNCHANGED <<inputs, caller, operation, broken>>
    BY <1>6 DEF ReadsStarted, ReadsEnd, ReadsRequest, ReadsWithdrawal, Reads, service
  <2>. QED BY <1>2, <2>1, <2>2, Consumed
<1>7. CASE ReadsAnswer
  <2>1. PICK kind \in {"accepts", "rejects"} :
          /\ Reads(kind)
          /\ operation' = [operation EXCEPT ![Head(wire)[2]] =
                             IF kind = "accepts" THEN "accepted" ELSE "rejected"]
    BY <1>7 DEF ReadsAnswer
  <2>2. PICK d \in Callers : Head(wire) = <<kind, d>>
    BY <2>1, Consumed, Kinds
  <2>3. /\ Has(wire, <<kind, d>>) /\ ~Has(wire', <<kind, d>>)
        /\ \A x : Has(wire', x) => Has(wire, x)
    BY <2>1, <2>2, Consumed DEF PipeOK
  <2>4. UNCHANGED <<inputs, caller, broken>> /\ ~broken
    BY <2>1 DEF Reads, service
  <2>5. operation[d] = "called"
    BY <2>3, <2>4 DEF OperationsOK
  <2>6. Head(wire)[2] = d
    BY <2>2
  <2>7. operation' = [operation EXCEPT ![d] = IF kind = "accepts" THEN "accepted" ELSE "rejected"]
    BY <2>1, <2>6
  <2>8. ASSUME NEW c \in Senders PROVE SenderOK(c)'
    <3>1. CASE c = d
      <4>1. operation'[c] = IF kind = "accepts" THEN "accepted" ELSE "rejected"
        BY <2>7, <3>1 DEF TypeOK
      <4>2. inputs[c] = IF kind = "accepts" THEN 1 ELSE 0
        BY <2>3, <2>4, <3>1 DEF SendersOK, SenderOK
      <4>3. caller[c] \notin {"refused", "denied"}
        BY <2>5, <3>1 DEF SendersOK, SenderOK
      <4>4. /\ Has(wire', <<"accepts", c>>) => inputs[c] = 1
            /\ Has(wire', <<"rejects", c>>) => inputs[c] = 0
        BY <2>3, <2>4 DEF SendersOK, SenderOK
      <4>. QED BY <2>4, <4>1, <4>2, <4>3, <4>4 DEF SenderOK
    <3>2. CASE c # d
      <4>1. operation'[c] = operation[c]
        BY <2>7, <3>2 DEF TypeOK, Callers
      <4>. QED BY <1>1, <2>3, <2>4, <4>1
    <3>. QED BY <3>1, <3>2
  <2>. QED BY <2>8 DEF SendersOK
<1>8. CASE Started \/ ResultKnown \/ Gone \/ ServiceLost
  BY <1>2, <1>8 DEF Started, ResultKnown, Gone, ServiceLost, Breaks, service, control
<1>9. CASE \E r \in Requests : Notified(r) \/ Answers(r) \/ HandlerFails(r)
  BY <1>2, <1>9 DEF Notified, Answers, HandlerFails, service, execution, control
<1>10. CASE StartFails \/ Drained
  <2>1. UNCHANGED <<inputs, caller, wire, faults>> /\ broken'
    BY <1>10 DEF StartFails, Drained, Closes, Breaks
  <2>2. operation' = [c \in Callers |-> IF operation[c] \in InProgress \cup {"scheduled"}
                                          THEN "error" ELSE operation[c]]
    BY <1>10 DEF StartFails, Drained, Closes
  <2>3. faults = 0 => \A c \in Callers : operation[c] \notin InProgress
    BY <1>10 DEF StartFails, Drained, NothingUnderWay, TurnOK
  <2>4. ASSUME NEW c \in Senders PROVE SenderOK(c)'
    <3>1. operation'[c] = IF operation[c] \in InProgress \cup {"scheduled"}
                            THEN "error" ELSE operation[c]
      BY <2>2 DEF Callers
    <3>. QED BY <2>1, <2>3, <3>1 DEF SendersOK, SenderOK, InProgress, Callers
  <2>. QED BY <2>4 DEF SendersOK
<1>11. ASSUME NEW d \in Callers, ControlStep(d) PROVE SendersOK'
  <2>. SUFFICES ASSUME NEW c \in Senders PROVE SenderOK(c)'
    BY DEF SendersOK
  <2>1. CASE Calls(d) \/ TimesOut(d) \/ CallerDies(d)
    <3>1. UNCHANGED <<inputs, wire, operation, broken>>
      BY <2>1 DEF Calls, TimesOut, CallerDies, service, execution
    <3>2. PICK state \in {"asked", "timeout", "dead"} : caller' = [caller EXCEPT ![d] = state]
      BY <2>1 DEF Calls, TimesOut, CallerDies
    <3>3. caller'[c] \in {caller[c], "asked", "timeout", "dead"}
      BY <3>2 DEF TypeOK, Callers
    <3>. QED BY <1>1, <3>1, <3>3
  <2>2. CASE Responds(d) \/ ServingTimesOut(d) \/ ReadsResponse(d)
    <3>1. UNCHANGED <<inputs, wire, operation, broken>>
      BY <2>2 DEF Responds, ServingTimesOut, ReadsResponse, service, execution
    <3>2. caller'[c] \in {"refused", "denied"} =>
            operation[c] = "error" \/ caller[c] \in {"refused", "denied"}
      <4>1. CASE c # d
        BY <2>2, <4>1 DEF Responds, ServingTimesOut, ReadsResponse, TypeOK, Callers
      <4>2. CASE c = d /\ Responds(d)
        BY <4>2 DEF Responds, TypeOK, Callers
      <4>3. CASE c = d /\ ServingTimesOut(d)
        BY <4>3 DEF ServingTimesOut, SendersOK, SenderOK
      <4>4. CASE c = d /\ ReadsResponse(d)
        BY <4>4 DEF ReadsResponse, TypeOK, Callers
      <4>. QED BY <2>2, <4>1, <4>2, <4>3, <4>4
    <3>. QED BY <1>1, <3>1, <3>2
  <2>3. CASE Takes(d)
    <3>1. UNCHANGED <<inputs, wire, broken>> /\ operation[d] = "none"
      BY <2>3 DEF Takes, service, execution, OperationsOK
    <3>2. PICK state \in {"error", "scheduled"} : operation' = [operation EXCEPT ![d] = state]
      BY <2>3 DEF Takes
    <3>3. caller' = [caller EXCEPT ![d] = "taken"]
      BY <2>3 DEF Takes
    <3>4. CASE c = d
      <4>1. operation'[c] = state /\ caller'[c] = "taken" /\ inputs[c] = 0
        BY <3>1, <3>2, <3>3, <3>4 DEF TypeOK, SendersOK, SenderOK
      <4>. QED BY <3>1, <3>4, <4>1 DEF SendersOK, SenderOK
    <3>5. CASE c # d
      BY <1>1, <3>1, <3>2, <3>3, <3>5 DEF TypeOK, Callers
    <3>. QED BY <3>4, <3>5
  <2>4. CASE CallTimesOut(d)
    <3>1. /\ UNCHANGED <<inputs, wire, caller>> /\ broken' /\ operation[d] = "called"
          /\ operation' = [operation EXCEPT ![d] = "error"] /\ faults' # 0
      BY <2>4 DEF CallTimesOut, Breaks, Becomes, Fault, TypeOK, service
    <3>2. CASE c = d
      <4>1. operation'[c] = "error"
        BY <3>1, <3>2 DEF TypeOK
      <4>. QED BY <3>1, <3>2, <4>1 DEF SendersOK, SenderOK
    <3>3. CASE c # d
      BY <1>1, <3>1, <3>3 DEF TypeOK, Callers
    <3>. QED BY <3>2, <3>3
  <2>5. CASE Refused(d) \/ Goes(d) \/ Confirms(d) \/ (d \in Repliers /\ Replies(d))
    <3>1. UNCHANGED <<inputs, wire, broken, caller, faults>>
      BY <2>5 DEF Refused, Goes, Confirms, Replies, service, execution
    <3>2. PICK state \in {"ok", "error", "awaiting"} :
            operation' = [operation EXCEPT ![d] = state]
      BY <2>5 DEF Refused, Goes, Confirms, Replies, Becomes
    <3>3. CASE c = d
      <4>1. d \notin Repliers /\ d \notin Interrupters
        BY <3>3
      <4>2. /\ operation[c] # "ok" /\ caller[c] \notin {"refused", "denied"}
            /\ operation'[c] = state /\ operation[c] # "awaiting"
        BY <2>5, <3>2, <3>3 DEF Refused, Goes, GivenUp, Confirms, Replies, Begins, SendersOK,
                                SenderOK, TypeOK
      <4>3. CASE Refused(d)
        <5>1. operation'[c] = "error" /\ inputs[c] = 0
          BY <3>3, <4>3 DEF Refused, Becomes, Begins, SendersOK, SenderOK, TypeOK
        <5>. QED BY <3>1, <4>2, <5>1 DEF SendersOK, SenderOK
      <4>4. CASE Goes(d)
        <5>1. \/ operation[c] = "accepted" /\ operation'[c] = "ok"
              \/ operation[c] = "rejected" /\ operation'[c] = "error"
              \/ operation[c] = "called" /\ broken /\ operation'[c] = "error"
          BY <3>3, <4>1, <4>4 DEF Goes, GivenUp, Becomes, TypeOK
        <5>2. operation[c] = "called" /\ broken => faults # 0
          BY DEF TurnOK, InProgress, Callers
        <5>. QED BY <3>1, <4>2, <5>1, <5>2 DEF SendersOK, SenderOK
      <4>. QED BY <2>5, <3>3, <4>1, <4>2, <4>3, <4>4 DEF Confirms
    <3>4. CASE c # d
      <4>1. operation'[c] = operation[c]
        BY <3>2, <3>4 DEF TypeOK, Callers
      <4>. QED BY <1>1, <3>1, <4>1
    <3>. QED BY <3>3, <3>4
  <2>6. CASE d \in Senders /\ Steers(d)
    <3>1. /\ UNCHANGED <<broken, caller, faults>> /\ ~broken
          /\ operation[d] = "scheduled" /\ operation' = [operation EXCEPT ![d] = "called"]
      BY <2>6 DEF Steers, Begins, Active, Becomes, execution
    <3>2. PICK kind \in {"accepts", "rejects"} :
            /\ Reports(<<kind, d>>)
            /\ inputs' = IF kind = "accepts" THEN [inputs EXCEPT ![d] = @ + 1] ELSE inputs
      BY <2>6 DEF Steers
    <3>3. \A x : Has(wire', x) <=> (Has(wire, x) \/ x = <<kind, d>>)
      BY <3>2, Messages, Reported
    <3>4. CASE c = d
      <4>1. ~Has(wire, <<"accepts", c>>) /\ ~Has(wire, <<"rejects", c>>)
        BY <3>1, <3>4 DEF OperationsOK
      <4>2. inputs[c] = 0 /\ caller[c] \notin {"refused", "denied"}
        BY <3>1, <3>4 DEF SendersOK, SenderOK
      <4>3. operation'[c] = "called" /\ inputs'[c] = IF kind = "accepts" THEN 1 ELSE 0
        BY <3>1, <3>2, <3>4, <4>2 DEF TypeOK
      <4>4. /\ Has(wire', <<"accepts", c>>) => kind = "accepts"
            /\ Has(wire', <<"rejects", c>>) => kind = "rejects"
        BY <3>3, <3>4, <4>1
      <4>. QED BY <3>1, <4>2, <4>3, <4>4 DEF SenderOK
    <3>5. CASE c # d
      <4>1. operation'[c] = operation[c] /\ inputs'[c] = inputs[c]
        BY <2>6, <3>1, <3>2, <3>5 DEF TypeOK, Callers
      <4>2. <<kind, d>> # <<"accepts", c>> /\ <<kind, d>> # <<"rejects", c>>
        BY <3>5
      <4>. QED BY <1>1, <3>1, <3>3, <4>1, <4>2
    <3>. QED BY <3>4, <3>5
  <2>7. CASE d \in Interrupters /\ Interrupts(d)
    <3>1. \A x : Has(wire', x) => (Has(wire, x) \/ x \in {<<"accepts", d>>, <<"rejects", d>>,
                                                         <<"ended", "interrupted">>})
      BY <2>7, InterruptionReported
    <3>2. /\ UNCHANGED <<inputs, broken, caller>> /\ c # d
          /\ operation' = [operation EXCEPT ![d] = "called"]
      BY <2>7 DEF Interrupts, Becomes, execution
    <3>3. operation'[c] = operation[c]
      BY <3>2 DEF TypeOK, Callers
    <3>4. /\ Has(wire', <<"accepts", c>>) => Has(wire, <<"accepts", c>>)
          /\ Has(wire', <<"rejects", c>>) => Has(wire, <<"rejects", c>>)
      BY <3>1, <3>2
    <3>5. UNCHANGED <<inputs[c], operation[c], caller[c], broken>>
      BY <3>2, <3>3
    <3>. QED BY <1>1, <3>4, <3>5
  <2>. QED BY <1>11, <2>1, <2>2, <2>3, <2>4, <2>5, <2>6, <2>7 DEF ControlStep
<1>. QED BY <1>3, <1>4, <1>5, <1>6, <1>7, <1>8, <1>9, <1>10, <1>11, Steps

----------------------------------------------------------------------------
(* The theorems *)

\* All this holds from the start of the turn on.
THEOREM Invariant == Spec => []Inv
<1>1. Init => Inv
  <2>. SUFFICES ASSUME Init PROVE Inv
    OBVIOUS
  <2>1. TypeOK
    BY InitiallyTyped
  <2>2. /\ \A x : Has(wire, x) <=> x = <<"started">>
        /\ Distinct(wire)
    BY DEF Init, Has, Distinct
  <2>3. PipeOK
    BY <2>2 DEF PipeOK
  <2>4. TurnOK
    BY DEF Init, TurnOK, Ends
  <2>5. RequestsOK
    BY <2>2 DEF Init, RequestsOK, RequestOK
  <2>6. OperationsOK
    BY <2>2 DEF Init, OperationsOK
  <2>7. SendersOK
    BY <2>2 DEF Init, SendersOK, SenderOK, Callers
  <2>8. InterruptersOK /\ RepliersOK
    BY DEF Init, InterruptersOK, RepliersOK, Callers
  <2>. QED BY <2>1, <2>3, <2>4, <2>5, <2>6, <2>7, <2>8 DEF Inv
<1>2. Inv /\ [Next]_vars => Inv'
  <2>. SUFFICES ASSUME Inv, [Next]_vars PROVE Inv'
    OBVIOUS
  <2>1. CASE Next
    <3>1. TypeOK'
      BY <2>1, Steps, ServiceTyped, ExecutionTyped, ControlTyped DEF Inv
    <3>. QED BY <2>1, <3>1, PipeKept, TurnKept, RequestsKept, OperationsKept, SendersKept,
                InterruptersKept, RepliersKept DEF Inv
  <2>2. CASE UNCHANGED vars
    BY <2>2 DEF Inv, TypeOK, PipeOK, TurnOK, RequestsOK, RequestOK, OperationsOK, SendersOK,
                SenderOK, InterruptersOK, RepliersOK, vars, service, execution, control
  <2>. QED BY <2>1, <2>2
<1>. QED BY <1>1, <1>2, PTL DEF Spec

\* The outcome the Worker reports is how the native turn ended, and a run that has returned
\* leaves no turn running.
THEOREM OutcomeTrue == Spec => []OutcomeIsNative
<1>1. Inv => OutcomeIsNative
  BY DEF Inv, TurnOK, OutcomeIsNative
<1>. QED BY <1>1, Invariant, PTL

\* A caller that is told so has its instruction in the turn once, or its interruption
\* confirmed; one that is refused, while nothing fails, has not.
THEOREM AnswersTrue == Spec => []CallersAreToldTheTruth
<1>1. Inv => CallersAreToldTheTruth
  <2>. SUFFICES ASSUME Inv PROVE CallersAreToldTheTruth
    OBVIOUS
  <2>1. ASSUME NEW c \in Senders
        PROVE  /\ inputs[c] <= 1 /\ (caller[c] = "acknowledged" => inputs[c] = 1)
               /\ (faults = 0 /\ caller[c] = "denied") => inputs[c] = 0
    BY DEF Inv, SendersOK, SenderOK, OperationsOK, Callers
  <2>2. ASSUME NEW c \in Interrupters, caller[c] = "acknowledged" PROVE turn = "interrupted"
    BY <2>2 DEF Inv, InterruptersOK, OperationsOK, Callers
  <2>. QED BY <2>1, <2>2 DEF CallersAreToldTheTruth, AcknowledgedTookEffect, RefusedHadNoEffect
<1>. QED BY <1>1, Invariant, PTL

\* A request of the service is answered once, by one replier.
THEOREM RequestsAnsweredOnce == Spec => []AnsweredOnce
<1>1. Inv => AnsweredOnce
  BY DEF Inv, RequestsOK, RequestOK, RepliersOK, AnsweredOnce
<1>. QED BY <1>1, Invariant, PTL

\* The service, the Worker and the callers keep their types.
THEOREM TypeCorrect == Spec => []TypeOK
<1>1. Inv => TypeOK
  BY DEF Inv
<1>. QED BY <1>1, Invariant, PTL
=============================================================================
