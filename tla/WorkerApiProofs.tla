--------------------------- MODULE WorkerApiProofs ---------------------------
(***************************************************************************)
(* Proofs about WorkerApi, for any threads, any capacity of the socket and *)
(* any number of requests: every call returns the answer to its own        *)
(* request, and a call that waits has an answer on its way.                *)
(***************************************************************************)
EXTENDS WorkerApi, TLAPS

----------------------------------------------------------------------------
(* The socket. *)

\* Frames of the socket when one is written.
LEMMA InAppend ==
    ASSUME NEW S, NEW s \in Seq(S), NEW f \in S
    PROVE  /\ Append(s, f) \in Seq(S) /\ Len(Append(s, f)) = Len(s) + 1
           /\ \A g : In(g, Append(s, f)) <=> (In(g, s) \/ g = f)
<1>1. Append(s, f) \in Seq(S) /\ Len(Append(s, f)) = Len(s) + 1
  OBVIOUS
<1>2. ASSUME NEW g, In(g, Append(s, f)) PROVE In(g, s) \/ g = f
  <2>1. PICK n \in 1..(Len(s) + 1) : Append(s, f)[n] = g
    BY <1>1, <1>2 DEF In
  <2>2. CASE n = Len(s) + 1
    BY <2>1, <2>2
  <2>3. CASE n # Len(s) + 1
    <3>1. n \in 1..Len(s) /\ s[n] = g
      BY <2>1, <2>3
    <3> QED BY <3>1 DEF In
  <2> QED BY <2>2, <2>3
<1>3. ASSUME NEW g, In(g, s) PROVE In(g, Append(s, f))
  <2>1. PICK n \in 1..Len(s) : s[n] = g
    BY <1>3 DEF In
  <2>2. n \in 1..Len(Append(s, f)) /\ Append(s, f)[n] = g
    BY <1>1, <2>1
  <2> QED BY <2>2 DEF In
<1>4. In(f, Append(s, f))
  <2>1. Len(s) + 1 \in 1..Len(Append(s, f)) /\ Append(s, f)[Len(s) + 1] = f
    BY <1>1
  <2> QED BY <2>1 DEF In
<1> QED BY <1>1, <1>2, <1>3, <1>4, Zenon

\* Frames of the socket when one is read.
LEMMA InTail ==
    ASSUME NEW S, NEW s \in Seq(S), s # << >>
    PROVE  /\ Tail(s) \in Seq(S) /\ Len(Tail(s)) = Len(s) - 1 /\ Head(s) \in S
           /\ In(Head(s), s)
           /\ \A g : In(g, s) <=> (In(g, Tail(s)) \/ g = Head(s))
<1>1. /\ Tail(s) \in Seq(S) /\ Len(Tail(s)) = Len(s) - 1 /\ Head(s) \in S
      /\ Len(s) \in Nat /\ Len(s) >= 1 /\ Head(s) = s[1]
  OBVIOUS
<1>2. In(Head(s), s)
  BY <1>1 DEF In
<1>3. ASSUME NEW g, In(g, s) PROVE In(g, Tail(s)) \/ g = Head(s)
  <2>1. PICK n \in 1..Len(s) : s[n] = g
    BY <1>3 DEF In
  <2>2. CASE n = 1
    BY <1>1, <2>1, <2>2
  <2>3. CASE n # 1
    <3>1. n - 1 \in 1..Len(Tail(s)) /\ Tail(s)[n - 1] = g
      BY <1>1, <2>1, <2>3
    <3> QED BY <3>1 DEF In
  <2> QED BY <2>2, <2>3
<1>4. ASSUME NEW g, In(g, Tail(s)) PROVE In(g, s)
  <2>1. PICK n \in 1..Len(Tail(s)) : Tail(s)[n] = g
    BY <1>4 DEF In
  <2>2. n + 1 \in 1..Len(s) /\ s[n + 1] = g
    BY <1>1, <2>1
  <2> QED BY <2>2 DEF In
<1> QED BY <1>1, <1>2, <1>3, <1>4, Zenon

\* A request is in the socket once.
Once(i, s) == \A m, n \in 1..Len(s) : s[m] = Request(i) /\ s[n] = Request(i) => m = n

\* Writing another frame, or a request for the first time, keeps requests single.
LEMMA OnceAppend ==
    ASSUME NEW S, NEW s \in Seq(S), NEW f \in S, NEW i, Once(i, s),
           f # Request(i) \/ ~In(Request(i), s)
    PROVE  Once(i, Append(s, f))
<1>1. Len(Append(s, f)) = Len(s) + 1
  OBVIOUS
<1>2. \A n \in 1..Len(s) : Append(s, f)[n] = s[n]
  OBVIOUS
<1>3. Append(s, f)[Len(s) + 1] = f
  OBVIOUS
<1>4. Len(s) \in Nat
  OBVIOUS
<1> SUFFICES ASSUME NEW m \in 1..(Len(s) + 1), NEW n \in 1..(Len(s) + 1),
                    Append(s, f)[m] = Request(i), Append(s, f)[n] = Request(i)
             PROVE  m = n
  BY <1>1 DEF Once
<1>5. CASE m \in 1..Len(s) /\ n \in 1..Len(s)
  BY <1>2, <1>5 DEF Once
<1>6. CASE m = Len(s) + 1 /\ n \in 1..Len(s)
  BY <1>2, <1>3, <1>6 DEF In
<1>7. CASE n = Len(s) + 1 /\ m \in 1..Len(s)
  BY <1>2, <1>3, <1>7 DEF In
<1>8. CASE m = Len(s) + 1 /\ n = Len(s) + 1
  BY <1>8
<1> QED BY <1>4, <1>5, <1>6, <1>7, <1>8

\* A request that is read is no longer in the socket.
LEMMA OnceTail ==
    ASSUME NEW S, NEW s \in Seq(S), s # << >>, NEW i, Once(i, s)
    PROVE  /\ Once(i, Tail(s))
           /\ Head(s) = Request(i) => ~In(Request(i), Tail(s))
<1>1. /\ Len(Tail(s)) = Len(s) - 1 /\ Head(s) = s[1]
      /\ Len(s) \in Nat /\ Len(s) >= 1
  OBVIOUS
<1>2. \A n \in 1..Len(Tail(s)) : Tail(s)[n] = s[n + 1] /\ n + 1 \in 1..Len(s) /\ n + 1 # 1
  BY <1>1
<1>3. Once(i, Tail(s))
  <2> SUFFICES ASSUME NEW m \in 1..Len(Tail(s)), NEW n \in 1..Len(Tail(s)),
                      Tail(s)[m] = Request(i), Tail(s)[n] = Request(i)
               PROVE  m = n
    BY DEF Once
  <2>1. m + 1 = n + 1
    BY <1>2 DEF Once
  <2> QED BY <1>1, <2>1
<1>4. ASSUME Head(s) = Request(i), In(Request(i), Tail(s)) PROVE FALSE
  <2>1. PICK n \in 1..Len(Tail(s)) : Tail(s)[n] = Request(i)
    BY <1>4 DEF In
  <2>2. s[1] = Request(i) /\ s[n + 1] = Request(i) /\ 1 \in 1..Len(s) /\ n + 1 \in 1..Len(s)
    BY <1>1, <1>2, <1>4, <2>1
  <2>3. n + 1 = 1
    BY <2>2 DEF Once
  <2> QED BY <1>2, <2>1, <2>3
<1> QED BY <1>3, <1>4

\* What is known of a frame read by the host.
LEMMA HostFrame ==
    ASSUME NEW f \in ToHost, f.kind = "response"
    PROVE  f.id \in Ids /\ f.result \in Result /\ f = Response(f.id, f.result)
BY DEF ToHost, Response, Progress

\* What is known of a frame read by the worker.
LEMMA WorkerFrame ==
    ASSUME NEW f \in ToWorker
    PROVE  /\ f.id \in Ids
           /\ f.kind = "request" => f = Request(f.id)
           /\ f.kind = "cancel" => f = Cancel(f.id)
BY DEF ToWorker, Request, Cancel

\* Frames of one kind are not frames of another, nor of another request.
LEMMA FramesDiffer ==
    /\ \A i, j : Request(i) # Cancel(j)
    /\ \A i, j : Request(i) = Request(j) => i = j
    /\ \A i, j : Cancel(i) = Cancel(j) => i = j
    /\ \A i, r, j : Response(i, r) # Progress(j)
    /\ \A i, r, j, q : Response(i, r) = Response(j, q) => i = j /\ r = q
<1>1. \A i, j : Request(i) # Cancel(j)
  BY DEF Request, Cancel
<1>2. \A i, j : Request(i) = Request(j) => i = j
  BY DEF Request
<1>3. \A i, j : Cancel(i) = Cancel(j) => i = j
  BY DEF Cancel
<1>4. \A i, r, j : Response(i, r) # Progress(j)
  BY DEF Response, Progress
<1>5. \A i, r, j, q : Response(i, r) = Response(j, q) => i = j /\ r = q
  BY DEF Response
<1> QED BY <1>1, <1>2, <1>3, <1>4, <1>5

----------------------------------------------------------------------------
(* The inductive invariant. *)

\* The lock: its holder is between the request and the answer, and nobody else is.
Exclusive == \A c \in Callers : call[c].at \in {"send", "recv", "cancel"} <=> lock = c

\* Calls in progress have requests of their own.
Pending ==
    /\ \A c \in Callers : call[c].at # "idle" =>
          /\ call[c].id \in Ids /\ call[c].id < next_request_id
          /\ returned[call[c].id] = "pending"
    /\ \A c, d \in Callers :
          (call[c].at # "idle" /\ call[d].at # "idle" /\ call[c].id = call[d].id) => c = d
    /\ \A i \in Ids : i >= next_request_id => returned[i] = "none"

\* What a frame says of its request.
FramesTell ==
    /\ \A i \in Ids : In(Request(i), to_worker) => handled[i] = "none"
    /\ \A i \in Ids : In(Cancel(i), to_worker) => returned[i] = "stopped"
    /\ \A i \in Ids, r \in Answers : In(Response(i, r), to_host) => handled[i] = r
    /\ \A i \in Ids : In(Response(i, "cancelled"), to_host) => returned[i] = "stopped"

\* What the worker has in hand.
InHand ==
    /\ worker.at = "handle" =>
          worker.id \in Ids /\ handled[worker.id] = "none" /\ ~In(Request(worker.id), to_worker)
    /\ worker.at = "answer" /\ worker.result = "cancelled" => returned[worker.id] = "stopped"
    /\ worker.at = "answer" /\ worker.result # "cancelled" =>
          handled[worker.id] = worker.result

Unsent(i) ==
    \/ i >= next_request_id
    \/ \E c \in Callers : call[c].at \in {"lock", "send"} /\ call[c].id = i

\* The worker has not heard of a request that was not sent.
Unheard ==
    \A i \in Ids : Unsent(i) =>
        /\ ~In(Request(i), to_worker) /\ handled[i] = "none"
        /\ ~(worker.at = "handle" /\ worker.id = i)

Single == \A i \in Ids : Once(i, to_worker)

IInv ==
    /\ TypeOK /\ Exclusive /\ Pending /\ FramesTell /\ InHand /\ Unheard /\ Single
    /\ AnswersAreOwn /\ AnswerIsOnItsWay

----------------------------------------------------------------------------
(* Types. *)

\* The types hold at first.
LEMMA InitTypes == Init => TypeOK
<1> SUFFICES ASSUME Init PROVE TypeOK
  OBVIOUS
<1> USE WorkerApiAssumption DEF Init
<1>1. to_worker \in Seq(ToWorker) /\ Len(to_worker) <= Capacity
  OBVIOUS
<1>2. to_host \in Seq(ToHost) /\ Len(to_host) <= Capacity
  OBVIOUS
<1>3. call \in [Callers -> Thread]
  BY DEF NoCall, Thread, Kinds
<1>4. worker \in Worker
  BY DEF Waiting, Worker
<1>5. handled \in [Ids -> Answers \cup {"none"}] /\ returned \in [Ids -> Outcome]
  BY DEF Outcome
<1>6. next_request_id \in 1..(MaxRequests + 1)
  OBVIOUS
<1>7. forgotten \in 0..MaxForgotten /\ progressed \in 0..MaxProgress
  OBVIOUS
<1> QED BY <1>1, <1>2, <1>3, <1>4, <1>5, <1>6, <1>7 DEF TypeOK

\* The return of a call that is in progress keeps the types.
LEMMA ReturnTypes ==
    ASSUME TypeOK, NEW c \in Callers, NEW o \in Outcome, call[c].id \in Ids, Return(c, o)
    PROVE  /\ lock' \in Callers \cup {NoCaller}
           /\ call' \in [Callers -> Thread]
           /\ returned' \in [Ids -> Outcome]
           /\ next_request_id' = next_request_id /\ dropped' = dropped
           /\ forgotten' = forgotten
<1>1. NoCall \in Thread
  BY WorkerApiAssumption DEF NoCall, Thread, Kinds
<1> QED BY <1>1 DEF Return, TypeOK

\* Every step keeps the types.
LEMMA TypeStep == IInv /\ [Next]_vars => TypeOK'
<1> SUFFICES ASSUME IInv, [Next]_vars PROVE TypeOK'
  OBVIOUS
<1> USE WorkerApiAssumption
<1>t. TypeOK /\ Pending /\ InHand
  BY DEF IInv
<1>c. ASSUME NEW c \in Callers, call[c].at # "idle" PROVE call[c].id \in Ids
  BY <1>c, <1>t DEF Pending
<1>f. \A i \in Ids : Request(i) \in ToWorker /\ Cancel(i) \in ToWorker /\ Progress(i) \in ToHost
  BY DEF ToWorker, ToHost
<1>r. \A i \in Ids, r \in Result : Response(i, r) \in ToHost
  BY DEF ToHost
<1>l. Len(to_worker) \in Nat /\ Len(to_host) \in Nat /\ Capacity \in Nat
  BY <1>t DEF TypeOK
<1>1. ASSUME NEW c \in Callers, Call(c) PROVE TypeOK'
  <2>1. PICK kind \in Kinds :
          /\ kind = "forget" => forgotten < MaxForgotten
          /\ forgotten' = IF kind = "forget" THEN forgotten + 1 ELSE forgotten
          /\ call' = [call EXCEPT ![c] = [at |-> "lock", kind |-> kind, id |-> next_request_id]]
    BY <1>1 DEF Call
  <2>2. next_request_id \in Ids /\ next_request_id \in 0..MaxRequests
    BY <1>1, <1>t DEF Call, TypeOK, Ids
  <2>3. [at |-> "lock", kind |-> kind, id |-> next_request_id] \in Thread
    BY <2>2 DEF Thread
  <2>4. call' \in [Callers -> Thread]
    BY <2>1, <2>3, <1>t DEF TypeOK
  <2>5. forgotten' \in 0..MaxForgotten
    BY <2>1, <1>t DEF TypeOK
  <2>6. returned' \in [Ids -> Outcome]
    BY <1>1, <1>t DEF Call, TypeOK, Outcome
  <2>7. next_request_id' \in 1..(MaxRequests + 1)
    BY <1>1, <1>t DEF Call, TypeOK
  <2> QED BY <1>1, <1>t, <2>4, <2>5, <2>6, <2>7 DEF Call, TypeOK, workerVars
<1>2. ASSUME NEW c \in Callers, Lock(c) PROVE TypeOK'
  <2>1. call' \in [Callers -> Thread]
    BY <1>2, <1>t DEF Lock, TypeOK, Thread
  <2> QED BY <1>2, <1>t, <2>1 DEF Lock, TypeOK, workerVars
<1>3. ASSUME NEW c \in Callers, Send(c) PROVE TypeOK'
  <2>1. call[c].id \in Ids
    BY <1>3, <1>c DEF Send
  <2>2. to_worker' \in Seq(ToWorker) /\ Len(to_worker') <= Capacity
    BY <1>3, <1>t, <1>f, <1>l, <2>1, InAppend DEF Send, TypeOK
  <2>3. CASE Return(c, "sent")
    <3>1. "sent" \in Outcome
      BY DEF Outcome
    <3> QED BY <1>3, <1>t, <2>1, <2>2, <2>3, <3>1, ReturnTypes DEF Send, TypeOK, workerVars
  <2>4. CASE /\ call' = [call EXCEPT ![c].at = "recv"]
             /\ UNCHANGED <<lock, next_request_id, dropped, forgotten, returned>>
    <3>1. call' \in [Callers -> Thread]
      BY <2>4, <1>t DEF TypeOK, Thread
    <3> QED BY <1>3, <1>t, <2>2, <2>4, <3>1 DEF Send, TypeOK, workerVars
  <2> QED BY <1>3, <2>3, <2>4 DEF Send
<1>4. ASSUME NEW c \in Callers, Fail(c) \/ RefuseToSend(c) PROVE TypeOK'
  <2>1. call[c].id \in Ids /\ "failed" \in Outcome
    BY <1>4, <1>c DEF Fail, RefuseToSend, Outcome
  <2> QED BY <1>4, <1>t, <2>1, ReturnTypes DEF Fail, RefuseToSend, TypeOK, workerVars
<1>5. ASSUME NEW c \in Callers, Receive(c) PROVE TypeOK'
  <2>1. call[c].id \in Ids
    BY <1>5, <1>c DEF Receive
  <2>2. /\ to_host' \in Seq(ToHost) /\ Len(to_host') <= Capacity
        /\ Head(to_host) \in ToHost
    BY <1>5, <1>t, <1>l, InTail DEF Receive, TypeOK
  <2>3. CASE IsAnswer(c, Head(to_host)) /\ Return(c, Head(to_host).result)
    <3>1. Head(to_host).result \in Outcome
      BY <2>2, <2>3, HostFrame DEF IsAnswer, Outcome
    <3> QED BY <1>5, <1>t, <2>1, <2>2, <2>3, <3>1, ReturnTypes DEF Receive, TypeOK, workerVars
  <2>4. CASE /\ call' = [call EXCEPT ![c].at = "cancel"]
             /\ UNCHANGED <<lock, next_request_id, dropped, forgotten, returned>>
    <3>1. call' \in [Callers -> Thread]
      BY <2>4, <1>t DEF TypeOK, Thread
    <3> QED BY <1>5, <1>t, <2>2, <2>4, <3>1 DEF Receive, TypeOK, workerVars
  <2>5. CASE UNCHANGED callVars
    BY <1>5, <1>t, <2>2, <2>5 DEF Receive, TypeOK, workerVars, callVars
  <2> QED BY <1>5, <2>3, <2>4, <2>5 DEF Receive
<1>6. ASSUME NEW c \in Callers, SendCancel(c) PROVE TypeOK'
  <2>1. call[c].id \in Ids /\ "stopped" \in Outcome
    BY <1>6, <1>c DEF SendCancel, Outcome
  <2>2. to_worker' \in Seq(ToWorker) /\ Len(to_worker') <= Capacity
    <3>1. CASE UNCHANGED to_worker
      BY <3>1, <1>t DEF TypeOK
    <3>2. CASE Len(to_worker) < Capacity /\ to_worker' = Append(to_worker, Cancel(call[c].id))
      BY <3>2, <1>t, <1>f, <1>l, <2>1, InAppend DEF TypeOK
    <3> QED BY <3>1, <3>2, <1>6 DEF SendCancel
  <2> QED BY <1>6, <1>t, <2>1, <2>2, ReturnTypes DEF SendCancel, TypeOK, workerVars
<1>7. ASSUME NEW c \in Callers, DropReceiver(c) PROVE TypeOK'
  <2>1. call[c].id \in Ids
    BY <1>7, <1>c DEF DropReceiver
  <2> QED BY <1>7, <1>t, <2>1 DEF DropReceiver, TypeOK, workerVars
<1>8. ASSUME WorkerLock PROVE TypeOK'
  <2>1. worker' \in Worker
    BY <1>8 DEF WorkerLock, Worker
  <2> QED BY <1>8, <1>t, <2>1 DEF WorkerLock, TypeOK, callVars
<1>9. ASSUME WorkerReceive PROVE TypeOK'
  <2>1. /\ to_worker' \in Seq(ToWorker) /\ Len(to_worker') <= Capacity
        /\ Head(to_worker) \in ToWorker
    BY <1>9, <1>t, <1>l, InTail DEF WorkerReceive, TypeOK
  <2>2. Head(to_worker).id \in Ids /\ Head(to_worker).id \in 0..MaxRequests
    BY <2>1, WorkerFrame DEF Ids
  <2>3. worker' \in Worker
    BY <1>9, <2>2 DEF WorkerReceive, Worker, Result
  <2>4. started' \subseteq Ids
    BY <1>9, <1>t, <2>2 DEF WorkerReceive, TypeOK
  <2> QED BY <1>9, <1>t, <2>1, <2>3, <2>4 DEF WorkerReceive, TypeOK, callVars
<1>10. ASSUME NEW i \in Ids, ReportProgress(i) PROVE TypeOK'
  <2>1. to_host' \in Seq(ToHost) /\ Len(to_host') <= Capacity
    BY <1>10, <1>t, <1>f, <1>l, InAppend DEF ReportProgress, TypeOK
  <2> QED BY <1>10, <1>t, <2>1 DEF ReportProgress, TypeOK, callVars
<1>11. ASSUME NEW result \in Answers, HandlerReturns(result) PROVE TypeOK'
  <2>1. worker.id \in Ids
    BY <1>11, <1>t DEF HandlerReturns, InHand
  <2>2. worker' \in Worker
    BY <1>11, <2>1 DEF HandlerReturns, Worker, Result
  <2>3. handled' \in [Ids -> Answers \cup {"none"}]
    BY <1>11, <1>t DEF HandlerReturns, TypeOK
  <2> QED BY <1>11, <1>t, <2>2, <2>3 DEF HandlerReturns, TypeOK, callVars
<1>12. ASSUME SendResponse PROVE TypeOK'
  <2>1. worker.id \in Ids /\ worker.result \in Result
    BY <1>12, <1>t DEF SendResponse, TypeOK, Worker
  <2>2. to_host' \in Seq(ToHost) /\ Len(to_host') <= Capacity
    BY <1>12, <1>t, <1>r, <1>l, <2>1, InAppend DEF SendResponse, TypeOK
  <2>3. worker' \in Worker
    BY <1>12 DEF SendResponse, Waiting, Worker
  <2> QED BY <1>12, <1>t, <2>2, <2>3 DEF SendResponse, TypeOK, callVars
<1>13. ASSUME WorkerExits PROVE TypeOK'
  BY <1>13, <1>t, <1>l DEF WorkerExits, TypeOK, callVars
<1>14. ASSUME UNCHANGED vars PROVE TypeOK'
  BY <1>14, <1>t DEF vars, TypeOK
<1> QED BY <1>1, <1>2, <1>3, <1>4, <1>5, <1>6, <1>7, <1>8, <1>9, <1>10, <1>11, <1>12,
           <1>13, <1>14 DEF Next, HostStep, WorkerStep

----------------------------------------------------------------------------
(* The lock and the calls in progress. *)

\* What the return of a call changes.
LEMMA ReturnFacts ==
    ASSUME IInv, NEW c \in Callers, call[c].at # "idle", NEW o, Return(c, o)
    PROVE  /\ lock' = NoCaller /\ next_request_id' = next_request_id
           /\ call'[c] = NoCall
           /\ \A d \in Callers : d # c => call'[d] = call[d]
           /\ call[c].id \in Ids /\ returned[call[c].id] = "pending"
           /\ returned'[call[c].id] = o
           /\ \A i \in Ids : i # call[c].id => returned'[i] = returned[i]
<1>1. call \in [Callers -> Thread] /\ returned \in [Ids -> Outcome]
  BY DEF IInv, TypeOK
<1>2. call[c].id \in Ids /\ returned[call[c].id] = "pending"
  BY DEF IInv, Pending
<1> QED BY <1>1, <1>2 DEF Return

\* A step of a thread to another place changes nothing else of the call.
LEMMA MoveFacts ==
    ASSUME IInv, NEW c \in Callers, NEW place, call' = [call EXCEPT ![c].at = place]
    PROVE  /\ call'[c].at = place /\ call'[c].id = call[c].id /\ call'[c].kind = call[c].kind
           /\ \A d \in Callers : d # c => call'[d] = call[d]
<1>1. call \in [Callers -> Thread]
  BY DEF IInv, TypeOK
<1>2. call[c] \in Thread
  BY <1>1
<1> QED BY <1>1, <1>2 DEF Thread

\* What a new call changes.
LEMMA CallFacts ==
    ASSUME IInv, NEW c \in Callers, Call(c)
    PROVE  /\ call'[c].at = "lock" /\ call'[c].id = next_request_id
           /\ \A d \in Callers : d # c => call'[d] = call[d]
           /\ next_request_id \in Ids /\ next_request_id' = next_request_id + 1
           /\ returned[next_request_id] = "none" /\ returned'[next_request_id] = "pending"
           /\ \A i \in Ids : i # next_request_id => returned'[i] = returned[i]
<1>1. call \in [Callers -> Thread] /\ returned \in [Ids -> Outcome]
  BY DEF IInv, TypeOK
<1>2. next_request_id \in Ids /\ next_request_id \in Nat
  BY WorkerApiAssumption DEF IInv, TypeOK, Call, Ids
<1>3. returned[next_request_id] = "none"
  BY <1>2 DEF IInv, Pending
<1> QED BY <1>1, <1>2, <1>3 DEF Call

\* A return gives the lock back.
LEMMA ReturnExclusive ==
    ASSUME IInv, NEW c \in Callers, call[c].at \in {"send", "recv", "cancel"}, NEW o, Return(c, o)
    PROVE  Exclusive'
<1>1. lock = c /\ \A d \in Callers : call[d].at \in {"send", "recv", "cancel"} <=> lock = d
  BY DEF IInv, Exclusive
<1>2. /\ lock' = NoCaller /\ call'[c] = NoCall
      /\ \A d \in Callers : d # c => call'[d] = call[d]
  BY ReturnFacts
<1>3. call'[c].at = "idle"
  BY <1>2 DEF NoCall
<1> QED BY <1>1, <1>2, <1>3, WorkerApiAssumption DEF Exclusive

\* Every step keeps the lock with one thread.
LEMMA ExclusiveStep == IInv /\ [Next]_vars => Exclusive'
<1> SUFFICES ASSUME IInv, [Next]_vars PROVE Exclusive'
  OBVIOUS
<1>e. Exclusive
  BY DEF IInv
<1>1. ASSUME NEW c \in Callers, Call(c) PROVE Exclusive'
  <2>1. call[c].at = "idle" /\ lock' = lock
    BY <1>1 DEF Call
  <2>2. call'[c].at = "lock" /\ \A d \in Callers : d # c => call'[d] = call[d]
    BY <1>1, CallFacts
  <2> QED BY <1>e, <2>1, <2>2 DEF Exclusive
<1>2. ASSUME NEW c \in Callers, Lock(c) PROVE Exclusive'
  <2>1. call'[c].at = "send" /\ \A d \in Callers : d # c => call'[d] = call[d]
    BY <1>2, MoveFacts DEF Lock
  <2>2. lock = NoCaller /\ lock' = c
    BY <1>2 DEF Lock
  <2> QED BY <1>e, <2>1, <2>2, WorkerApiAssumption DEF Exclusive
<1>m. ASSUME NEW c \in Callers, call[c].at \in {"send", "recv"}, lock' = lock,
             NEW place \in {"recv", "cancel"}, call' = [call EXCEPT ![c].at = place]
      PROVE  Exclusive'
  <2>1. call'[c].at = place /\ \A d \in Callers : d # c => call'[d] = call[d]
    BY <1>m, MoveFacts
  <2> QED BY <1>e, <1>m, <2>1 DEF Exclusive
<1>3. ASSUME NEW c \in Callers, Send(c) PROVE Exclusive'
  <2>1. CASE Return(c, "sent")
    BY <1>3, <2>1, ReturnExclusive DEF Send
  <2>2. CASE call' = [call EXCEPT ![c].at = "recv"] /\ lock' = lock
    BY <1>3, <1>m, <2>2 DEF Send
  <2> QED BY <1>3, <2>1, <2>2 DEF Send
<1>4. ASSUME NEW c \in Callers, Fail(c) \/ RefuseToSend(c) PROVE Exclusive'
  BY <1>4, ReturnExclusive DEF Fail, RefuseToSend
<1>5. ASSUME NEW c \in Callers, Receive(c) PROVE Exclusive'
  <2>1. CASE Return(c, Head(to_host).result)
    BY <1>5, <2>1, ReturnExclusive DEF Receive
  <2>2. CASE call' = [call EXCEPT ![c].at = "cancel"] /\ lock' = lock
    BY <1>5, <1>m, <2>2 DEF Receive
  <2>3. CASE UNCHANGED callVars
    BY <1>e, <2>3 DEF callVars, Exclusive
  <2> QED BY <1>5, <2>1, <2>2, <2>3 DEF Receive
<1>6. ASSUME NEW c \in Callers, SendCancel(c) PROVE Exclusive'
  BY <1>6, ReturnExclusive DEF SendCancel
<1>7. ASSUME UNCHANGED <<lock, call>> PROVE Exclusive'
  BY <1>7, <1>e DEF Exclusive
<1> QED BY <1>1, <1>2, <1>3, <1>4, <1>5, <1>6, <1>7
        DEF Next, HostStep, WorkerStep, DropReceiver, WorkerLock, WorkerReceive, ReportProgress,
            HandlerReturns, SendResponse, WorkerExits, callVars, vars

\* A return ends one call and leaves the others as they are.
LEMMA ReturnPending ==
    ASSUME IInv, NEW c \in Callers, call[c].at # "idle", NEW o, Return(c, o)
    PROVE  Pending'
<1>1. Pending
  BY DEF IInv
<1>2. /\ next_request_id' = next_request_id /\ call'[c].at = "idle"
      /\ \A d \in Callers : d # c => call'[d] = call[d]
      /\ \A i \in Ids : i # call[c].id => returned'[i] = returned[i]
  BY ReturnFacts DEF NoCall
<1>3. \A d \in Callers : call'[d].at # "idle" => d # c /\ call'[d] = call[d]
  BY <1>2
<1>4. \A d \in Callers : call'[d].at # "idle" =>
          /\ call'[d].id \in Ids /\ call'[d].id < next_request_id'
          /\ returned'[call'[d].id] = "pending"
  BY <1>1, <1>2, <1>3 DEF Pending
<1>5. \A d, e \in Callers :
          (call'[d].at # "idle" /\ call'[e].at # "idle" /\ call'[d].id = call'[e].id) => d = e
  BY <1>1, <1>3 DEF Pending
<1>6. \A i \in Ids : i >= next_request_id' => returned'[i] = "none"
  <2>1. next_request_id \in Nat /\ call[c].id < next_request_id /\ call[c].id \in Nat
    BY <1>1, WorkerApiAssumption DEF Pending, IInv, TypeOK, Ids
  <2>2. \A i \in Ids : i >= next_request_id => i # call[c].id
    BY <2>1 DEF Ids
  <2> QED BY <1>1, <1>2, <2>2 DEF Pending
<1> QED BY <1>4, <1>5, <1>6 DEF Pending

\* Every step keeps the requests of the calls apart.
LEMMA PendingStep == IInv /\ [Next]_vars => Pending'
<1> SUFFICES ASSUME IInv, [Next]_vars PROVE Pending'
  OBVIOUS
<1>p. Pending
  BY DEF IInv
<1>n. next_request_id \in Nat
  BY WorkerApiAssumption DEF IInv, TypeOK
<1>1. ASSUME NEW c \in Callers, Call(c) PROVE Pending'
  <2>1. /\ call'[c].at = "lock" /\ call'[c].id = next_request_id
        /\ \A d \in Callers : d # c => call'[d] = call[d]
        /\ next_request_id \in Ids /\ next_request_id' = next_request_id + 1
        /\ returned'[next_request_id] = "pending"
        /\ \A i \in Ids : i # next_request_id => returned'[i] = returned[i]
    BY <1>1, CallFacts
  <2>2. \A d \in Callers : call[d].at # "idle" =>
           call[d].id \in Ids /\ call[d].id < next_request_id /\ call[d].id # next_request_id
    BY <1>p, <1>n DEF Pending, Ids
  <2>3. \A d \in Callers : call'[d].at # "idle" =>
          /\ call'[d].id \in Ids /\ call'[d].id < next_request_id'
          /\ returned'[call'[d].id] = "pending"
    <3> SUFFICES ASSUME NEW d \in Callers, call'[d].at # "idle"
                 PROVE  /\ call'[d].id \in Ids /\ call'[d].id < next_request_id'
                        /\ returned'[call'[d].id] = "pending"
      OBVIOUS
    <3>1. CASE d = c
      BY <3>1, <2>1, <1>n
    <3>2. CASE d # c
      BY <3>2, <2>1, <2>2, <1>n, <1>p DEF Pending, Ids
    <3> QED BY <3>1, <3>2
  <2>4. \A d, e \in Callers :
          (call'[d].at # "idle" /\ call'[e].at # "idle" /\ call'[d].id = call'[e].id) => d = e
    BY <2>1, <2>2, <1>p DEF Pending
  <2>5. \A i \in Ids : i >= next_request_id' => returned'[i] = "none"
    BY <2>1, <1>p, <1>n DEF Pending, Ids
  <2> QED BY <2>3, <2>4, <2>5 DEF Pending
<1>m. ASSUME NEW c \in Callers, call[c].at # "idle", UNCHANGED <<returned, next_request_id>>,
             NEW place, place # "idle", call' = [call EXCEPT ![c].at = place]
      PROVE  Pending'
  <2>1. /\ call'[c].at = place /\ call'[c].id = call[c].id
        /\ \A d \in Callers : d # c => call'[d] = call[d]
    BY <1>m, MoveFacts
  <2>2. \A d \in Callers : call'[d].at # "idle" => call[d].at # "idle" /\ call'[d].id = call[d].id
    BY <1>m, <2>1
  <2> QED BY <1>p, <1>m, <2>2 DEF Pending
<1>2. ASSUME NEW c \in Callers, Lock(c) PROVE Pending'
  BY <1>2, <1>m DEF Lock
<1>3. ASSUME NEW c \in Callers, Send(c) PROVE Pending'
  <2>1. CASE Return(c, "sent")
    BY <1>3, <2>1, ReturnPending DEF Send
  <2>2. CASE call' = [call EXCEPT ![c].at = "recv"] /\ UNCHANGED <<returned, next_request_id>>
    BY <1>3, <1>m, <2>2 DEF Send
  <2> QED BY <1>3, <2>1, <2>2 DEF Send
<1>4. ASSUME NEW c \in Callers, Fail(c) \/ RefuseToSend(c) PROVE Pending'
  BY <1>4, ReturnPending DEF Fail, RefuseToSend
<1>5. ASSUME NEW c \in Callers, Receive(c) PROVE Pending'
  <2>1. CASE Return(c, Head(to_host).result)
    BY <1>5, <2>1, ReturnPending DEF Receive
  <2>2. CASE call' = [call EXCEPT ![c].at = "cancel"] /\ UNCHANGED <<returned, next_request_id>>
    BY <1>5, <1>m, <2>2 DEF Receive
  <2>3. CASE UNCHANGED callVars
    BY <1>p, <2>3 DEF callVars, Pending
  <2> QED BY <1>5, <2>1, <2>2, <2>3 DEF Receive
<1>6. ASSUME NEW c \in Callers, SendCancel(c) PROVE Pending'
  BY <1>6, ReturnPending DEF SendCancel
<1>7. ASSUME UNCHANGED <<call, returned, next_request_id>> PROVE Pending'
  BY <1>7, <1>p DEF Pending
<1> QED BY <1>1, <1>2, <1>3, <1>4, <1>5, <1>6, <1>7
        DEF Next, HostStep, WorkerStep, DropReceiver, WorkerLock, WorkerReceive, ReportProgress,
            HandlerReturns, SendResponse, WorkerExits, callVars, vars

----------------------------------------------------------------------------
(* The frames. *)

\* A stream that was given up stays so, and the requests of others are untouched.
LEMMA StoppedStays ==
    IInv /\ [Next]_vars =>
        /\ \A i \in Ids : returned[i] = "stopped" => returned'[i] = "stopped"
        /\ next_request_id' >= next_request_id
<1> SUFFICES ASSUME IInv, [Next]_vars
             PROVE  /\ \A i \in Ids : returned[i] = "stopped" => returned'[i] = "stopped"
                    /\ next_request_id' >= next_request_id
  OBVIOUS
<1>n. next_request_id \in Nat
  BY WorkerApiAssumption DEF IInv, TypeOK
<1>r. ASSUME NEW c \in Callers, call[c].at # "idle", NEW o, Return(c, o)
      PROVE  /\ \A i \in Ids : returned[i] = "stopped" => returned'[i] = "stopped"
             /\ next_request_id' >= next_request_id
  BY <1>n, <1>r, ReturnFacts
<1>1. ASSUME NEW c \in Callers, Call(c)
      PROVE  /\ \A i \in Ids : returned[i] = "stopped" => returned'[i] = "stopped"
             /\ next_request_id' >= next_request_id
  BY <1>1, <1>n, CallFacts
<1>2. ASSUME UNCHANGED <<returned, next_request_id>>
      PROVE  /\ \A i \in Ids : returned[i] = "stopped" => returned'[i] = "stopped"
             /\ next_request_id' >= next_request_id
  BY <1>2, <1>n
<1>3. ASSUME NEW c \in Callers, HostStep(c) \/ RefuseToSend(c)
      PROVE  /\ \A i \in Ids : returned[i] = "stopped" => returned'[i] = "stopped"
             /\ next_request_id' >= next_request_id
  BY <1>2, <1>3, <1>r DEF HostStep, Lock, Send, Fail, RefuseToSend, Receive, SendCancel, callVars
<1> QED BY <1>1, <1>2, <1>3
        DEF Next, WorkerStep, DropReceiver, WorkerLock, WorkerReceive, ReportProgress,
            HandlerReturns, SendResponse, WorkerExits, callVars, vars

\* What the steps write to, and read from, the socket.
LEMMA SendFrames ==
    ASSUME IInv, NEW c \in Callers, Send(c)
    PROVE  /\ call[c].id \in Ids /\ to_host' = to_host /\ UNCHANGED workerVars
           /\ to_worker' = Append(to_worker, Request(call[c].id))
           /\ \A g : In(g, to_worker') <=> (In(g, to_worker) \/ g = Request(call[c].id))
           /\ \A i \in Ids : Once(i, to_worker')
<1>1. call[c].id \in Ids /\ Request(call[c].id) \in ToWorker
  BY DEF IInv, Pending, Send, ToWorker
<1>2. to_worker \in Seq(ToWorker) /\ to_worker' = Append(to_worker, Request(call[c].id))
  BY DEF IInv, TypeOK, Send
<1>3. \A g : In(g, to_worker') <=> (In(g, to_worker) \/ g = Request(call[c].id))
  BY <1>1, <1>2, InAppend
<1>4. ~In(Request(call[c].id), to_worker)
  BY <1>1 DEF IInv, Unheard, Unsent, Send
<1>5. ASSUME NEW i \in Ids PROVE Once(i, to_worker')
  <2>1. Once(i, to_worker)
    BY DEF IInv, Single
  <2>2. Request(call[c].id) # Request(i) \/ ~In(Request(i), to_worker)
    BY <1>4, FramesDiffer
  <2> QED BY <1>1, <1>2, <2>1, <2>2, OnceAppend
<1> QED BY <1>1, <1>2, <1>3, <1>5 DEF Send

\* What a cancel changes in the sockets.
LEMMA CancelFrames ==
    ASSUME IInv, NEW c \in Callers, SendCancel(c)
    PROVE  /\ call[c].id \in Ids /\ to_host' = to_host /\ UNCHANGED workerVars
           /\ returned'[call[c].id] = "stopped"
           /\ \A g : In(g, to_worker') => (In(g, to_worker) \/ g = Cancel(call[c].id))
           /\ \A g : In(g, to_worker) => In(g, to_worker')
           /\ \A i \in Ids : Once(i, to_worker')
<1>1. call[c].id \in Ids /\ Cancel(call[c].id) \in ToWorker
  BY DEF IInv, Pending, SendCancel, ToWorker
<1>2. to_worker \in Seq(ToWorker)
  BY DEF IInv, TypeOK
<1>3. returned'[call[c].id] = "stopped"
  BY ReturnFacts DEF SendCancel
<1>4. CASE UNCHANGED to_worker
  BY <1>1, <1>3, <1>4 DEF SendCancel, IInv, Single, workerVars
<1>5. CASE to_worker' = Append(to_worker, Cancel(call[c].id))
  <2>1. \A g : In(g, to_worker') <=> (In(g, to_worker) \/ g = Cancel(call[c].id))
    BY <1>1, <1>2, <1>5, InAppend
  <2>2. ASSUME NEW i \in Ids PROVE Once(i, to_worker')
    <3>1. Once(i, to_worker) /\ Cancel(call[c].id) # Request(i)
      BY FramesDiffer DEF IInv, Single
    <3> QED BY <1>1, <1>2, <1>5, <3>1, OnceAppend
  <2> QED BY <1>1, <1>3, <2>1, <2>2 DEF SendCancel
<1> QED BY <1>4, <1>5 DEF SendCancel

\* What the host's read changes in the sockets.
LEMMA ReceiveFrames ==
    ASSUME IInv, NEW c \in Callers, Receive(c)
    PROVE  /\ Head(to_host) \in ToHost /\ In(Head(to_host), to_host)
           /\ to_worker' = to_worker /\ UNCHANGED workerVars
           /\ \A g : In(g, to_host) <=> (In(g, to_host') \/ g = Head(to_host))
<1>1. to_host \in Seq(ToHost) /\ to_host # << >> /\ to_host' = Tail(to_host)
  BY DEF IInv, TypeOK, Receive
<1> QED BY <1>1, InTail DEF Receive

\* What the worker's read changes in the sockets.
LEMMA WorkerReceiveFrames ==
    ASSUME IInv, WorkerReceive
    PROVE  /\ Head(to_worker) \in ToWorker /\ In(Head(to_worker), to_worker)
           /\ to_host' = to_host
           /\ \A g : In(g, to_worker) <=> (In(g, to_worker') \/ g = Head(to_worker))
           /\ \A i \in Ids : Once(i, to_worker')
           /\ \A i \in Ids : Head(to_worker) = Request(i) => ~In(Request(i), to_worker')
<1>1. to_worker \in Seq(ToWorker) /\ to_worker # << >> /\ to_worker' = Tail(to_worker)
  BY DEF IInv, TypeOK, WorkerReceive
<1>2. ASSUME NEW i \in Ids
      PROVE  /\ Once(i, to_worker')
             /\ Head(to_worker) = Request(i) => ~In(Request(i), to_worker')
  <2>1. Once(i, to_worker)
    BY DEF IInv, Single
  <2> QED BY <1>1, <2>1, OnceTail
<1>3. /\ Head(to_worker) \in ToWorker /\ In(Head(to_worker), to_worker)
      /\ \A g : In(g, to_worker) <=> (In(g, to_worker') \/ g = Head(to_worker))
  BY <1>1, InTail
<1> QED BY <1>2, <1>3 DEF WorkerReceive

\* What reported progress changes in the sockets.
LEMMA ProgressFrames ==
    ASSUME IInv, NEW i \in Ids, ReportProgress(i)
    PROVE  /\ \A g : In(g, to_host') <=> (In(g, to_host) \/ g = Progress(i))
           /\ \A j, r : In(Response(j, r), to_host') <=> In(Response(j, r), to_host)
<1>1. to_host \in Seq(ToHost) /\ Progress(i) \in ToHost /\ to_host' = Append(to_host, Progress(i))
  BY DEF IInv, TypeOK, ReportProgress, ToHost
<1>2. \A g : In(g, to_host') <=> (In(g, to_host) \/ g = Progress(i))
  BY <1>1, InAppend
<1> QED BY <1>2, FramesDiffer

\* What a response changes in the sockets.
LEMMA ResponseFrames ==
    ASSUME IInv, SendResponse
    PROVE  /\ worker.id \in Ids /\ worker.result \in Result
           /\ \A g : In(g, to_host') <=>
                        (In(g, to_host) \/ g = Response(worker.id, worker.result))
<1>1. worker.id \in Ids /\ worker.result \in Result
  BY DEF IInv, TypeOK, Worker, SendResponse
<1>2. /\ to_host \in Seq(ToHost) /\ Response(worker.id, worker.result) \in ToHost
      /\ to_host' = Append(to_host, Response(worker.id, worker.result))
  BY <1>1 DEF IInv, TypeOK, SendResponse, ToHost
<1> QED BY <1>1, <1>2, InAppend

\* The exit of the worker empties its socket.
LEMMA ExitFrames ==
    ASSUME WorkerExits
    PROVE  (\A g : ~In(g, to_worker')) /\ \A i : Once(i, to_worker')
<1>1. to_worker' = << >> /\ Len(to_worker') = 0
  BY DEF WorkerExits
<1> QED BY <1>1 DEF In, Once

\* Requests stay single in the socket.
LEMMA SingleStep == IInv /\ [Next]_vars => Single'
<1> SUFFICES ASSUME IInv, [Next]_vars PROVE Single'
  OBVIOUS
<1>1. ASSUME NEW c \in Callers, Send(c) PROVE Single'
  BY <1>1, SendFrames DEF Single
<1>2. ASSUME NEW c \in Callers, SendCancel(c) PROVE Single'
  BY <1>2, CancelFrames DEF Single
<1>3. ASSUME WorkerReceive PROVE Single'
  BY <1>3, WorkerReceiveFrames DEF Single
<1>4. ASSUME WorkerExits PROVE Single'
  BY <1>4, ExitFrames DEF Single
<1>5. ASSUME UNCHANGED to_worker PROVE Single'
  BY <1>5 DEF IInv, Single
<1> QED BY <1>1, <1>2, <1>3, <1>4, <1>5
        DEF Next, HostStep, WorkerStep, Call, Lock, Fail, Receive, DropReceiver,
            RefuseToSend, WorkerLock,
            ReportProgress, HandlerReturns, SendResponse, vars

\* What the return of the handler changes.
LEMMA HandlerFacts ==
    ASSUME IInv, NEW result \in Answers, HandlerReturns(result)
    PROVE  /\ worker.id \in Ids /\ handled[worker.id] = "none" /\ handled'[worker.id] = result
           /\ \A i \in Ids : i # worker.id => handled'[i] = handled[i]
           /\ ~In(Request(worker.id), to_worker)
           /\ worker'.at = "answer" /\ worker'.id = worker.id /\ worker'.result = result
<1>1. handled \in [Ids -> Answers \cup {"none"}]
  BY DEF IInv, TypeOK
<1>2. worker.id \in Ids /\ handled[worker.id] = "none" /\ ~In(Request(worker.id), to_worker)
  BY DEF IInv, InHand, HandlerReturns
<1> QED BY <1>1, <1>2 DEF HandlerReturns

\* Every step keeps what the frames tell.
LEMMA FramesStep == IInv /\ [Next]_vars => FramesTell'
<1> SUFFICES ASSUME IInv, [Next]_vars PROVE FramesTell'
  OBVIOUS
<1>f. FramesTell
  BY DEF IInv
<1>s. \A i \in Ids : returned[i] = "stopped" => returned'[i] = "stopped"
  BY StoppedStays
<1>1. ASSUME NEW c \in Callers, Send(c) PROVE FramesTell'
  <2>1. /\ call[c].id \in Ids /\ to_host' = to_host /\ handled' = handled
        /\ \A g : In(g, to_worker') <=> (In(g, to_worker) \/ g = Request(call[c].id))
    BY <1>1, SendFrames DEF workerVars
  <2>2. handled[call[c].id] = "none"
    BY <1>1, <2>1 DEF IInv, Unheard, Unsent, Send
  <2>3. \A i \in Ids : In(Request(i), to_worker') => handled'[i] = "none"
    BY <1>f, <2>1, <2>2, FramesDiffer DEF FramesTell
  <2>4. \A i \in Ids : In(Cancel(i), to_worker') => returned'[i] = "stopped"
    BY <1>f, <1>s, <2>1, FramesDiffer DEF FramesTell
  <2> QED BY <1>f, <1>s, <2>1, <2>3, <2>4 DEF FramesTell
<1>2. ASSUME NEW c \in Callers, SendCancel(c) PROVE FramesTell'
  <2>1. /\ call[c].id \in Ids /\ to_host' = to_host /\ handled' = handled
        /\ returned'[call[c].id] = "stopped"
        /\ \A g : In(g, to_worker') => (In(g, to_worker) \/ g = Cancel(call[c].id))
    BY <1>2, CancelFrames DEF workerVars
  <2>3. \A i \in Ids : In(Request(i), to_worker') => handled'[i] = "none"
    BY <1>f, <2>1, FramesDiffer DEF FramesTell
  <2>4. \A i \in Ids : In(Cancel(i), to_worker') => returned'[i] = "stopped"
    BY <1>f, <1>s, <2>1, FramesDiffer DEF FramesTell
  <2> QED BY <1>f, <1>s, <2>1, <2>3, <2>4 DEF FramesTell
<1>3. ASSUME NEW c \in Callers, Receive(c) PROVE FramesTell'
  <2>1. /\ to_worker' = to_worker /\ handled' = handled
        /\ \A g : In(g, to_host') => In(g, to_host)
    BY <1>3, ReceiveFrames DEF workerVars
  <2> QED BY <1>f, <1>s, <2>1 DEF FramesTell
<1>4. ASSUME WorkerReceive PROVE FramesTell'
  <2>1. /\ to_host' = to_host /\ \A g : In(g, to_worker') => In(g, to_worker)
    BY <1>4, WorkerReceiveFrames
  <2>2. handled' = handled
    BY <1>4 DEF WorkerReceive
  <2> QED BY <1>f, <1>s, <2>1, <2>2 DEF FramesTell
<1>5. ASSUME NEW i \in Ids, ReportProgress(i) PROVE FramesTell'
  <2>1. \A j, r : In(Response(j, r), to_host') <=> In(Response(j, r), to_host)
    BY <1>5, ProgressFrames
  <2>2. handled' = handled /\ to_worker' = to_worker
    BY <1>5 DEF ReportProgress
  <2> QED BY <1>f, <1>s, <2>1, <2>2 DEF FramesTell
<1>6. ASSUME NEW result \in Answers, HandlerReturns(result) PROVE FramesTell'
  <2>1. /\ worker.id \in Ids /\ handled[worker.id] = "none"
        /\ \A i \in Ids : i # worker.id => handled'[i] = handled[i]
        /\ ~In(Request(worker.id), to_worker)
    BY <1>6, HandlerFacts
  <2>2. to_worker' = to_worker /\ to_host' = to_host
    BY <1>6 DEF HandlerReturns
  <2>3. \A i \in Ids : In(Request(i), to_worker) => i # worker.id
    BY <2>1
  <2>4. \A i \in Ids, r \in Answers : In(Response(i, r), to_host) => i # worker.id
    BY <1>f, <2>1 DEF FramesTell, Answers
  <2> QED BY <1>f, <1>s, <2>1, <2>2, <2>3, <2>4 DEF FramesTell
<1>7. ASSUME SendResponse PROVE FramesTell'
  <2>1. /\ worker.id \in Ids
        /\ \A g : In(g, to_host') <=> (In(g, to_host) \/ g = Response(worker.id, worker.result))
    BY <1>7, ResponseFrames
  <2>2. handled' = handled /\ to_worker' = to_worker
    BY <1>7 DEF SendResponse
  <2>3. /\ worker.result = "cancelled" => returned[worker.id] = "stopped"
        /\ worker.result # "cancelled" => handled[worker.id] = worker.result
    BY <1>7 DEF IInv, InHand, SendResponse
  <2>4. \A i \in Ids, r \in Answers : In(Response(i, r), to_host') => handled'[i] = r
    BY <1>f, <2>1, <2>2, <2>3, FramesDiffer DEF FramesTell, Answers
  <2>5. \A i \in Ids : In(Response(i, "cancelled"), to_host') => returned'[i] = "stopped"
    BY <1>f, <1>s, <2>1, <2>3, FramesDiffer DEF FramesTell
  <2> QED BY <1>f, <1>s, <2>2, <2>4, <2>5 DEF FramesTell
<1>8. ASSUME WorkerExits PROVE FramesTell'
  <2>1. \A g : ~In(g, to_worker')
    BY <1>8, ExitFrames
  <2>2. to_host' = to_host /\ handled' = handled
    BY <1>8 DEF WorkerExits
  <2> QED BY <1>f, <1>s, <2>1, <2>2 DEF FramesTell
<1>9. ASSUME UNCHANGED <<to_worker, to_host, handled>> PROVE FramesTell'
  BY <1>9, <1>f, <1>s DEF FramesTell
<1> QED BY <1>1, <1>2, <1>3, <1>4, <1>5, <1>6, <1>7, <1>8, <1>9
        DEF Next, HostStep, WorkerStep, Call, Lock, Fail, DropReceiver, RefuseToSend, WorkerLock,
            workerVars, vars

\* Every step keeps what the worker has in hand true.
LEMMA InHandStep == IInv /\ [Next]_vars => InHand'
<1> SUFFICES ASSUME IInv, [Next]_vars PROVE InHand'
  OBVIOUS
<1>h. InHand /\ FramesTell
  BY DEF IInv
<1>s. \A i \in Ids : returned[i] = "stopped" => returned'[i] = "stopped"
  BY StoppedStays
<1>a. worker.at = "answer" => worker.id \in Ids
  BY DEF IInv, TypeOK, Worker
<1>1. ASSUME NEW c \in Callers, Send(c) PROVE InHand'
  <2>1. /\ worker' = worker /\ handled' = handled /\ call[c].id \in Ids
        /\ \A g : In(g, to_worker') <=> (In(g, to_worker) \/ g = Request(call[c].id))
    BY <1>1, SendFrames DEF workerVars
  <2>2. ~(worker.at = "handle" /\ worker.id = call[c].id)
    BY <1>1, <2>1 DEF IInv, Unheard, Unsent, Send
  <2>3. worker.at = "handle" => ~In(Request(worker.id), to_worker')
    BY <1>h, <2>1, <2>2, FramesDiffer DEF InHand
  <2> QED BY <1>h, <1>s, <1>a, <2>1, <2>3 DEF InHand
<1>2. ASSUME NEW c \in Callers, SendCancel(c) PROVE InHand'
  <2>1. /\ worker' = worker /\ handled' = handled
        /\ \A g : In(g, to_worker') => (In(g, to_worker) \/ g = Cancel(call[c].id))
    BY <1>2, CancelFrames DEF workerVars
  <2>2. worker.at = "handle" => ~In(Request(worker.id), to_worker')
    BY <1>h, <2>1, FramesDiffer DEF InHand
  <2> QED BY <1>h, <1>s, <1>a, <2>1, <2>2 DEF InHand
<1>3. ASSUME WorkerReceive PROVE InHand'
  <2>1. /\ Head(to_worker) \in ToWorker /\ In(Head(to_worker), to_worker)
        /\ \A i \in Ids : Head(to_worker) = Request(i) => ~In(Request(i), to_worker')
    BY <1>3, WorkerReceiveFrames
  <2>2. handled' = handled
    BY <1>3 DEF WorkerReceive
  <2>3. CASE /\ Head(to_worker).kind = "request"
             /\ worker' = [at |-> "handle", id |-> Head(to_worker).id, result |-> "none"]
    <3>1. Head(to_worker).id \in Ids /\ Head(to_worker) = Request(Head(to_worker).id)
      BY <2>1, <2>3, WorkerFrame
    <3>2. handled[Head(to_worker).id] = "none" /\ ~In(Request(Head(to_worker).id), to_worker')
      BY <1>h, <2>1, <3>1 DEF FramesTell
    <3> QED BY <2>2, <2>3, <3>1, <3>2 DEF InHand
  <2>4. CASE /\ Head(to_worker).kind = "cancel"
             /\ worker' = [at |-> "answer", id |-> Head(to_worker).id, result |-> "cancelled"]
    <3>1. Head(to_worker).id \in Ids /\ Head(to_worker) = Cancel(Head(to_worker).id)
      BY <2>1, <2>4, WorkerFrame
    <3>2. returned'[Head(to_worker).id] = "stopped"
      BY <1>h, <1>s, <2>1, <3>1 DEF FramesTell
    <3> QED BY <2>2, <2>4, <3>1, <3>2 DEF InHand
  <2> QED BY <1>3, <2>3, <2>4 DEF WorkerReceive
<1>4. ASSUME NEW result \in Answers, HandlerReturns(result) PROVE InHand'
  BY <1>4, HandlerFacts DEF InHand, Answers
<1>5. ASSUME worker'.at \in {"idle", "recv"} PROVE InHand'
  BY <1>5 DEF InHand
<1>6. ASSUME WorkerExits PROVE InHand'
  <2>1. worker' = worker /\ handled' = handled /\ \A g : ~In(g, to_worker')
    BY <1>6, ExitFrames DEF WorkerExits
  <2> QED BY <1>h, <1>s, <1>a, <2>1 DEF InHand
<1>7. ASSUME UNCHANGED <<to_worker, worker, handled>> PROVE InHand'
  BY <1>7, <1>h, <1>s, <1>a DEF InHand
<1> QED BY <1>1, <1>2, <1>3, <1>4, <1>5, <1>6, <1>7
        DEF Next, HostStep, WorkerStep, Call, Lock, Fail, Receive, DropReceiver,
            RefuseToSend, WorkerLock,
            ReportProgress, SendResponse, Waiting, workerVars, vars

\* Every step keeps the worker ignorant of requests that were not sent.
LEMMA UnheardStep == IInv /\ [Next]_vars => Unheard'
<1> SUFFICES ASSUME IInv, [Next]_vars PROVE Unheard'
  OBVIOUS
<1>u. Unheard
  BY DEF IInv
<1>n. next_request_id \in Nat
  BY WorkerApiAssumption DEF IInv, TypeOK
<1>1. ASSUME NEW c \in Callers, Call(c) PROVE Unheard'
  <2>1. /\ call'[c].at = "lock" /\ call'[c].id = next_request_id
        /\ \A d \in Callers : d # c => call'[d] = call[d]
        /\ next_request_id' = next_request_id + 1
    BY <1>1, CallFacts
  <2>2. \A i \in Ids : Unsent(i)' => Unsent(i)
    BY <2>1, <1>n DEF Unsent, Ids
  <2>3. UNCHANGED <<to_worker, worker, handled>>
    BY <1>1 DEF Call, workerVars
  <2> QED BY <1>u, <2>2, <2>3 DEF Unheard
<1>r. ASSUME NEW c \in Callers, call[c].at # "idle", NEW o, Return(c, o), NEW i \in Ids, Unsent(i)'
      PROVE  Unsent(i) /\ i # call[c].id
  <2>1. /\ call'[c].at = "idle" /\ \A d \in Callers : d # c => call'[d] = call[d]
        /\ next_request_id' = next_request_id
    BY <1>r, ReturnFacts DEF NoCall
  <2>2. CASE i >= next_request_id'
    <3>1. call[c].id < next_request_id /\ call[c].id \in Ids
      BY <1>r DEF IInv, Pending
    <3> QED BY <1>n, <2>1, <2>2, <3>1 DEF Unsent, Ids
  <2>3. ASSUME NEW d \in Callers, call'[d].at \in {"lock", "send"}, call'[d].id = i
        PROVE  Unsent(i) /\ i # call[c].id
    <3>1. d # c /\ call[d].at \in {"lock", "send"} /\ call[d].id = i
      BY <2>1, <2>3
    <3>2. call[c].id # i
      BY <1>r, <3>1 DEF IInv, Pending
    <3> QED BY <3>1, <3>2 DEF Unsent
  <2> QED BY <1>r, <2>2, <2>3 DEF Unsent
<1>2. ASSUME NEW c \in Callers, Send(c) PROVE Unheard'
  <2>1. /\ worker' = worker /\ handled' = handled /\ call[c].id \in Ids
        /\ \A g : In(g, to_worker') <=> (In(g, to_worker) \/ g = Request(call[c].id))
    BY <1>2, SendFrames DEF workerVars
  <2>2. ASSUME NEW i \in Ids, Unsent(i)' PROVE Unsent(i) /\ i # call[c].id
    <3>1. CASE Return(c, "sent")
      BY <1>2, <1>r, <2>2, <3>1 DEF Send
    <3>2. CASE call' = [call EXCEPT ![c].at = "recv"] /\ next_request_id' = next_request_id
      <4>1. /\ call'[c].at = "recv" /\ \A d \in Callers : d # c => call'[d] = call[d]
        BY <3>2, MoveFacts
      <4>2. CASE i >= next_request_id'
        <5>1. call[c].id < next_request_id
          BY <1>2 DEF IInv, Pending, Send
        <5> QED BY <1>n, <2>1, <3>2, <4>2, <5>1 DEF Unsent, Ids
      <4>3. ASSUME NEW d \in Callers, call'[d].at \in {"lock", "send"}, call'[d].id = i
            PROVE  Unsent(i) /\ i # call[c].id
        <5>1. d # c /\ call[d].at \in {"lock", "send"} /\ call[d].id = i
          BY <4>1, <4>3
        <5>2. call[c].id # i
          BY <1>2, <5>1 DEF IInv, Pending, Send
        <5> QED BY <5>1, <5>2 DEF Unsent
      <4> QED BY <2>2, <4>2, <4>3 DEF Unsent
    <3> QED BY <1>2, <3>1, <3>2 DEF Send
  <2> QED BY <1>u, <2>1, <2>2, FramesDiffer DEF Unheard
<1>u1. ASSUME \A i \in Ids : Unsent(i)' => Unsent(i),
              \A i \in Ids : In(Request(i), to_worker') => In(Request(i), to_worker),
              UNCHANGED <<worker, handled>>
       PROVE  Unheard'
  BY <1>u, <1>u1 DEF Unheard
<1>3. ASSUME NEW c \in Callers, Lock(c) PROVE Unheard'
  <2>1. /\ call'[c].at = "send" /\ call'[c].id = call[c].id
        /\ \A d \in Callers : d # c => call'[d] = call[d]
    BY <1>3, MoveFacts DEF Lock
  <2>2. \A i \in Ids : Unsent(i)' => Unsent(i)
    BY <1>3, <2>1 DEF Lock, Unsent
  <2> QED BY <1>3, <1>u1, <2>2 DEF Lock, workerVars
<1>4. ASSUME NEW c \in Callers, Fail(c) \/ RefuseToSend(c) PROVE Unheard'
  <2>1. \A i \in Ids : Unsent(i)' => Unsent(i)
    BY <1>4, <1>r DEF Fail, RefuseToSend
  <2> QED BY <1>4, <1>u1, <2>1 DEF Fail, RefuseToSend, workerVars
<1>5. ASSUME NEW c \in Callers, Receive(c) PROVE Unheard'
  <2>1. \A i \in Ids : Unsent(i)' => Unsent(i)
    <3>1. CASE Return(c, Head(to_host).result)
      BY <1>5, <1>r, <3>1 DEF Receive
    <3>2. CASE call' = [call EXCEPT ![c].at = "cancel"] /\ next_request_id' = next_request_id
      <4>1. /\ call'[c].at = "cancel" /\ \A d \in Callers : d # c => call'[d] = call[d]
        BY <3>2, MoveFacts
      <4> QED BY <3>2, <4>1 DEF Unsent
    <3>3. CASE UNCHANGED callVars
      BY <3>3 DEF callVars, Unsent
    <3> QED BY <1>5, <3>1, <3>2, <3>3 DEF Receive
  <2> QED BY <1>5, <1>u1, <2>1 DEF Receive, workerVars
<1>6. ASSUME NEW c \in Callers, SendCancel(c) PROVE Unheard'
  <2>1. \A i \in Ids : Unsent(i)' => Unsent(i)
    BY <1>6, <1>r DEF SendCancel
  <2>2. \A i \in Ids : In(Request(i), to_worker') => In(Request(i), to_worker)
    BY <1>6, CancelFrames, FramesDiffer
  <2> QED BY <1>6, <1>u1, <2>1, <2>2 DEF SendCancel, workerVars
<1>7. ASSUME UNCHANGED <<call, next_request_id>> PROVE \A i \in Ids : Unsent(i)' => Unsent(i)
  BY <1>7 DEF Unsent
<1>8. ASSUME WorkerReceive PROVE Unheard'
  <2>1. \A i \in Ids : Unsent(i)' => Unsent(i)
    BY <1>7, <1>8 DEF WorkerReceive, callVars
  <2>2. /\ Head(to_worker) \in ToWorker /\ In(Head(to_worker), to_worker)
        /\ \A g : In(g, to_worker') => In(g, to_worker)
    BY <1>8, WorkerReceiveFrames
  <2>3. handled' = handled
    BY <1>8 DEF WorkerReceive
  <2>4. ASSUME NEW i \in Ids, worker'.at = "handle", worker'.id = i PROVE ~Unsent(i)
    <3>1. Head(to_worker).kind = "request" /\ Head(to_worker).id = i
      BY <1>8, <2>4 DEF WorkerReceive
    <3>2. In(Request(i), to_worker)
      BY <2>2, <3>1, WorkerFrame
    <3> QED BY <1>u, <3>2 DEF Unheard
  <2> QED BY <1>u, <2>1, <2>2, <2>3, <2>4 DEF Unheard
<1>9. ASSUME NEW result \in Answers, HandlerReturns(result) PROVE Unheard'
  <2>1. \A i \in Ids : Unsent(i)' => Unsent(i)
    BY <1>7, <1>9 DEF HandlerReturns, callVars
  <2>2. /\ \A i \in Ids : i # worker.id => handled'[i] = handled[i]
        /\ worker.at = "handle" /\ worker'.at = "answer" /\ to_worker' = to_worker
    BY <1>9, HandlerFacts DEF HandlerReturns
  <2> QED BY <1>u, <2>1, <2>2 DEF Unheard
<1>10. ASSUME worker'.at \in {"idle", "recv"}, UNCHANGED <<to_worker, handled, callVars>>
       PROVE  Unheard'
  <2>1. \A i \in Ids : Unsent(i)' => Unsent(i)
    BY <1>7, <1>10 DEF callVars
  <2> QED BY <1>u, <1>10, <2>1 DEF Unheard
<1>11. ASSUME WorkerExits PROVE Unheard'
  <2>1. \A i \in Ids : Unsent(i)' => Unsent(i)
    BY <1>7, <1>11 DEF WorkerExits, callVars
  <2> QED BY <1>11, <1>u1, <2>1, ExitFrames DEF WorkerExits
<1>12. ASSUME UNCHANGED <<call, next_request_id, to_worker, worker, handled>> PROVE Unheard'
  BY <1>7, <1>12, <1>u1
<1> QED BY <1>1, <1>2, <1>3, <1>4, <1>5, <1>6, <1>8, <1>9, <1>10, <1>11, <1>12
        DEF Next, HostStep, WorkerStep, DropReceiver, WorkerLock, ReportProgress, SendResponse,
            Waiting, workerVars, callVars, vars

----------------------------------------------------------------------------
(* The two promises of a call. *)

\* What a call returns is an answer to its own request.
LEMMA ReturnIsOwn ==
    ASSUME IInv, NEW c \in Callers, call[c].at # "idle", NEW o, Return(c, o),
           handled' = handled, o # "cancelled",
           o \in Answers => handled[call[c].id] = o
    PROVE  AnswersAreOwn'
<1>1. /\ call[c].id \in Ids /\ returned'[call[c].id] = o
      /\ \A i \in Ids : i # call[c].id => returned'[i] = returned[i]
  BY ReturnFacts
<1>2. AnswersAreOwn
  BY DEF IInv
<1> QED BY <1>1, <1>2 DEF AnswersAreOwn

\* Every step keeps the answers where they belong.
LEMMA OwnStep == IInv /\ [Next]_vars => AnswersAreOwn'
<1> SUFFICES ASSUME IInv, [Next]_vars PROVE AnswersAreOwn'
  OBVIOUS
<1>o. AnswersAreOwn
  BY DEF IInv
<1>1. ASSUME NEW c \in Callers, Call(c) PROVE AnswersAreOwn'
  <2>1. /\ next_request_id \in Ids /\ returned'[next_request_id] = "pending"
        /\ \A i \in Ids : i # next_request_id => returned'[i] = returned[i]
    BY <1>1, CallFacts
  <2>2. handled' = handled
    BY <1>1 DEF Call, workerVars
  <2> QED BY <1>o, <2>1, <2>2 DEF AnswersAreOwn, Answers
<1>2. ASSUME NEW c \in Callers, Send(c) PROVE AnswersAreOwn'
  <2>1. handled' = handled /\ "sent" # "cancelled" /\ "sent" \notin Answers
    BY <1>2 DEF Send, workerVars, Answers
  <2>2. CASE Return(c, "sent")
    BY <1>2, <2>1, <2>2, ReturnIsOwn DEF Send
  <2>3. CASE returned' = returned
    BY <1>o, <2>1, <2>3 DEF AnswersAreOwn
  <2> QED BY <1>2, <2>2, <2>3 DEF Send
<1>3. ASSUME NEW c \in Callers, Fail(c) \/ RefuseToSend(c) PROVE AnswersAreOwn'
  <2>1. handled' = handled /\ "failed" # "cancelled" /\ "failed" \notin Answers
    BY <1>3 DEF Fail, RefuseToSend, workerVars, Answers
  <2> QED BY <1>3, <2>1, ReturnIsOwn DEF Fail, RefuseToSend
<1>4. ASSUME NEW c \in Callers, Receive(c) PROVE AnswersAreOwn'
  <2>1. handled' = handled
    BY <1>4 DEF Receive, workerVars
  <2>2. CASE IsAnswer(c, Head(to_host)) /\ Return(c, Head(to_host).result)
    <3>1. Head(to_host) \in ToHost /\ In(Head(to_host), to_host)
      BY <1>4, ReceiveFrames
    <3>2. /\ Head(to_host).result \in Result /\ call[c].id \in Ids
          /\ Head(to_host) = Response(call[c].id, Head(to_host).result)
      BY <2>2, <3>1, HostFrame DEF IsAnswer
    <3>3. returned[call[c].id] = "pending"
      BY <1>4 DEF IInv, Pending, Receive
    <3>4. Head(to_host).result # "cancelled"
      BY <3>1, <3>2, <3>3 DEF IInv, FramesTell
    <3>5. Head(to_host).result \in Answers => handled[call[c].id] = Head(to_host).result
      BY <3>1, <3>2 DEF IInv, FramesTell
    <3> QED BY <1>4, <2>1, <2>2, <3>4, <3>5, ReturnIsOwn DEF Receive
  <2>3. CASE returned' = returned
    BY <1>o, <2>1, <2>3 DEF AnswersAreOwn
  <2> QED BY <1>4, <2>2, <2>3 DEF Receive, callVars
<1>5. ASSUME NEW c \in Callers, SendCancel(c) PROVE AnswersAreOwn'
  <2>1. handled' = handled /\ "stopped" # "cancelled" /\ "stopped" \notin Answers
    BY <1>5 DEF SendCancel, workerVars, Answers
  <2> QED BY <1>5, <2>1, ReturnIsOwn DEF SendCancel
<1>6. ASSUME NEW result \in Answers, HandlerReturns(result) PROVE AnswersAreOwn'
  <2>1. /\ worker.id \in Ids /\ handled[worker.id] = "none"
        /\ \A i \in Ids : i # worker.id => handled'[i] = handled[i]
    BY <1>6, HandlerFacts
  <2>2. returned' = returned
    BY <1>6 DEF HandlerReturns, callVars
  <2> QED BY <1>o, <2>1, <2>2 DEF AnswersAreOwn, Answers
<1>7. ASSUME UNCHANGED <<returned, handled>> PROVE AnswersAreOwn'
  BY <1>7, <1>o DEF AnswersAreOwn
<1> QED BY <1>1, <1>2, <1>3, <1>4, <1>5, <1>6, <1>7
        DEF Next, HostStep, WorkerStep, Lock, DropReceiver, WorkerLock, WorkerReceive,
            ReportProgress, SendResponse, WorkerExits, workerVars, callVars, vars

\* What a thread that waits for the answer to request i can count on.
OnItsWay(i) ==
    \/ In(Request(i), to_worker)
    \/ worker.at = "handle" /\ worker.id = i
    \/ worker.at = "answer" /\ worker.id = i /\ worker.result \in Answers
    \/ \E r \in Answers : In(Response(i, r), to_host)

\* No step of the worker, and no frame read for others, takes the answer away.
LEMMA AnswerKept ==
    ASSUME IInv, WorkerStep \/ \E j \in Ids : ReportProgress(j), NEW i \in Ids, OnItsWay(i)
    PROVE  OnItsWay(i)'
<1>1. CASE WorkerLock
  BY <1>1 DEF WorkerLock, OnItsWay
<1>2. CASE WorkerReceive
  <2>1. /\ Head(to_worker) \in ToWorker /\ to_host' = to_host
        /\ \A g : In(g, to_worker) <=> (In(g, to_worker') \/ g = Head(to_worker))
    BY <1>2, WorkerReceiveFrames
  <2>2. CASE Head(to_worker) = Request(i)
    <3>1. Head(to_worker).kind = "request" /\ Head(to_worker).id = i
      BY <2>2 DEF Request
    <3> QED BY <1>2, <3>1 DEF WorkerReceive, OnItsWay
  <2>3. CASE Head(to_worker) # Request(i)
    BY <1>2, <2>1, <2>3 DEF WorkerReceive, OnItsWay
  <2> QED BY <2>2, <2>3
<1>3. CASE SendResponse
  <2>1. \A g : In(g, to_host') <=> (In(g, to_host) \/ g = Response(worker.id, worker.result))
    BY <1>3, ResponseFrames
  <2>2. worker.at = "answer" /\ to_worker' = to_worker
    BY <1>3 DEF SendResponse
  <2> QED BY <2>1, <2>2 DEF OnItsWay
<1>4. ASSUME NEW result \in Answers, HandlerReturns(result) PROVE OnItsWay(i)'
  <2>1. worker'.at = "answer" /\ worker'.id = worker.id /\ worker'.result = result
    BY <1>4, HandlerFacts
  <2> QED BY <1>4, <2>1 DEF HandlerReturns, OnItsWay
<1>5. ASSUME NEW j \in Ids, ReportProgress(j) PROVE OnItsWay(i)'
  BY <1>5, ProgressFrames DEF ReportProgress, OnItsWay
<1> QED BY <1>1, <1>2, <1>3, <1>4, <1>5 DEF WorkerStep

\* Every step keeps the answers on their way.
LEMMA OnItsWayStep == IInv /\ [Next]_vars => AnswerIsOnItsWay'
<1> SUFFICES ASSUME IInv, [Next]_vars,
                    NEW d \in Callers, call'[d].at = "recv", ~exited'
             PROVE  OnItsWay(call[d].id)'
  BY DEF AnswerIsOnItsWay, OnItsWay
<1>w. call[d].at = "recv" /\ ~exited => call[d].id \in Ids /\ OnItsWay(call[d].id)
  BY DEF IInv, AnswerIsOnItsWay, OnItsWay, Pending
<1>k. ASSUME UNCHANGED <<to_worker, to_host, worker, exited>>, call'[d] = call[d]
      PROVE  OnItsWay(call[d].id)'
  BY <1>k, <1>w DEF OnItsWay
<1>r. ASSUME NEW c \in Callers, call[c].at # "idle", NEW o, Return(c, o) PROVE call'[d] = call[d]
  <2>1. call'[c].at = "idle" /\ \A e \in Callers : e # c => call'[e] = call[e]
    BY <1>r, ReturnFacts DEF NoCall
  <2> QED BY <2>1
<1>1. ASSUME NEW c \in Callers, Call(c) PROVE OnItsWay(call[d].id)'
  <2>1. call'[c].at = "lock" /\ \A e \in Callers : e # c => call'[e] = call[e]
    BY <1>1, CallFacts
  <2> QED BY <1>1, <1>k, <2>1 DEF Call, workerVars
<1>2. ASSUME NEW c \in Callers, Lock(c) PROVE OnItsWay(call[d].id)'
  <2>1. call'[c].at = "send" /\ \A e \in Callers : e # c => call'[e] = call[e]
    BY <1>2, MoveFacts DEF Lock
  <2> QED BY <1>2, <1>k, <2>1 DEF Lock, workerVars
<1>3. ASSUME NEW c \in Callers, Send(c) PROVE OnItsWay(call[d].id)'
  <2>1. /\ to_host' = to_host /\ UNCHANGED workerVars
        /\ \A g : In(g, to_worker') <=> (In(g, to_worker) \/ g = Request(call[c].id))
    BY <1>3, SendFrames
  <2>2. CASE d # c
    <3>1. call'[d] = call[d]
      <4>1. CASE Return(c, "sent")
        BY <1>3, <1>r, <4>1 DEF Send
      <4>2. CASE call' = [call EXCEPT ![c].at = "recv"]
        BY <2>2, <4>2, MoveFacts
      <4> QED BY <1>3, <4>1, <4>2 DEF Send
    <3> QED BY <1>w, <2>1, <3>1 DEF OnItsWay, workerVars
  <2>3. CASE d = c
    <3>1. call'[c].id = call[c].id
      <4>1. CASE Return(c, "sent")
        BY <1>3, <1>r, <2>3, <4>1 DEF Send
      <4>2. CASE call' = [call EXCEPT ![c].at = "recv"]
        BY <4>2, MoveFacts
      <4> QED BY <1>3, <4>1, <4>2 DEF Send
    <3>2. In(Request(call'[d].id), to_worker')
      BY <2>1, <2>3, <3>1
    <3> QED BY <3>2 DEF OnItsWay
  <2> QED BY <2>2, <2>3
<1>4. ASSUME NEW c \in Callers, Fail(c) PROVE OnItsWay(call[d].id)'
  BY <1>4 DEF Fail, workerVars
<1>11. ASSUME NEW c \in Callers, RefuseToSend(c) PROVE OnItsWay(call[d].id)'
  <2>1. call'[d] = call[d]
    BY <1>11, <1>r DEF RefuseToSend
  <2> QED BY <1>11, <1>w, <2>1 DEF RefuseToSend, OnItsWay, workerVars
<1>5. ASSUME NEW c \in Callers, Receive(c) PROVE OnItsWay(call[d].id)'
  <2>1. /\ Head(to_host) \in ToHost
        /\ to_worker' = to_worker /\ UNCHANGED workerVars
        /\ \A g : In(g, to_host) <=> (In(g, to_host') \/ g = Head(to_host))
    BY <1>5, ReceiveFrames
  <2>2. call[c].at = "recv" /\ \A e \in Callers : e # c => call[e].at # "recv"
    BY <1>5 DEF IInv, Exclusive, Receive
  <2>3. \A e \in Callers : e # c => call'[e] = call[e]
    <3>1. CASE Return(c, Head(to_host).result)
      BY <2>2, <3>1, ReturnFacts
    <3>2. CASE call' = [call EXCEPT ![c].at = "cancel"]
      BY <3>2, MoveFacts
    <3>3. CASE UNCHANGED callVars
      BY <3>3 DEF callVars
    <3> QED BY <1>5, <3>1, <3>2, <3>3 DEF Receive
  <2>4. d = c
    BY <2>2, <2>3
  <2>5. ~IsAnswer(c, Head(to_host)) /\ call' = call
    <3>1. ~Return(c, Head(to_host).result)
      BY <2>2, <2>4, ReturnFacts DEF NoCall
    <3>2. call' # [call EXCEPT ![c].at = "cancel"]
      BY <2>4, MoveFacts
    <3> QED BY <1>5, <3>1, <3>2 DEF Receive, callVars
  <2>6. \A r \in Answers : Head(to_host) # Response(call[c].id, r)
    BY <2>5 DEF IsAnswer, Response
  <2> QED BY <1>w, <2>1, <2>2, <2>4, <2>5, <2>6 DEF OnItsWay, workerVars
<1>6. ASSUME NEW c \in Callers, SendCancel(c) PROVE OnItsWay(call[d].id)'
  <2>1. call'[d] = call[d]
    BY <1>6, <1>r DEF SendCancel
  <2>2. /\ to_host' = to_host /\ UNCHANGED workerVars
        /\ \A g : In(g, to_worker) => In(g, to_worker')
    BY <1>6, CancelFrames
  <2> QED BY <1>w, <2>1, <2>2 DEF OnItsWay, workerVars
<1>7. ASSUME NEW c \in Callers, DropReceiver(c) PROVE OnItsWay(call[d].id)'
  BY <1>7, <1>k DEF DropReceiver, workerVars
<1>8. ASSUME WorkerStep \/ \E j \in Ids : ReportProgress(j) PROVE OnItsWay(call[d].id)'
  <2>1. call' = call /\ exited' = exited
    BY <1>8 DEF WorkerStep, WorkerLock, WorkerReceive, SendResponse, HandlerReturns,
                ReportProgress, callVars
  <2>2. call[d].id \in Ids /\ OnItsWay(call[d].id)
    BY <1>w, <2>1
  <2>3. \A i \in Ids : OnItsWay(i) => OnItsWay(i)'
    BY <1>8, AnswerKept
  <2> QED BY <2>1, <2>2, <2>3 DEF OnItsWay
<1>9. ASSUME WorkerExits PROVE OnItsWay(call[d].id)'
  BY <1>9 DEF WorkerExits
<1>10. ASSUME UNCHANGED vars PROVE OnItsWay(call[d].id)'
  BY <1>10, <1>k DEF vars
<1> QED BY <1>1, <1>2, <1>3, <1>4, <1>5, <1>6, <1>7, <1>8, <1>9, <1>10, <1>11 DEF Next, HostStep

----------------------------------------------------------------------------
(* The theorems. *)

\* The invariant holds at first.
LEMMA InitInv == Init => IInv
<1> SUFFICES ASSUME Init PROVE IInv
  OBVIOUS
<1>1. TypeOK
  BY InitTypes
<1>2. /\ \A c \in Callers : call[c].at = "idle"
      /\ \A g : ~In(g, to_worker) /\ ~In(g, to_host)
      /\ worker.at = "idle" /\ lock = NoCaller
      /\ \A i \in Ids : handled[i] = "none" /\ returned[i] = "none"
  BY DEF Init, NoCall, Waiting, In
<1>3. Exclusive /\ Pending /\ FramesTell /\ InHand
  BY <1>2, WorkerApiAssumption DEF Exclusive, Pending, FramesTell, InHand
<1>4. Unheard /\ Single
  BY <1>2 DEF Unheard, Single, Once, In
<1>5. AnswersAreOwn /\ AnswerIsOnItsWay
  BY <1>2 DEF AnswersAreOwn, AnswerIsOnItsWay, Answers
<1> QED BY <1>1, <1>3, <1>4, <1>5 DEF IInv

\* The invariant holds in every behaviour; the theorems follow from it.
LEMMA Invariance == Spec => []IInv
<1>1. IInv /\ [Next]_vars => IInv'
  BY TypeStep, ExclusiveStep, PendingStep, FramesStep, InHandStep, UnheardStep, SingleStep,
     OwnStep, OnItsWayStep DEF IInv
<1> QED BY InitInv, <1>1, PTL DEF Spec

\* Every variable keeps its type, and the socket never holds more than it can.
THEOREM WorkerTypes == Spec => []TypeOK
<1>1. IInv => TypeOK
  BY DEF IInv
<1> QED BY Invariance, <1>1, PTL

\* For any threads and any traffic, a call returns the answer to its own request.
THEOREM AnswersBelong == Spec => []AnswersAreOwn
<1>1. IInv => AnswersAreOwn
  BY DEF IInv
<1> QED BY Invariance, <1>1, PTL

\* For any capacity of the socket, a call that waits has its answer on the way as
\* long as the worker lives.
THEOREM NobodyWaitsInVain == Spec => []AnswerIsOnItsWay
<1>1. IInv => AnswerIsOnItsWay
  BY DEF IInv
<1> QED BY Invariance, <1>1, PTL
=============================================================================
