----------------------------- MODULE WorkerApi -----------------------------
(***************************************************************************)
(* A WorkerHandle of the host (worker_api.rs), the loop of the worker      *)
(* (runtime/worker_client.rs) and the socket between them                  *)
(* (ipc_transport.rs).  Threads of the host share the handle: one holds    *)
(* its transport from the request to the answer, and skips every frame     *)
(* that is not for it.  Answers nobody waits for - of requests sent by     *)
(* fire_and_forget, of streams given up - stay in the socket until a later *)
(* call reads past them.  Neither end of the socket has a timeout.         *)
(***************************************************************************)
EXTENDS Naturals, Sequences, FiniteSets

CONSTANTS
    Callers,        \* threads of the host
    NoCaller,       \* nobody holds the transport
    Capacity,       \* frames the socket buffers in each direction
    MaxRequests,    \* bound on the requests
    MaxForgotten,   \* bound on the calls of fire_and_forget
    MaxDrops,       \* bound on the streams given up
    MaxProgress     \* bound on the progress the worker reports

ASSUME WorkerApiAssumption ==
    /\ NoCaller \notin Callers
    /\ Capacity \in Nat \ {0}
    /\ MaxRequests \in Nat /\ MaxForgotten \in Nat
    /\ MaxDrops \in Nat /\ MaxProgress \in Nat

VARIABLES
    to_worker,        \* frames on their way to the worker
    to_host,          \* frames on their way to the host
    lock,             \* who holds the transport of the host
    next_request_id,
    call,             \* where each thread of the host is
    worker,           \* where the worker is
    exited,           \* the worker process is gone
    started,          \* requests whose progress function the worker may still have
    dropped,          \* streams whose receiver is gone, or cannot parse the progress
    forgotten,        \* number of calls of fire_and_forget, for the bound
    progressed,       \* number of progress frames, for the bound
    handled,          \* history: what the handler answered to each request
    returned          \* history: what each call returned

vars == <<to_worker, to_host, lock, next_request_id, call, worker, exited,
          started, dropped, forgotten, progressed, handled, returned>>

Ids == 1..MaxRequests
Kinds == {"request", "forget", "stream"}
Answers == {"ok", "error"}
Result == Answers \cup {"cancelled"}
Outcome == Result \cup {"none", "pending", "sent", "stopped", "failed"}

Request(i) == [kind |-> "request", id |-> i]
Cancel(i) == [kind |-> "cancel", id |-> i]
Response(i, r) == [kind |-> "response", id |-> i, result |-> r]
Progress(i) == [kind |-> "progress", id |-> i]

ToWorker == {Request(i) : i \in Ids} \cup {Cancel(i) : i \in Ids}
ToHost == {Response(i, r) : i \in Ids, r \in Result} \cup {Progress(i) : i \in Ids}

Thread == [at : {"idle", "lock", "send", "recv", "cancel"}, kind : Kinds, id : 0..MaxRequests]
Worker == [at : {"idle", "recv", "handle"}, id : 0..MaxRequests, result : {"none"}]
            \cup [at : {"answer"}, id : Ids, result : Result]

NoCall == [at |-> "idle", kind |-> "request", id |-> 0]
Waiting == [at |-> "idle", id |-> 0, result |-> "none"]

\* The types, and what the sockets bound.
TypeOK ==
    /\ to_worker \in Seq(ToWorker) /\ Len(to_worker) <= Capacity
    /\ to_host \in Seq(ToHost) /\ Len(to_host) <= Capacity
    /\ lock \in Callers \cup {NoCaller}
    /\ next_request_id \in 1..(MaxRequests + 1)
    /\ call \in [Callers -> Thread]
    /\ worker \in Worker
    /\ exited \in BOOLEAN
    /\ started \subseteq Ids /\ dropped \subseteq Ids
    /\ forgotten \in 0..MaxForgotten /\ progressed \in 0..MaxProgress
    /\ handled \in [Ids -> Answers \cup {"none"}]
    /\ returned \in [Ids -> Outcome]

Init ==
    /\ to_worker = <<>> /\ to_host = <<>>
    /\ lock = NoCaller
    /\ next_request_id = 1
    /\ call = [c \in Callers |-> NoCall]
    /\ worker = Waiting
    /\ exited = FALSE
    /\ started = {} /\ dropped = {}
    /\ forgotten = 0 /\ progressed = 0
    /\ handled = [i \in Ids |-> "none"]
    /\ returned = [i \in Ids |-> "none"]

workerVars == <<worker, exited, started, progressed, handled>>
callVars == <<lock, next_request_id, call, forgotten, returned, dropped>>

----------------------------------------------------------------------------
(* The host. *)

\* request, health_check, fire_and_forget or stream_progress is called.  The id
\* is taken before the lock: requests may be sent in another order.
Call(c) ==
    /\ call[c].at = "idle" /\ next_request_id <= MaxRequests
    /\ \E kind \in Kinds :
        /\ kind = "forget" => forgotten < MaxForgotten
        /\ forgotten' = IF kind = "forget" THEN forgotten + 1 ELSE forgotten
        /\ call' = [call EXCEPT ![c] = [at |-> "lock", kind |-> kind, id |-> next_request_id]]
    /\ returned' = [returned EXCEPT ![next_request_id] = "pending"]
    /\ next_request_id' = next_request_id + 1
    /\ UNCHANGED <<to_worker, to_host, lock, dropped, workerVars>>

\* transport.lock()
Lock(c) ==
    /\ call[c].at = "lock" /\ lock = NoCaller
    /\ lock' = c
    /\ call' = [call EXCEPT ![c].at = "send"]
    /\ UNCHANGED <<to_worker, to_host, next_request_id, dropped, forgotten, returned, workerVars>>

\* The call returns, or the thread of a stream ends, and the guard is dropped.
Return(c, outcome) ==
    /\ lock' = NoCaller
    /\ returned' = [returned EXCEPT ![call[c].id] = outcome]
    /\ call' = [call EXCEPT ![c] = NoCall]
    /\ UNCHANGED <<next_request_id, dropped, forgotten>>

\* send_request: it waits while the socket is full.
Send(c) ==
    /\ call[c].at = "send" /\ ~exited /\ Len(to_worker) < Capacity
    /\ to_worker' = Append(to_worker, Request(call[c].id))
    /\ \/ call[c].kind = "forget" /\ Return(c, "sent")
       \/ /\ call[c].kind # "forget"
          /\ call' = [call EXCEPT ![c].at = "recv"]
          /\ UNCHANGED <<lock, next_request_id, dropped, forgotten, returned>>
    /\ UNCHANGED <<to_host, workerVars>>

\* Mutant of Fail: the loop skips errors as it skips frames.
FailIgnored(c) ==
    /\ exited
    /\ \/ call[c].at = "send"
       \/ call[c].at = "recv" /\ to_host = <<>>
    /\ UNCHANGED vars

\* send_request or recv_message fails: the worker is gone, and what it had sent is read.
Fail(c) ==
    /\ exited
    /\ \/ call[c].at = "send"
       \/ call[c].at = "recv" /\ to_host = <<>>
    /\ Return(c, "failed")
    /\ UNCHANGED <<to_worker, to_host, workerVars>>

\* send_request refuses a frame beyond the limit of the transport, and the call
\* returns the error; nothing was written.
RefuseToSend(c) ==
    /\ call[c].at = "send" /\ ~exited
    /\ Return(c, "failed")
    /\ UNCHANGED <<to_worker, to_host, workerVars>>

\* Mutant of IsAnswer: any response is taken for the answer.
IsResponse(c, frame) == frame.kind = "response"

IsAnswer(c, frame) == frame.kind = "response" /\ frame.id = call[c].id

\* Progress a stream cannot hand on: its receiver is gone.
IsUndeliverable(c, frame) ==
    /\ frame.kind = "progress" /\ frame.id = call[c].id
    /\ call[c].kind = "stream" /\ call[c].id \in dropped

\* recv_message, and one turn of the loop: the answer, progress, or a frame to skip.
Receive(c) ==
    /\ call[c].at = "recv" /\ to_host # <<>>
    /\ to_host' = Tail(to_host)
    /\ LET frame == Head(to_host) IN
        \/ IsAnswer(c, frame) /\ Return(c, frame.result)
        \/ /\ IsUndeliverable(c, frame)
           /\ call' = [call EXCEPT ![c].at = "cancel"]
           /\ UNCHANGED <<lock, next_request_id, dropped, forgotten, returned>>
        \/ /\ ~IsAnswer(c, frame) /\ ~IsUndeliverable(c, frame)
           /\ UNCHANGED callVars
    /\ UNCHANGED <<to_worker, workerVars>>

\* send_cancel, whose own failure is ignored; the stream stops reading.
SendCancel(c) ==
    /\ call[c].at = "cancel"
    /\ \/ exited /\ UNCHANGED to_worker
       \/ ~exited /\ Len(to_worker) < Capacity
          /\ to_worker' = Append(to_worker, Cancel(call[c].id))
    /\ Return(c, "stopped")
    /\ UNCHANGED <<to_host, workerVars>>

\* The receiver of a stream is dropped, or does not understand the progress it gets.
DropReceiver(c) ==
    /\ call[c].at # "idle" /\ call[c].kind = "stream" /\ call[c].id \notin dropped
    /\ Cardinality(dropped) < MaxDrops
    /\ dropped' = dropped \cup {call[c].id}
    /\ UNCHANGED <<to_worker, to_host, lock, next_request_id, call, forgotten, returned, workerVars>>

----------------------------------------------------------------------------
(* The worker: WorkerClient::run. *)

\* The loop takes the lock of its transport, and waits for a frame with it.
WorkerLock ==
    /\ worker.at = "idle" /\ ~exited
    /\ worker' = [at |-> "recv", id |-> 0, result |-> "none"]
    /\ UNCHANGED <<to_worker, to_host, exited, started, progressed, handled, callVars>>

\* A request goes to the handler, a cancel is answered; both without the lock.
WorkerReceive ==
    /\ worker.at = "recv" /\ to_worker # <<>> /\ ~exited
    /\ to_worker' = Tail(to_worker)
    /\ LET frame == Head(to_worker) IN
        \/ /\ frame.kind = "request"
           /\ worker' = [at |-> "handle", id |-> frame.id, result |-> "none"]
           /\ started' = started \cup {frame.id}
        \/ /\ frame.kind = "cancel"
           /\ worker' = [at |-> "answer", id |-> frame.id, result |-> "cancelled"]
           /\ UNCHANGED started
    /\ UNCHANGED <<to_host, exited, progressed, handled, callVars>>

\* The progress function: called by the handler, or by a thread the handler gave
\* it to, at any time the loop does not wait with the lock of the transport.
ReportProgress(i) ==
    /\ i \in started /\ worker.at \in {"idle", "handle"} /\ ~exited
    /\ progressed < MaxProgress /\ Len(to_host) < Capacity
    /\ to_host' = Append(to_host, Progress(i))
    /\ progressed' = progressed + 1
    /\ UNCHANGED <<to_worker, worker, exited, started, handled, callVars>>

\* The handler returns.
HandlerReturns(result) ==
    /\ worker.at = "handle" /\ ~exited
    /\ worker' = [at |-> "answer", id |-> worker.id, result |-> result]
    /\ handled' = [handled EXCEPT ![worker.id] = result]
    /\ UNCHANGED <<to_worker, to_host, exited, started, progressed, callVars>>

\* Mutant of SendResponse: an error of the handler ends its turn of the loop
\* without a response.
SendResponseOfSuccess ==
    /\ worker.at = "answer" /\ ~exited /\ Len(to_host) < Capacity
    /\ to_host' = IF worker.result = "error" THEN to_host
                  ELSE Append(to_host, Response(worker.id, worker.result))
    /\ worker' = Waiting
    /\ UNCHANGED <<to_worker, exited, started, progressed, handled, callVars>>

\* send_response: it waits, with the lock, while the socket is full.
SendResponse ==
    /\ worker.at = "answer" /\ ~exited /\ Len(to_host) < Capacity
    /\ to_host' = Append(to_host, Response(worker.id, worker.result))
    /\ worker' = Waiting
    /\ UNCHANGED <<to_worker, exited, started, progressed, handled, callVars>>

\* The process ends, or is killed; what it sent stays readable.
WorkerExits ==
    /\ ~exited /\ exited' = TRUE
    /\ to_worker' = <<>>
    /\ UNCHANGED <<to_host, worker, started, progressed, handled, callVars>>

HostStep(c) == Lock(c) \/ Send(c) \/ Fail(c) \/ Receive(c) \/ SendCancel(c)

WorkerStep ==
    \/ WorkerLock \/ WorkerReceive \/ SendResponse
    \/ \E result \in Answers : HandlerReturns(result)

Next ==
    \/ \E c \in Callers : Call(c) \/ DropReceiver(c) \/ RefuseToSend(c) \/ HostStep(c)
    \/ WorkerStep
    \/ \E i \in Ids : ReportProgress(i)
    \/ WorkerExits

\* Threads are scheduled, and the handler of the worker returns.
Fairness == (\A c \in Callers : WF_vars(HostStep(c))) /\ WF_vars(WorkerStep)

Spec == Init /\ [][Next]_vars /\ Fairness

----------------------------------------------------------------------------
(* Properties. *)

\* Whatever answers are still in the socket from calls that did not wait for
\* theirs, and in whatever order the threads sent their requests, a call returns
\* what the handler answered to its own request, and never the answer to the
\* cancellation of a stream.
AnswersAreOwn ==
    \A i \in Ids :
        /\ returned[i] \in Answers => handled[i] = returned[i]
        /\ returned[i] # "cancelled"

In(frame, channel) == \E n \in 1..Len(channel) : channel[n] = frame

\* Nobody waits for nothing: as long as the worker lives, the request of a
\* thread that waits is in the socket or with the handler, or its answer is on the
\* way; nobody else has read it.
AnswerIsOnItsWay ==
    \A c \in Callers : call[c].at = "recv" /\ ~exited =>
        LET i == call[c].id IN
        \/ In(Request(i), to_worker)
        \/ worker.at = "handle" /\ worker.id = i
        \/ worker.at = "answer" /\ worker.id = i /\ worker.result \in Answers
        \/ \E r \in Answers : In(Response(i, r), to_host)

\* Every call returns ("Send a request and block until a response is
\* received", worker_api.rs:101) - while the answers that calls left unread fit
\* the socket: with more, the worker waits to write answers nobody reads while
\* the host waits to write the next request.
CallsReturn == \A i \in Ids : returned[i] = "pending" ~> returned[i] # "pending"

=============================================================================
