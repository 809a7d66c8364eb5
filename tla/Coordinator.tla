---------------------------- MODULE Coordinator ----------------------------
(***************************************************************************)
(* CoordinatorServer (coordinator.cpp) with its connection threads and the *)
(* worker processes (worker.cpp) at the other end of the sockets.          *)
(*                                                                         *)
(* Every connection has a thread in the server.  A control thread takes    *)
(* one request at a time through process_control; most operations change   *)
(* the Fabric under state_mc_, then forward a command to a worker with no  *)
(* lock held and wait for the answer, then enter the Fabric again.  A      *)
(* worker's thread registers it, hands its answers to the waiting threads  *)
(* and cleans up when the socket closes.  Each critical section is one     *)
(* step, so everything the code lets happen between two of them happens    *)
(* between two steps here.  The main thread sleeps until ctl_shutdown and  *)
(* then joins all of them in stop().                                       *)
(*                                                                         *)
(* A request that is answered without a state change (a rejected fence, a  *)
(* query, a ping) is not a step.                                           *)
(***************************************************************************)
EXTENDS Fabric, Sequences, FiniteSets

CONSTANTS
    Clients,        \* control threads that may be inside a request at once
    Offered,        \* the operations of Ops and "shutdown" clients request
    MaxConns,       \* bound: worker connections ever opened
    MaxReqs,        \* bound: commands ever forwarded
    DeviceLimit,    \* device memory limit the server was given
    WordSize        \* number of values of a capacity counter

VARIABLES
    slots,          \* workers_: worker id -> connection of its slot
    conn,           \* worker connections and their server threads
    pending,        \* pending_: request id -> Pending
    next_req,       \* next_req_
    thread,         \* control threads
    shutdown,       \* shutdown_: "no" or "asked"; "done" when stop() returned
    limits, used, held,     \* the Fabric's CapacityAccountant
    proc,           \* the worker process that opened each connection
    to_worker,      \* frames in flight to each worker process
    from_worker     \* frames in flight back

linkVars == <<slots, conn, shutdown>>
reqVars == <<pending, next_req>>
capVars == <<limits, used, held>>
wireVars == <<proc, to_worker, from_worker>>
serverVars == <<linkVars, reqVars, thread, capVars, wireVars>>
vars == <<fabricVars, serverVars>>

Conns == 1..MaxConns
Reqs == 1..MaxReqs
DeviceMemory == {"device_memory"}

\* The accountant; an owner is an instance id.
Cap == INSTANCE Capacity WITH Locations <- DeviceMemory, Owners <- Instances

ASSUME ServerAssumption ==
    /\ MaxConns \in Nat /\ MaxReqs \in Nat
    /\ WordSize \in Nat /\ DeviceLimit \in 0..(WordSize - 1)

-----------------------------------------------------------------------------
(* Data types.                                                             *)

Ops == {"load", "activate", "deactivate", "migrate", "invalidate", "evict"}

\* The command each operation forwards and the type of its acknowledgement.
Command == [load |-> "wk_load", activate |-> "wk_activate",
            deactivate |-> "wk_deactivate", migrate |-> "wk_migrate",
            invalidate |-> "wk_invalidate", evict |-> "wk_deactivate"]
AckOf == [wk_load |-> "wk_load_ack", wk_activate |-> "wk_activate_ack",
          wk_deactivate |-> "wk_deactivate_ack",
          wk_migrate |-> "wk_migrate_ack",
          wk_invalidate |-> "wk_invalidate_ack"]

\* A control thread outside process_control.
Idle == [pc |-> "idle", op |-> None, fence |-> None, adapter |-> None,
         inst |-> None, target |-> None, conn |-> None, req |-> None]

\* A control thread that has returned from handle_connection.
Gone == [Idle EXCEPT !.pc = "gone"]

\* A connection that has not been opened, and its process.
Unopened == [worker |-> None, boot |-> None, handler |-> "none", up |-> FALSE]
Unborn == [state |-> "none", local |-> {}]

\* struct Pending as forward_to_worker creates it, and as an abort leaves it.
Unanswered == [done |-> FALSE, type |-> None, ok |-> FALSE, bytes |-> 0]
Failed == [done |-> TRUE, type |-> "wk_error", ok |-> FALSE, bytes |-> 0]

Answers ==
    [done : {TRUE}, ok : BOOLEAN, bytes : Nat,
     type : {AckOf[m] : m \in DOMAIN AckOf} \cup {"wk_error"}]

\* The stack of a control thread, a worker's connection with the state of its
\* thread, and a worker process.
ThreadRecord ==
    [pc : {"idle", "create", "forward", "send", "wait", "failed", "settle",
           "gone"},
     op : Ops \cup {None}, fence : Presented \cup {None},
     adapter : Adapters \cup {None}, inst : Instances \cup {None},
     target : Workers \cup {None}, conn : Conns \cup {None},
     req : Reqs \cup {None}]

ConnRecord ==
    [worker : Workers \cup {None}, boot : Boots \cup {None},
     handler : {"none", "slotted", "reading", "leaving", "closing", "aborted",
                "gone"},
     up : BOOLEAN]

ProcRecord ==
    [state : {"none", "joining", "up", "dead"}, local : SUBSET Adapters]

\* An absent entry is none of the entries.
ASSUME AbsentAssumption ==
    /\ None \notin Ops /\ None \notin Conns
    /\ None \notin Answers /\ None # Unanswered

ServerTypeOK ==
    /\ slots \in [Workers -> Conns \cup {None}]
    /\ conn \in [Conns -> ConnRecord]
    /\ pending \in [Reqs -> Answers \cup {Unanswered, None}]
    /\ next_req \in 1..(MaxReqs + 1)
    /\ thread \in [Clients -> ThreadRecord]
    /\ proc \in [Conns -> ProcRecord]
    /\ shutdown \in {"no", "asked", "done"}
    /\ Cap!CapacityTypeOK
-----------------------------------------------------------------------------
(* Requests that are one critical section.  They come on connections of    *)
(* their own, whose threads leave after the request when shutdown_ is set. *)

\* Where the loop of handle_connection takes a control thread once its reply
\* is sent: back to recv_frame, or out when shutdown_ is set.
AfterReply == IF shutdown = "no" THEN Idle ELSE Gone

\* A client learns an instance id from the reply to the load that made it
\* (and may still use it once the instance is evicted).
Known(i) ==
    /\ i < next_inst
    /\ \A c \in Clients : thread[c].op = "load" => thread[c].inst # i

CtlRegisterAdapter(a, rev, n) ==
    RegisterAdapter(a, rev, n) /\ UNCHANGED serverVars

CtlEpoch == AdvanceEpoch /\ UNCHANGED serverVars

CtlPin(i) == Known(i) /\ Pin(i) /\ UNCHANGED serverVars
CtlUnpin(i) == Known(i) /\ Unpin(i) /\ UNCHANGED serverVars

\* ctl_shutdown: no thread that is blocked in recv_frame is woken.
CtlShutdown ==
    /\ "shutdown" \in Offered
    /\ shutdown = "no"
    /\ shutdown' = "asked"
    /\ UNCHANGED <<fabricVars, slots, conn, reqVars, thread, capVars, wireVars>>

-----------------------------------------------------------------------------
(* Requests that forward a command: up to the call of forward_to_worker.   *)

\* Fault: a request id that is not advanced.
SameReq(r) == r

\* next_req_++
NextReq(r) == r + 1

\* Thread c enters process_control with a request that will forward a command
\* to worker w, under the request id next_req_++ yields.
Accept(c, op, pc, f, a, i, w) ==
    /\ thread[c].pc = "idle"
    /\ op \in Offered
    /\ next_req \in Reqs
    /\ thread' = [thread EXCEPT ![c] =
                    [pc |-> pc, op |-> op, fence |-> f, adapter |-> a,
                     inst |-> i, target |-> w, conn |-> None,
                     req |-> next_req]]
    /\ next_req' = NextReq(next_req)
    /\ UNCHANGED <<linkVars, pending, wireVars>>

\* Instance ids that accepted loads have not drawn yet (bound).
LoadsToCreate == Cardinality({c \in Clients : thread[c].pc = "create"})

CtlLoad(c, f, w) ==
    /\ FenceCurrent(f)
    /\ next_inst + LoadsToCreate \in Instances
    /\ Accept(c, "load", "create", f, f.adapter, None, w)
    /\ UNCHANGED <<fabricVars, capVars>>

\* The second critical section of ctl_load; the fence is not checked again.
LoadCreate(c) ==
    LET f == thread[c].fence
    IN  /\ thread[c].pc = "create"
        /\ CreateInstance(f.adapter, f.worker, f.boot, f.device)
        /\ thread' = [thread EXCEPT ![c] =
                        [@ EXCEPT !.pc = "forward", !.inst = next_inst]]
        /\ UNCHANGED <<linkVars, reqVars, capVars, wireVars>>

CtlActivate(c, f, w) ==
    /\ FenceCurrent(f)
    /\ Accept(c, "activate", "forward", f, f.adapter, None, w)
    /\ UNCHANGED <<fabricVars, capVars>>

\* ctl_deactivate and ctl_migrate change nothing before they forward.
CtlDeactivate(c, a, w) ==
    /\ Accept(c, "deactivate", "forward", None, a, None, w)
    /\ UNCHANGED <<fabricVars, capVars>>

CtlMigrate(c, a, w) ==
    /\ Accept(c, "migrate", "forward", None, a, None, w)
    /\ UNCHANGED <<fabricVars, capVars>>

CtlInvalidate(c, a, w) ==
    /\ Accept(c, "invalidate", "forward", None, a, None, w)
    /\ Invalidate(a)
    /\ UNCHANGED capVars

\* Fault: eviction that keeps the reservation.
KeepReservation(i) == UNCHANGED capVars

\* The instance's reservation is released if release() does not throw.
ReleaseReservation(i) ==
    LET n == residencies[i].bytes
    IN  IF Cap!CanRelease("device_memory", n, i)
        THEN Cap!Release("device_memory", n, i)
        ELSE UNCHANGED capVars

\* ctl_evict forwards whether or not there was anything to evict.
CtlEvict(c, i, w) ==
    /\ Known(i)
    /\ Accept(c, "evict", "forward", None, None, i, w)
    /\ IF CanEvict(i)
       THEN Evict(i) /\ ReleaseReservation(i)
       ELSE UNCHANGED <<fabricVars, capVars>>

-----------------------------------------------------------------------------
(* forward_to_worker.                                                      *)

\* Looks the slot up and reads its connected flag.
Lookup(c) ==
    LET k == slots[thread[c].target]
        live == k # None /\ conn[k].up
    IN  /\ thread[c].pc = "forward"
        /\ thread' = [thread EXCEPT ![c] =
                        [@ EXCEPT !.pc = IF live THEN "send" ELSE "failed",
                                  !.conn = IF live THEN k ELSE None]]
        /\ UNCHANGED <<fabricVars, linkVars, reqVars, capVars, wireVars>>

Alive(k) == proc[k].state \in {"joining", "up"}

\* Publishes the pending entry and sends the frame.  A frame for a process
\* that has died vanishes in the socket buffer ...
Send(c) ==
    LET t == thread[c]
        m == [type |-> Command[t.op], req |-> t.req, adapter |-> t.adapter]
    IN  /\ t.pc = "send"
        /\ pending' = [pending EXCEPT ![t.req] = Unanswered]
        /\ to_worker' = [to_worker EXCEPT ![t.conn] =
                           IF Alive(t.conn) THEN Append(@, m) ELSE @]
        /\ thread' = [thread EXCEPT ![c].pc = "wait"]
        /\ UNCHANGED <<fabricVars, linkVars, next_req, capVars, proc,
                       from_worker>>

\* ... or makes send_frame fail, and the entry is erased again.
SendFails(c) ==
    /\ thread[c].pc = "send"
    /\ ~Alive(thread[c].conn)
    /\ thread' = [thread EXCEPT ![c].pc = "failed"]
    /\ UNCHANGED <<fabricVars, linkVars, reqVars, capVars, wireVars>>

-----------------------------------------------------------------------------
(* The rest of process_control, once forward_to_worker has returned.       *)

Returned(c) ==
    \/ thread[c].pc = "failed"
    \/ /\ thread[c].pc = "wait"
       /\ pending[thread[c].req].done

Answer(c) ==
    IF thread[c].pc = "failed" THEN Failed ELSE pending[thread[c].req]

\* Takes the answer, erases the pending entry and moves on to next.
TakeAnswer(c, next) ==
    /\ pending' = IF thread[c].pc = "failed" THEN pending
                  ELSE [pending EXCEPT ![thread[c].req] = None]
    /\ thread' = [thread EXCEPT ![c] = next]
    /\ UNCHANGED <<linkVars, next_req, wireVars>>

SetReadyIfPresent(a) ==
    IF authority[a] # None THEN SetReady(a) ELSE UNCHANGED fabricVars

\* ctl_load: the instance is marked ready and charged for what the worker
\* reported; a throw of reserve() is swallowed.
FinishLoad(c) ==
    LET i == thread[c].inst
        n == Answer(c).bytes
    IN  /\ Returned(c) /\ thread[c].op = "load"
        /\ Answer(c).ok
        /\ TakeAnswer(c, [thread[c] EXCEPT !.pc = "settle"])
        /\ IF residencies[i] # None
           THEN MarkReady(i, n) ELSE UNCHANGED fabricVars
        /\ IF Cap!CanReserve("device_memory", n, i)
           THEN Cap!Reserve("device_memory", n, i)
           ELSE UNCHANGED capVars

\* ctl_load: the last critical section.
SettleLoad(c) ==
    /\ thread[c].pc = "settle"
    /\ SetReadyIfPresent(thread[c].adapter)
    /\ thread' = [thread EXCEPT ![c] = AfterReply]
    /\ UNCHANGED <<linkVars, reqVars, capVars, wireVars>>

\* ctl_activate: bind_authority checks the fence again and may refuse.
FinishActivate(c) ==
    /\ Returned(c) /\ thread[c].op = "activate"
    /\ Answer(c).ok
    /\ TakeAnswer(c, AfterReply)
    /\ IF CanBind(thread[c].fence)
       THEN BindAuthority(thread[c].fence)
       ELSE UNCHANGED fabricVars
    /\ UNCHANGED capVars

\* ctl_deactivate: the lifecycle is set whatever the worker answered.
FinishDeactivate(c) ==
    /\ Returned(c) /\ thread[c].op = "deactivate"
    /\ TakeAnswer(c, AfterReply)
    /\ SetReadyIfPresent(thread[c].adapter)
    /\ UNCHANGED capVars

\* A failed load or activation, and the operations that ignore the answer.
FinishOther(c) ==
    /\ Returned(c)
    /\ \/ thread[c].op \in {"migrate", "invalidate", "evict"}
       \/ thread[c].op \in {"load", "activate"} /\ ~Answer(c).ok
    /\ TakeAnswer(c, AfterReply)
    /\ UNCHANGED <<fabricVars, capVars>>
-----------------------------------------------------------------------------
(* Worker connections: the server's thread, handle_connection.             *)

\* A worker process starts, connects and sends wk_register with the boot id
\* derived from its seed; a restart may reuse the seed.  No two processes of
\* one worker run at once, but the server may not have noticed the end of the
\* last one yet.  The connection's thread answers first under workers_mc_:
\* the new slot becomes visible to forwarders.
Connect(k, w, b) ==
    /\ shutdown # "done"
    /\ conn[k].handler = "none"
    /\ \A j \in 1..(k - 1) : conn[j].handler # "none"
    /\ \A j \in Conns : conn[j].worker = w => ~Alive(j)
    /\ conn' = [conn EXCEPT ![k] = [worker |-> w, boot |-> b,
                                    handler |-> "slotted", up |-> TRUE]]
    /\ slots' = [slots EXCEPT ![w] = k]
    /\ proc' = [proc EXCEPT ![k].state = "joining"]
    /\ UNCHANGED <<fabricVars, reqVars, thread, shutdown, capVars, to_worker,
                   from_worker>>

\* Fault: the loop of a worker's thread that does not look at shutdown_.
KeepReading == "reading"

\* Where the loop takes a worker's thread after a frame.
AfterFrame == IF shutdown = "no" THEN "reading" ELSE "leaving"

\* wk_register, under state_mc_: register_worker, then on_worker_restart;
\* then the acknowledgement is sent.
RegisterState(k) ==
    /\ conn[k].handler = "slotted"
    /\ RegisterWorkerEffect(conn[k].worker, conn[k].boot)
    /\ RestartEffect(conn[k].worker, conn[k].boot)
    /\ conn' = [conn EXCEPT ![k].handler = AfterFrame]
    /\ to_worker' = [to_worker EXCEPT ![k] =
                       IF Alive(k)
                       THEN Append(@, [type |-> "wk_register_ack"]) ELSE @]
    /\ UNCHANGED <<registryVars, next_inst,
                   invalidation_log, slots, shutdown, reqVars, thread,
                   capVars, proc, from_worker>>

\* An answer is handed to the thread waiting under its request id, if any.
HandleReply(k) ==
    LET m == Head(from_worker[k])
    IN  /\ conn[k].handler = "reading"
        /\ from_worker[k] # <<>>
        /\ from_worker' = [from_worker EXCEPT ![k] = Tail(@)]
        /\ pending' = [pending EXCEPT ![m.req] =
                         IF @ = None THEN None
                         ELSE [done |-> TRUE, type |-> m.type, ok |-> m.ok,
                               bytes |-> m.bytes]]
        /\ conn' = [conn EXCEPT ![k].handler = AfterFrame]
        /\ UNCHANGED <<fabricVars, slots, shutdown, next_req, thread, capVars,
                       proc, to_worker>>

\* The loop ends: recv_frame fails because the process is gone (frames it had
\* sent may be lost), or shutdown_ was set when the last frame was done.
\* Clean-up starts by clearing the slot's connected flag.
Hangup(k) ==
    /\ conn[k].handler = "leaving" \/ (conn[k].handler = "reading" /\ ~Alive(k))
    /\ conn' = [conn EXCEPT ![k].handler = "closing", ![k].up = FALSE]
    /\ from_worker' = [from_worker EXCEPT ![k] = <<>>]
    /\ UNCHANGED <<fabricVars, slots, shutdown, reqVars, thread, capVars,
                   proc, to_worker>>

\* Fault: waiters are woken without a result; the pending requests are
\* forgotten.
AbortedBlank(p) == [p EXCEPT !.done = TRUE]
NotAborted(p) == p

\* What an abort makes of a request that has no answer yet.
Aborted(p) == Failed

\* abort_pending_for_worker fails every request that has no answer yet,
\* whichever worker it was sent to.
AbortPending(k) ==
    /\ conn[k].handler = "closing"
    /\ pending' = [r \in Reqs |->
                     IF pending[r] # None /\ ~pending[r].done
                     THEN Aborted(pending[r]) ELSE pending[r]]
    /\ conn' = [conn EXCEPT ![k].handler = "aborted"]
    /\ UNCHANGED <<fabricVars, slots, shutdown, next_req, thread, capVars,
                   wireVars>>

\* on_worker_down by worker id, whatever boot is registered by now.
MarkDown(k) ==
    /\ conn[k].handler = "aborted"
    /\ OnWorkerDown(conn[k].worker)
    /\ conn' = [conn EXCEPT ![k].handler = "gone"]
    /\ UNCHANGED <<slots, shutdown, reqVars, thread, capVars, wireVars>>

-----------------------------------------------------------------------------
(* The main thread: running_ is cleared, the destructor calls stop().      *)

\* After a shutdown the client of an idle control thread closes its socket.
ClientLeaves(c) ==
    /\ shutdown = "asked"
    /\ thread[c].pc = "idle"
    /\ thread' = [thread EXCEPT ![c] = Gone]
    /\ UNCHANGED <<fabricVars, linkVars, reqVars, capVars, wireVars>>

\* Fault: only the control threads are joined.
AllControlJoined == \A c \in Clients : thread[c].pc = "gone"

\* Every connection thread has returned (one that was never opened, or whose
\* peer said nothing, leaves no trace).
AllJoined ==
    /\ \A c \in Clients : thread[c].pc = "gone"
    /\ \A k \in Conns : conn[k].handler \in {"none", "gone"}

\* stop() returns and the process ends.
Stop ==
    /\ shutdown = "asked"
    /\ AllJoined
    /\ shutdown' = "done"
    /\ UNCHANGED <<fabricVars, slots, conn, reqVars, thread, capVars, wireVars>>

-----------------------------------------------------------------------------
(* Worker processes: WorkerService.                                        *)

Exit(k) == proc' = [proc EXCEPT ![k] = [state |-> "dead", local |-> {}]]

\* connect_and_register takes the first frame for the acknowledgement; a
\* command that overtook it does not have ok set, and the worker gives up.
Join(k) ==
    /\ proc[k].state = "joining"
    /\ to_worker[k] # <<>>
    /\ IF Head(to_worker[k]).type = "wk_register_ack"
       THEN /\ proc' = [proc EXCEPT ![k].state = "up"]
            /\ to_worker' = [to_worker EXCEPT ![k] = Tail(@)]
       ELSE /\ Exit(k)
            /\ to_worker' = [to_worker EXCEPT ![k] = <<>>]
    /\ UNCHANGED <<fabricVars, linkVars, reqVars, thread,
                   capVars, from_worker>>

\* handle_command.  A load whose size is 0 is accepted as one byte, and
\* ctl_load never sets the size.  The worker acknowledges everything; an
\* activation reports the size of what is loaded.
HandleCommand(k) ==
    LET m == Head(to_worker[k])
        bytes == IF \/ m.type = "wk_load"
                    \/ m.type = "wk_activate" /\ m.adapter \in proc[k].local
                 THEN 1 ELSE 0
    IN  /\ proc[k].state = "up"
        /\ to_worker[k] # <<>>
        /\ proc' = [proc EXCEPT ![k].local =
                      CASE m.type = "wk_load"       -> @ \cup {m.adapter}
                        [] m.type = "wk_invalidate" -> @ \ {m.adapter}
                        [] OTHER                    -> @]
        /\ to_worker' = [to_worker EXCEPT ![k] = Tail(@)]
        /\ from_worker' = [from_worker EXCEPT ![k] =
                             Append(@, [type |-> AckOf[m.type], req |-> m.req,
                                        ok |-> TRUE, bytes |-> bytes])]
        /\ UNCHANGED <<fabricVars, linkVars, reqVars, thread, capVars>>

\* recv_frame fails in run() when the server's process has ended.
Disconnected(k) ==
    /\ shutdown = "done"
    /\ Alive(k)
    /\ to_worker[k] = <<>>
    /\ Exit(k)
    /\ UNCHANGED <<fabricVars, linkVars, reqVars, thread, capVars, to_worker,
                   from_worker>>

\* A worker process dies with everything it held.
Die(k) ==
    /\ Alive(k)
    /\ Exit(k)
    /\ to_worker' = [to_worker EXCEPT ![k] = <<>>]
    /\ UNCHANGED <<fabricVars, linkVars, reqVars, thread,
                   capVars, from_worker>>

-----------------------------------------------------------------------------

ServerInit ==
    /\ Init
    /\ slots = [w \in Workers |-> None]
    /\ conn = [k \in Conns |-> Unopened]
    /\ pending = [r \in Reqs |-> None]
    /\ next_req = 1
    /\ thread = [c \in Clients |-> Idle]
    /\ shutdown = "no"
    /\ Cap!CapacityInit([l \in DeviceMemory |-> DeviceLimit])
    /\ proc = [k \in Conns |-> Unborn]
    /\ to_worker = [k \in Conns |-> <<>>]
    /\ from_worker = [k \in Conns |-> <<>>]

\* A client sends a request.
Request ==
  /\ shutdown # "done"
  /\ \/ \E a \in Adapters, rev \in Revisions, n \in Sizes :
          CtlRegisterAdapter(a, rev, n)
     \/ CtlEpoch
     \/ CtlShutdown
     \/ \E i \in Instances : CtlPin(i)
     \/ \E i \in Instances : CtlUnpin(i)
     \/ \E c \in Clients, w \in Workers :
          \/ \E f \in Presented : CtlLoad(c, f, w)
          \/ \E f \in Presented : CtlActivate(c, f, w)
          \/ \E a \in Adapters : CtlDeactivate(c, a, w)
          \/ \E a \in Adapters : CtlMigrate(c, a, w)
          \/ \E a \in Adapters : CtlInvalidate(c, a, w)
          \/ \E i \in Instances : CtlEvict(c, i, w)

\* A control thread goes on with its request.
ControlStep(c) ==
    \/ LoadCreate(c)
    \/ Lookup(c)
    \/ Send(c)
    \/ SendFails(c)
    \/ FinishLoad(c)
    \/ SettleLoad(c)
    \/ FinishActivate(c)
    \/ FinishDeactivate(c)
    \/ FinishOther(c)

\* The thread of a worker connection goes on.
HandlerStep(k) ==
    \/ RegisterState(k)
    \/ HandleReply(k)
    \/ Hangup(k)
    \/ AbortPending(k)
    \/ MarkDown(k)

\* A worker process handles the next frame.
WorkerStep(k) == Join(k) \/ HandleCommand(k) \/ Disconnected(k)

ServerNext ==
    \/ Request
    \/ \E c \in Clients : ControlStep(c)
    \/ \E k \in Conns : HandlerStep(k)
    \/ \E k \in Conns : WorkerStep(k)
    \/ \E k \in Conns, w \in Workers, b \in Boots : Connect(k, w, b)
    \/ \E k \in Conns : Die(k)
    \/ \E c \in Clients : ClientLeaves(c)
    \/ Stop

ServerSpec == ServerInit /\ [][ServerNext]_vars

\* Threads and processes that can take a step eventually do; clients need not
\* send requests or leave, and workers need not start or die.
ServerFairness ==
    /\ \A c \in Clients : WF_vars(ControlStep(c))
    /\ \A k \in Conns : WF_vars(HandlerStep(k)) /\ WF_vars(WorkerStep(k))
    /\ WF_vars(Stop)

FairSpec == ServerSpec /\ ServerFairness
-----------------------------------------------------------------------------
(* What the coordinator promises.                                          *)

\* x (a fence or a residency record) names the boot of a worker that the
\* registry has as connected.
OnLiveBoot(x) ==
    /\ x.worker \in Workers
    /\ workers[x.worker] # None
    /\ workers[x.worker].connected
    /\ workers[x.worker].boot = x.boot

\* An activation never outlives its worker's boot: whatever re-registrations,
\* disconnects and late clean-ups interleave with the control threads, an
\* active record is bound to the boot its worker is connected under.
AuthorityOnLiveBoot ==
    \A a \in Adapters : IsActive(a) => OnLiveBoot(authority[a].fence)

\* No promotion on a stale check: ctl_activate checks the fence, waits for the
\* worker with no lock held, and still every new activation is bound to a
\* fence that is current at the moment it is bound.
GrantIsCurrent ==
    [][\A a \in Adapters :
         IsActive(a)' /\ (~IsActive(a) \/ authority'[a].fence # authority[a].fence)
           => FenceCurrent(authority'[a].fence)]_vars

\* The request/response bridge is correlation safe: a pending entry has
\* exactly one waiting thread and each waiting thread its own entry, and the
\* answer put there acknowledges the command that thread sent, or reports an
\* error.
AnswersCorrelated ==
    /\ \A r \in Reqs :
         pending[r] # None =>
           Cardinality({c \in Clients : thread[c].pc = "wait"
                                        /\ thread[c].req = r}) = 1
    /\ \A c \in Clients :
         thread[c].pc = "wait" =>
           /\ pending[thread[c].req] # None
           /\ pending[thread[c].req].done =>
                pending[thread[c].req].type
                  \in {AckOf[Command[thread[c].op]], "wk_error"}

\* No capacity leak: every reservation belongs to an instance that is still
\* in the registry and has its size, and device memory is not overcommitted.
ReservationsBacked ==
    /\ \A i \in Instances :
         held["device_memory"][i] # 0 =>
           /\ residencies[i] # None
           /\ residencies[i].bytes = held["device_memory"][i]
    /\ used["device_memory"] <= limits["device_memory"]

\* A request that waits on a connection whose thread has not yet aborted the
\* pending requests is answered or failed: the server never forgets it.
AnsweredWhileServed ==
    \A c \in Clients, k \in Conns :
      (/\ thread[c].pc = "wait" /\ thread[c].conn = k
       /\ conn[k].handler \in {"slotted", "reading", "closing"})
        ~> thread[c].pc # "wait"

\* Adapter a is active for a boot of which no process runs any more.
Orphaned(a) ==
    /\ IsActive(a)
    /\ ~ \E k \in Conns : /\ Alive(k)
                          /\ conn[k].worker = authority[a].fence.worker
                          /\ conn[k].boot = authority[a].fence.boot

\* When a worker process dies, the authority granted to its boot does not
\* stay behind: it is taken away (or a process of the same boot is back).
DeadWorkerRevoked == \A a \in Adapters : Orphaned(a) ~> ~Orphaned(a)

\* When stop() returns nothing is left behind: no adapter is active, no worker
\* counts as connected and no request is pending, whatever the threads were
\* doing when the shutdown was asked for.
StoppedClean ==
    shutdown = "done" =>
      /\ \A a \in Adapters : ~IsActive(a)
      /\ \A w \in Workers : workers[w] # None => ~workers[w].connected
      /\ \A r \in Reqs : pending[r] = None

\* After ctl_shutdown one more frame from a worker is enough to end and clean
\* up its connection, even if the worker stays alive.
LeavesAfterFrame ==
    \A k \in Conns :
      (/\ shutdown = "asked" /\ conn[k].handler = "reading"
       /\ from_worker[k] # <<>>)
        ~> conn[k].handler = "gone"

\* Every worker process has ended and every control client hung up.
PeersGone ==
    /\ \A k \in Conns : ~Alive(k)
    /\ \A c \in Clients : thread[c].pc # "idle"

\* A thread is about to send on a connection whose clean-up is over.
LateSend ==
    \E c \in Clients :
      /\ thread[c].pc = "send"
      /\ conn[thread[c].conn].handler \in {"aborted", "gone"}

\* stop() returns once the peers have gone: no thread it joins waits for
\* another one or for an answer that cannot come, unless a request was sent
\* after the clean-up of its connection.  (It does not return while an idle
\* peer stays connected: nothing wakes a thread in recv_frame.)
StopReturns ==
    ([]~LateSend /\ <>[]PeersGone) => (shutdown = "asked" ~> shutdown = "done")

-----------------------------------------------------------------------------
(* What comments and documents say of the coordinator and the code does    *)
(* not do.                                                                 *)

\* ARCHITECTURE.md: "a dead worker's adapter state is never treated as
\* resident or active".
ReadyOnLiveBoot ==
    \A i \in Instances :
      residencies[i] # None /\ residencies[i].ready
        => OnLiveBoot(residencies[i])

\* ARCHITECTURE.md: "contention is an explicit authority_conflict", by which
\* bind_authority says that "another adapter holds exclusive execution
\* authority": then one is active.
ConflictHasHolder ==
    \A f \in Presented :
      (FenceCurrent(f) /\ active_fence # None /\ active_fence.adapter # f.adapter)
        => IsActive(active_fence.adapter)

\* coordinator.hpp: process_control "Returns the response message".
RequestReturns ==
    \A c \in Clients : thread[c].pc = "wait" ~> thread[c].pc # "wait"

=============================================================================
