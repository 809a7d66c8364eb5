------------------------- MODULE CoordinatorProofs -------------------------
(***************************************************************************)
(* Proofs about the coordinator, for every set of adapters, workers, boots *)
(* and control threads, every bound and every width of the counters.       *)
(***************************************************************************)
EXTENDS Coordinator, FabricProofs, Sums

-----------------------------------------------------------------------------
(* The inductive invariant.                                                *)

\* The thread is inside process_control.
Busy(c) == thread[c].pc \notin {"idle", "gone"}

\* What a control thread has on its stack, by where it is in process_control.
ThreadSound(t) ==
    \/ t = Idle
    \/ t = Gone
    \/ /\ t.pc \notin {"idle", "gone"}
       /\ t.op \in Ops /\ t.target \in Workers /\ t.req \in Reqs
       /\ t.op \in {"load", "activate"} => t.fence \in Presented
       /\ t.op # "evict" => t.adapter \in Adapters
       /\ t.pc = "create" => /\ t.op = "load"
                             /\ t.fence.adapter \in Adapters
                             /\ t.fence.worker \in Workers
                             /\ t.fence.boot \in Boots
       /\ t.pc = "settle" => t.op = "load"
       /\ t.op = "load" /\ t.pc # "create" => t.inst \in Instances
       /\ t.pc \in {"send", "wait"} => t.conn \in Conns

\* The frames a coordinator sends to a worker and the answers it gets.
RegisterAck == [type |-> "wk_register_ack"]
CommandFrame ==
    [type : DOMAIN AckOf, req : Reqs, adapter : Adapters \cup {None}]
AckFrame ==
    [type : {AckOf[m] : m \in DOMAIN AckOf}, req : Reqs, ok : BOOLEAN,
     bytes : Nat]

\* The frames in a queue.
In(s) == {s[n] : n \in 1..Len(s)}

\* A queue to a worker holds at most one acknowledgement of a registration.
Once(s) ==
    \A i, j \in 1..Len(s) : s[i] = RegisterAck /\ s[j] = RegisterAck => i = j

QueueSound(s) ==
    /\ s \in Seq(CommandFrame \cup {RegisterAck})
    /\ \A m \in In(s) :
         m # RegisterAck /\ m.type = "wk_load" => m.adapter \in Adapters
    /\ Once(s)

\* Connection k: its thread knows its worker once it is open, and commands
\* reach the worker's handle_command only after the one acknowledgement of
\* its registration.
LinkSound(k) ==
    /\ conn[k].handler # "none" =>
         conn[k].worker \in Workers /\ conn[k].boot \in Boots
    /\ QueueSound(to_worker[k])
    /\ from_worker[k] \in Seq(AckFrame)
    /\ conn[k].handler \in {"none", "slotted"} \/ proc[k].state = "up"
         => RegisterAck \notin In(to_worker[k])
    /\ proc[k].state = "up" => conn[k].handler \notin {"none", "slotted"}

\* A request id is drawn by one thread, and while that thread waits its entry
\* is in pending_.
RequestsSound ==
    /\ \A c \in Clients : Busy(c) => thread[c].req < next_req
    /\ \A c, d \in Clients :
         Busy(c) /\ Busy(d) /\ thread[c].req = thread[d].req => c = d
    /\ \A c \in Clients :
         thread[c].pc = "wait" => pending[thread[c].req] # None

ServerSound ==
    /\ FabricTypeOK
    /\ ServerTypeOK
    /\ \A c \in Clients : ThreadSound(thread[c])
    /\ RequestsSound
    /\ DOMAIN to_worker = Conns /\ DOMAIN from_worker = Conns
    /\ \A k \in Conns : LinkSound(k)

\* What is in flight under a request id is the command of the thread that
\* drew it, or an answer to that command.
FramesSound ==
    /\ \A k \in Conns : \A m \in In(to_worker[k]) : m # RegisterAck =>
         /\ m.req < next_req
         /\ \A c \in Clients :
              Busy(c) /\ thread[c].req = m.req => m.type = Command[thread[c].op]
    /\ \A k \in Conns : \A m \in In(from_worker[k]) :
         /\ m.req < next_req
         /\ \A c \in Clients :
              Busy(c) /\ thread[c].req = m.req
                => m.type = AckOf[Command[thread[c].op]]

\* Entries of pending_ and threads that wait belong to each other.
PendingSound ==
    /\ \A r \in Reqs : pending[r] # None =>
         \E c \in Clients : thread[c].pc = "wait" /\ thread[c].req = r
    /\ \A c \in Clients :
         thread[c].pc = "wait" /\ pending[thread[c].req].done =>
           pending[thread[c].req].type
             \in {AckOf[Command[thread[c].op]], "wk_error"}

\* A worker counts as connected only while a connection of it is served, and
\* when stop() has returned every thread has.
Serving == {"reading", "leaving", "closing", "aborted"}

StopSound ==
    /\ \A w \in Workers : workers[w] # None /\ workers[w].connected =>
         \E k \in Conns : conn[k].worker = w /\ conn[k].handler \in Serving
    /\ shutdown = "done" => AllJoined

\* An instance whose load is still under way belongs to one load, and until
\* the load is settled it is in the registry and holds no memory.
Loading(c) == thread[c].op = "load" /\ thread[c].pc # "create"

DM == "device_memory"

LoadsSound ==
    /\ \A c \in Clients : Loading(c) =>
         /\ thread[c].inst < next_inst
         /\ thread[c].pc # "settle" =>
              residencies[thread[c].inst] # None /\ held[DM][thread[c].inst] = 0
    /\ \A c, d \in Clients :
         Loading(c) /\ Loading(d) /\ thread[c].inst = thread[d].inst => c = d

\* What an instance holds is its size.
HeldSound ==
    \A i \in Instances : held[DM][i] # 0 =>
      residencies[i] # None /\ residencies[i].bytes = held[DM][i]

ReservationsSound == LoadsSound /\ HeldSound /\ Cap!BooksSound(DM)

-----------------------------------------------------------------------------
(* Facts about queues and frames.                                          *)

LEMMA InAppend ==
    ASSUME NEW S, NEW s \in Seq(S), NEW x \in S
    PROVE  Append(s, x) \in Seq(S) /\ In(Append(s, x)) = In(s) \cup {x}
<1>1. /\ Append(s, x) \in Seq(S) /\ Len(s) \in Nat
      /\ Len(Append(s, x)) = Len(s) + 1
      /\ \A n \in 1..Len(s) : Append(s, x)[n] = s[n]
      /\ Append(s, x)[Len(s) + 1] = x
  OBVIOUS
<1>2. 1..(Len(s) + 1) = (1..Len(s)) \cup {Len(s) + 1}
  BY <1>1
<1> QED
  BY <1>1, <1>2 DEF In

LEMMA InTail ==
    ASSUME NEW S, NEW s \in Seq(S), s # <<>>
    PROVE  /\ Head(s) \in S /\ Head(s) \in In(s)
           /\ Tail(s) \in Seq(S) /\ In(Tail(s)) \subseteq In(s)
<1>1. /\ Len(s) \in Nat /\ Len(s) # 0 /\ Tail(s) \in Seq(S)
      /\ Len(Tail(s)) = Len(s) - 1
      /\ \A n \in 1..(Len(s) - 1) : Tail(s)[n] = s[n + 1]
      /\ Head(s) = s[1] /\ s[1] \in S
  OBVIOUS
<1>2. 1 \in 1..Len(s) /\ \A n \in 1..(Len(s) - 1) : n + 1 \in 1..Len(s)
  BY <1>1
<1> QED
  BY <1>1, <1>2 DEF In

LEMMA InEmpty == In(<<>>) = {}
BY DEF In

LEMMA InMember == ASSUME NEW S, NEW s \in Seq(S) PROVE In(s) \subseteq S
BY DEF In

LEMMA OnceAppend ==
    ASSUME NEW S, NEW s \in Seq(S), NEW x \in S, Once(s),
           x # RegisterAck \/ RegisterAck \notin In(s)
    PROVE  Once(Append(s, x))
<1>1. /\ Len(s) \in Nat /\ Len(Append(s, x)) = Len(s) + 1
      /\ \A n \in 1..Len(s) : Append(s, x)[n] = s[n]
      /\ Append(s, x)[Len(s) + 1] = x
  OBVIOUS
<1>2. 1..(Len(s) + 1) = (1..Len(s)) \cup {Len(s) + 1}
  BY <1>1
<1> QED
  BY <1>1, <1>2 DEF Once, In

LEMMA OnceTail ==
    ASSUME NEW S, NEW s \in Seq(S), s # <<>>, Once(s)
    PROVE  /\ Once(Tail(s))
           /\ Head(s) = RegisterAck => RegisterAck \notin In(Tail(s))
<1>1. /\ Len(s) \in Nat /\ Len(s) # 0
      /\ Len(Tail(s)) = Len(s) - 1
      /\ \A n \in 1..(Len(s) - 1) : Tail(s)[n] = s[n + 1]
      /\ Head(s) = s[1]
  OBVIOUS
<1>2. 1 \in 1..Len(s) /\ \A n \in 1..(Len(s) - 1) : n + 1 \in 1..Len(s)
  BY <1>1
<1>3. Once(Tail(s))
  <2> SUFFICES ASSUME NEW i \in 1..(Len(s) - 1), NEW j \in 1..(Len(s) - 1),
                      s[i + 1] = RegisterAck, s[j + 1] = RegisterAck
               PROVE  i = j
    BY <1>1 DEF Once
  <2>1. i + 1 = j + 1
    BY <1>2 DEF Once
  <2> QED
    BY <2>1
<1>4. ASSUME Head(s) = RegisterAck, NEW n \in 1..(Len(s) - 1)
      PROVE  s[n + 1] # RegisterAck
  <2>1. n + 1 # 1
    BY <1>1
  <2> QED
    BY <1>1, <1>2, <1>4, <2>1 DEF Once
<1> QED
  BY <1>1, <1>3, <1>4 DEF In

\* An acknowledgement is not a command, and the type of each command is one
\* the worker has an answer for.
LEMMA Commands ==
    /\ DOMAIN AckOf = {"wk_load", "wk_activate", "wk_deactivate",
                       "wk_migrate", "wk_invalidate"}
    /\ \A op \in Ops : Command[op] \in DOMAIN AckOf
    /\ \A op \in Ops : Command[op] = "wk_load" => op = "load"
    /\ \A m \in CommandFrame : m # RegisterAck /\ m.type # "wk_register_ack"
<1>1. DOMAIN AckOf = {"wk_load", "wk_activate", "wk_deactivate",
                      "wk_migrate", "wk_invalidate"}
  BY DEF AckOf
<1>2. /\ \A op \in Ops : Command[op] \in DOMAIN AckOf
      /\ \A op \in Ops : Command[op] = "wk_load" => op = "load"
  BY <1>1 DEF Command, Ops
<1>3. ASSUME NEW m \in CommandFrame
      PROVE  m # RegisterAck /\ m.type # "wk_register_ack"
  <2>1. m.type \in DOMAIN AckOf
    BY DEF CommandFrame
  <2>2. m.type # "wk_register_ack"
    BY <1>1, <2>1
  <2> QED
    BY <2>2 DEF RegisterAck
<1> QED
  BY <1>1, <1>2, <1>3

\* A queue stays sound when a frame is taken from it or a command is added.
LEMMA QueueTail ==
    ASSUME NEW s, QueueSound(s), s # <<>>
    PROVE  QueueSound(Tail(s))
BY InTail, OnceTail DEF QueueSound

LEMMA QueueEmpty == QueueSound(<<>>)
BY InEmpty DEF QueueSound, Once

LEMMA QueueAppend ==
    ASSUME NEW s, QueueSound(s), NEW x \in CommandFrame \cup {RegisterAck},
           x # RegisterAck /\ x.type = "wk_load" => x.adapter \in Adapters,
           x # RegisterAck \/ RegisterAck \notin In(s)
    PROVE  QueueSound(Append(s, x)) /\ In(Append(s, x)) = In(s) \cup {x}
<1>1. /\ Append(s, x) \in Seq(CommandFrame \cup {RegisterAck})
      /\ In(Append(s, x)) = In(s) \cup {x}
  BY InAppend DEF QueueSound
<1>2. Once(Append(s, x))
  BY OnceAppend DEF QueueSound
<1> QED
  BY <1>1, <1>2 DEF QueueSound

-----------------------------------------------------------------------------
(* What the coordinator does to the registry.                              *)

\* A thread inside process_control has what the operation left on its stack.
LEMMA BusyThread ==
    ASSUME ServerSound, NEW c \in Clients, Busy(c)
    PROVE  LET t == thread[c] IN
           /\ t.op \in Ops /\ t.target \in Workers /\ t.req \in Reqs
           /\ t.op \in {"load", "activate"} => t.fence \in Presented
           /\ t.op # "evict" => t.adapter \in Adapters
           /\ t.pc = "create" => /\ t.op = "load"
                                 /\ t.fence.adapter \in Adapters
                                 /\ t.fence.worker \in Workers
                                 /\ t.fence.boot \in Boots
           /\ t.pc = "settle" => t.op = "load"
           /\ t.op = "load" /\ t.pc # "create" => t.inst \in Instances
           /\ t.pc \in {"send", "wait"} => t.conn \in Conns
<1>1. Idle.pc = "idle" /\ Gone.pc = "gone"
  BY DEF Idle, Gone
<1> QED
  BY <1>1 DEF ServerSound, ThreadSound, Busy

\* An answer that a thread takes is an answer.
LEMMA AnswerType ==
    ASSUME ServerSound, NEW c \in Clients, Returned(c)
    PROVE  Busy(c) /\ Answer(c) \in Answers
<1>1. Busy(c)
  BY DEF Returned, Busy
<1>2. CASE thread[c].pc = "failed"
  <2>1. Failed \in Answers
    BY DEF Failed, Answers
  <2> QED
    BY <1>1, <1>2, <2>1 DEF Answer
<1>3. CASE thread[c].pc # "failed"
  <2>1. thread[c].req \in Reqs
    BY <1>1, BusyThread
  <2>2. pending[thread[c].req] \in Answers \cup {Unanswered, None}
    BY <2>1 DEF ServerSound, ServerTypeOK
  <2>3. pending[thread[c].req] # None
    BY <1>3 DEF ServerSound, RequestsSound, Returned
  <2>4. ~Unanswered.done
    BY DEF Unanswered
  <2> QED
    BY <1>1, <1>3, <2>2, <2>3, <2>4 DEF Returned, Answer
<1> QED
  BY <1>2, <1>3

\* Every step of the coordinator is an operation of the registry or leaves it
\* alone: the ids, fences and boots its threads carry from one critical
\* section to the next are ones the operations accept.
LEMMA ServerIsFabricStep ==
    ASSUME ServerSound, [ServerNext]_vars
    PROVE  FabricStep
<1>1. ASSUME UNCHANGED fabricVars
      PROVE  FabricStep
  BY <1>1 DEF FabricStep
<1>2. ASSUME NEW a \in Adapters, NEW rev \in Revisions, NEW n \in Sizes,
             CtlRegisterAdapter(a, rev, n)
      PROVE  FabricStep
  BY <1>2 DEF CtlRegisterAdapter, FabricStep
<1>3. ASSUME CtlEpoch
      PROVE  FabricStep
  BY <1>3 DEF CtlEpoch, FabricStep
<1>4. ASSUME NEW i \in Instances, CtlPin(i) \/ CtlUnpin(i)
      PROVE  FabricStep
  BY <1>4 DEF CtlPin, CtlUnpin, FabricStep
<1>5. ASSUME NEW c \in Clients, NEW a \in Adapters, NEW w \in Workers,
             CtlInvalidate(c, a, w)
      PROVE  FabricStep
  BY <1>5 DEF CtlInvalidate, FabricStep
<1>6. ASSUME NEW c \in Clients, NEW i \in Instances, NEW w \in Workers,
             CtlEvict(c, i, w)
      PROVE  FabricStep
  <2>1. Evict(i) \/ UNCHANGED fabricVars
    BY <1>6 DEF CtlEvict
  <2> QED
    BY <2>1 DEF FabricStep
<1>7. ASSUME NEW c \in Clients, LoadCreate(c)
      PROVE  FabricStep
  <2> DEFINE f == thread[c].fence
  <2>1. Busy(c) /\ thread[c].pc = "create"
    BY <1>7 DEF LoadCreate, Busy
  <2>2. f \in Presented /\ f.adapter \in Adapters /\ f.worker \in Workers
        /\ f.boot \in Boots
    BY <2>1, BusyThread
  <2>3. f.device \in AnyDevice
    BY <2>2, PresentedAssumption DEF Fence, AnyDevice
  <2>4. CreateInstance(f.adapter, f.worker, f.boot, f.device)
    BY <1>7 DEF LoadCreate
  <2> HIDE DEF f
  <2> QED
    BY <2>2, <2>3, <2>4 DEF FabricStep
<1>8. ASSUME NEW c \in Clients, FinishLoad(c)
      PROVE  FabricStep
  <2>1. Busy(c) /\ Answer(c) \in Answers
    BY <1>8, AnswerType DEF FinishLoad
  <2>2. Answer(c).bytes \in Nat
    BY <2>1 DEF Answers
  <2>3. thread[c].inst \in Instances
    BY <1>8, <2>1, BusyThread DEF FinishLoad, Returned
  <2>4. MarkReady(thread[c].inst, Answer(c).bytes) \/ UNCHANGED fabricVars
    BY <1>8 DEF FinishLoad
  <2> QED
    BY <2>2, <2>3, <2>4 DEF FabricStep
<1>9. ASSUME NEW c \in Clients, SettleLoad(c) \/ FinishDeactivate(c)
      PROVE  FabricStep
  <2>1. Busy(c) /\ thread[c].op # "evict"
    <3>1. CASE SettleLoad(c)
      BY <3>1, BusyThread DEF SettleLoad, Busy
    <3>2. CASE FinishDeactivate(c)
      BY <3>2, AnswerType DEF FinishDeactivate
    <3> QED
      BY <1>9, <3>1, <3>2
  <2>2. thread[c].adapter \in Adapters
    BY <2>1, BusyThread
  <2>3. SetReady(thread[c].adapter) \/ UNCHANGED fabricVars
    BY <1>9 DEF SettleLoad, FinishDeactivate, SetReadyIfPresent
  <2> QED
    BY <2>2, <2>3 DEF FabricStep
<1>10. ASSUME NEW c \in Clients, FinishActivate(c)
       PROVE  FabricStep
  <2>1. Busy(c) /\ thread[c].op = "activate"
    BY <1>10, AnswerType DEF FinishActivate
  <2>2. thread[c].fence \in Presented
    BY <2>1, BusyThread
  <2>3. BindAuthority(thread[c].fence) \/ UNCHANGED fabricVars
    BY <1>10 DEF FinishActivate
  <2> QED
    BY <2>2, <2>3 DEF FabricStep
<1>11. ASSUME NEW k \in Conns, RegisterState(k)
       PROVE  FabricStep
  <2>1. conn[k].worker \in Workers /\ conn[k].boot \in Boots
    BY <1>11 DEF RegisterState, ServerSound, LinkSound
  <2>2. Reregister(conn[k].worker, conn[k].boot)
    BY <1>11 DEF RegisterState, Reregister
  <2> QED
    BY <2>1, <2>2 DEF FabricStep
<1>12. ASSUME NEW k \in Conns, MarkDown(k)
       PROVE  FabricStep
  <2>1. conn[k].worker \in Workers
    BY <1>12 DEF MarkDown, ServerSound, LinkSound
  <2>2. OnWorkerDown(conn[k].worker)
    BY <1>12 DEF MarkDown
  <2> QED
    BY <2>1, <2>2 DEF FabricStep
<1>13. CASE Request
  <2>1. ASSUME NEW c \in Clients, NEW w \in Workers,
               \/ \E f \in Presented : CtlLoad(c, f, w) \/ CtlActivate(c, f, w)
               \/ \E a \in Adapters : CtlDeactivate(c, a, w) \/ CtlMigrate(c, a, w)
        PROVE  UNCHANGED fabricVars
    BY <2>1 DEF CtlLoad, CtlActivate, CtlDeactivate, CtlMigrate
  <2>2. CtlShutdown => UNCHANGED fabricVars
    BY DEF CtlShutdown
  <2> QED
    BY <1>1, <1>2, <1>3, <1>4, <1>5, <1>6, <1>13, <2>1, <2>2 DEF Request
<1>14. ASSUME NEW c \in Clients, ControlStep(c)
       PROVE  FabricStep
  <2>1. Lookup(c) \/ Send(c) \/ SendFails(c) \/ FinishOther(c)
          => UNCHANGED fabricVars
    BY DEF Lookup, Send, SendFails, FinishOther
  <2> QED
    BY <1>1, <1>7, <1>8, <1>9, <1>10, <1>14, <2>1 DEF ControlStep
<1>15. ASSUME NEW k \in Conns, HandlerStep(k) \/ WorkerStep(k) \/ Die(k)
       PROVE  FabricStep
  <2>1. (\/ HandleReply(k) \/ Hangup(k) \/ AbortPending(k) \/ Join(k)
         \/ HandleCommand(k) \/ Disconnected(k) \/ Die(k))
          => UNCHANGED fabricVars
    BY DEF HandleReply, Hangup, AbortPending, Join, HandleCommand,
       Disconnected, Die
  <2> QED
    BY <1>1, <1>11, <1>12, <1>15, <2>1 DEF HandlerStep, WorkerStep
<1>16. \A k \in Conns, w \in Workers, b \in Boots :
         Connect(k, w, b) => UNCHANGED fabricVars
  BY DEF Connect
<1>17. \A c \in Clients : ClientLeaves(c) => UNCHANGED fabricVars
  BY DEF ClientLeaves
<1>18. Stop => UNCHANGED fabricVars
  BY DEF Stop
<1>19. UNCHANGED vars => UNCHANGED fabricVars
  BY DEF vars
<1> QED
  BY <1>1, <1>13, <1>14, <1>15, <1>16, <1>17, <1>18, <1>19 DEF ServerNext

-----------------------------------------------------------------------------
(* How control threads move.                                               *)

\* A thread that starts or ends to wait publishes or takes its entry.
PendingEffect(c) ==
    /\ thread'[c].pc = "wait" =>
         /\ thread[c].pc = "send"
         /\ pending' = [pending EXCEPT ![thread[c].req] = Unanswered]
    /\ thread[c].pc = "wait" =>
         pending' = [pending EXCEPT ![thread[c].req] = None]
    /\ thread[c].pc # "wait" /\ thread'[c].pc # "wait" => pending' = pending

\* Thread c takes a request, goes on with one, or is done with it.
Accepts(c) ==
    /\ thread[c].pc = "idle"
    /\ thread'[c].pc \in {"create", "forward"}
    /\ thread'[c].pc = "create" <=> thread'[c].op = "load"
    /\ thread'[c].req = next_req
    /\ next_req \in Reqs
    /\ next_req' = next_req + 1

Proceeds(c) ==
    /\ Busy(c) /\ thread[c].pc # "settle"
    /\ thread'[c].pc \notin {"idle", "gone", "create"}
    /\ thread'[c].op = thread[c].op
    /\ thread'[c].req = thread[c].req
    /\ thread[c].pc = "create" \/ thread'[c].inst = thread[c].inst
    /\ thread[c].pc = "create" <=> LoadCreate(c)
    /\ thread'[c].pc = "settle" <=> FinishLoad(c)
    /\ next_req' = next_req

Leaves(c) ==
    /\ thread'[c] \in {Idle, Gone}
    /\ ~LoadCreate(c) /\ ~FinishLoad(c)
    /\ next_req' = next_req

Moves(c) ==
    /\ thread' \in [Clients -> ThreadRecord]
    /\ \A d \in Clients \ {c} : thread'[d] = thread[d]
    /\ ThreadSound(thread'[c])
    /\ Accepts(c) \/ Proceeds(c) \/ Leaves(c)
    /\ PendingEffect(c)

LEMMA IdleType ==
    /\ Idle \in ThreadRecord /\ Gone \in ThreadRecord
    /\ Idle.pc = "idle" /\ Gone.pc = "gone"
    /\ Idle.op = None /\ Gone.op = None
BY DEF Idle, Gone, ThreadRecord

\* process_control takes a request.
LEMMA AcceptMoves ==
    ASSUME ServerSound, NEW c \in Clients, NEW op \in Ops,
           NEW pc \in {"create", "forward"}, NEW f \in Presented \cup {None},
           NEW a \in Adapters \cup {None}, NEW i \in Instances \cup {None},
           NEW w \in Workers, Accept(c, op, pc, f, a, i, w),
           pc = "create" <=> op = "load",
           op \in {"load", "activate"} => f \in Presented,
           op # "evict" => a \in Adapters,
           op = "load" => /\ f.adapter \in Adapters /\ f.worker \in Workers
                          /\ f.boot \in Boots
    PROVE  Moves(c)
<1> DEFINE t == [pc |-> pc, op |-> op, fence |-> f, adapter |-> a,
                 inst |-> i, target |-> w, conn |-> None, req |-> next_req]
<1>1. thread[c].pc = "idle" /\ next_req \in Reqs /\ next_req' = next_req + 1
      /\ pending' = pending
  BY DEF Accept, NextReq
<1>2. thread' = [thread EXCEPT ![c] = t]
  BY DEF Accept
<1>3. t \in ThreadRecord
  BY <1>1 DEF ThreadRecord
<1>4. ThreadSound(t)
  BY <1>1 DEF ThreadSound
<1>5. t.pc = pc /\ t.op = op /\ t.req = next_req
  OBVIOUS
<1> HIDE DEF t
<1>6. /\ thread' \in [Clients -> ThreadRecord] /\ thread'[c] = t
      /\ \A d \in Clients \ {c} : thread'[d] = thread[d]
  BY <1>2, <1>3 DEF ServerSound, ServerTypeOK
<1>7. Accepts(c)
  BY <1>1, <1>5, <1>6 DEF Accepts
<1>8. PendingEffect(c)
  BY <1>1, <1>5, <1>6 DEF PendingEffect
<1> QED
  BY <1>4, <1>6, <1>7, <1>8 DEF Moves

\* A thread that goes on with its request or is done with it.
LEMMA TakeMoves ==
    ASSUME ServerSound, NEW c \in Clients, NEW next, Returned(c),
           TakeAnswer(c, next), next \in ThreadRecord, ThreadSound(next),
           next.pc # "wait"
    PROVE  /\ thread' \in [Clients -> ThreadRecord] /\ thread'[c] = next
           /\ \A d \in Clients \ {c} : thread'[d] = thread[d]
           /\ next_req' = next_req
           /\ PendingEffect(c)
<1>1. thread' = [thread EXCEPT ![c] = next] /\ next_req' = next_req
  BY DEF TakeAnswer
<1>2. /\ thread' \in [Clients -> ThreadRecord] /\ thread'[c] = next
      /\ \A d \in Clients \ {c} : thread'[d] = thread[d]
  BY <1>1 DEF ServerSound, ServerTypeOK
<1>3. PendingEffect(c)
  BY <1>2 DEF PendingEffect, TakeAnswer, Returned
<1> QED
  BY <1>1, <1>2, <1>3

\* Every step of the server moves at most one control thread.
LEMMA RequestMoves ==
    ASSUME ServerSound, Request
    PROVE  UNCHANGED <<thread, reqVars>> \/ \E c \in Clients : Moves(c)
<1>1. ASSUME NEW c \in Clients, NEW w \in Workers, NEW f \in Presented,
             CtlLoad(c, f, w)
      PROVE  Moves(c)
  <2>1. FenceCurrent(f) /\ Accept(c, "load", "create", f, f.adapter, None, w)
    BY <1>1 DEF CtlLoad
  <2>2. f.adapter \in Adapters /\ f.worker \in Workers
    BY <2>1 DEF FenceCurrent, WorkerCurrent
  <2>3. f.boot \in Boots
    <3>1. workers[f.worker] # None /\ f.boot = workers[f.worker].boot
      BY <2>1 DEF FenceCurrent, WorkerCurrent
    <3>2. workers[f.worker] \in WorkerRecord
      BY <2>2, <3>1 DEF ServerSound, FabricTypeOK
    <3> QED
      BY <3>1, <3>2 DEF WorkerRecord
  <2> QED
    BY <2>1, <2>2, <2>3, AcceptMoves DEF Ops
<1>2. ASSUME NEW c \in Clients, NEW w \in Workers, NEW f \in Presented,
             CtlActivate(c, f, w)
      PROVE  Moves(c)
  <2>1. FenceCurrent(f) /\ Accept(c, "activate", "forward", f, f.adapter, None, w)
    BY <1>2 DEF CtlActivate
  <2>2. f.adapter \in Adapters
    BY <2>1 DEF FenceCurrent
  <2> QED
    BY <2>1, <2>2, AcceptMoves DEF Ops
<1>3. ASSUME NEW c \in Clients, NEW w \in Workers, NEW a \in Adapters,
             CtlDeactivate(c, a, w) \/ CtlMigrate(c, a, w) \/ CtlInvalidate(c, a, w)
      PROVE  Moves(c)
  <2>1. PICK op \in {"deactivate", "migrate", "invalidate"} :
          Accept(c, op, "forward", None, a, None, w)
    BY <1>3 DEF CtlDeactivate, CtlMigrate, CtlInvalidate
  <2> QED
    BY <2>1, AcceptMoves DEF Ops
<1>4. ASSUME NEW c \in Clients, NEW w \in Workers, NEW i \in Instances,
             CtlEvict(c, i, w)
      PROVE  Moves(c)
  <2>1. Accept(c, "evict", "forward", None, None, i, w)
    BY <1>4 DEF CtlEvict
  <2> QED
    BY <2>1, AcceptMoves DEF Ops
<1>5. ASSUME \/ \E a \in Adapters, rev \in Revisions, n \in Sizes :
                  CtlRegisterAdapter(a, rev, n)
             \/ CtlEpoch \/ CtlShutdown
             \/ \E i \in Instances : CtlPin(i) \/ CtlUnpin(i)
      PROVE  UNCHANGED <<thread, reqVars>>
  BY <1>5 DEF CtlRegisterAdapter, CtlEpoch, CtlShutdown, CtlPin, CtlUnpin,
     serverVars
<1> QED
  BY <1>1, <1>2, <1>3, <1>4, <1>5 DEF Request

LEMMA ControlMoves ==
    ASSUME ServerSound, NEW c \in Clients, ControlStep(c)
    PROVE  Moves(c)
<1> DEFINE t == thread[c]
           Typed == /\ thread' \in [Clients -> ThreadRecord]
                    /\ \A d \in Clients \ {c} : thread'[d] = thread[d]
<1>1. thread \in [Clients -> ThreadRecord] /\ t \in ThreadRecord
      /\ ThreadSound(t)
  BY DEF ServerSound, ServerTypeOK
<1>2. AfterReply \in {Idle, Gone}
  BY DEF AfterReply
<1>3. ThreadSound(Idle) /\ ThreadSound(Gone)
  BY DEF ThreadSound
<1>4. AfterReply \in ThreadRecord /\ ThreadSound(AfterReply)
      /\ AfterReply.pc \in {"idle", "gone"}
  BY <1>2, <1>3, IdleType
<1>5. CASE LoadCreate(c)
  <2> DEFINE u == [t EXCEPT !.pc = "forward", !.inst = next_inst]
  <2>1. /\ t.pc = "create" /\ thread' = [thread EXCEPT ![c] = u]
        /\ next_inst \in Instances /\ UNCHANGED reqVars
    BY <1>5 DEF LoadCreate, CreateInstance
  <2>2. u \in ThreadRecord
    BY <1>1, <2>1 DEF ThreadRecord
  <2>3. /\ u.pc = "forward" /\ u.op = t.op /\ u.fence = t.fence
        /\ u.adapter = t.adapter /\ u.target = t.target /\ u.req = t.req
        /\ u.conn = t.conn /\ u.inst = next_inst
    BY <1>1 DEF ThreadRecord
  <2> HIDE DEF u
  <2>4. ThreadSound(u)
    BY <1>1, <2>1, <2>3, IdleType DEF ThreadSound
  <2>5. Typed /\ thread'[c] = u
    BY <1>1, <2>1, <2>2
  <2>6. Proceeds(c)
    BY <1>5, <2>1, <2>3, <2>5 DEF Proceeds, Busy, reqVars, FinishLoad, Returned
  <2>7. PendingEffect(c)
    BY <2>1, <2>3, <2>5 DEF PendingEffect, reqVars
  <2> QED
    BY <2>4, <2>5, <2>6, <2>7 DEF Moves
<1>6. CASE Lookup(c)
  <2> DEFINE k == slots[t.target]
             live == k # None /\ conn[k].up
             p == IF live THEN "send" ELSE "failed"
             x == IF live THEN k ELSE None
             u == [t EXCEPT !.pc = p, !.conn = x]
  <2>1. /\ t.pc = "forward" /\ thread' = [thread EXCEPT ![c] = u]
        /\ UNCHANGED reqVars
    BY <1>6 DEF Lookup
  <2>2. t.target \in Workers
    BY <2>1, BusyThread DEF Busy
  <2>3. k \in Conns \cup {None}
    BY <2>2 DEF ServerSound, ServerTypeOK
  <2>4. /\ p \in {"send", "failed"} /\ x \in Conns \cup {None}
        /\ p = "send" => x \in Conns
    BY <2>3
  <2> HIDE DEF k, live, p, x
  <2>5. u \in ThreadRecord
    BY <1>1, <2>4 DEF ThreadRecord
  <2>6. /\ u.pc = p /\ u.op = t.op /\ u.fence = t.fence
        /\ u.adapter = t.adapter /\ u.target = t.target /\ u.req = t.req
        /\ u.conn = x /\ u.inst = t.inst
    BY <1>1 DEF ThreadRecord
  <2> HIDE DEF u
  <2>7. ThreadSound(u)
    BY <1>1, <2>1, <2>4, <2>6, IdleType DEF ThreadSound
  <2>8. Typed /\ thread'[c] = u
    BY <1>1, <2>1, <2>5
  <2>9. Proceeds(c)
    BY <2>1, <2>4, <2>6, <2>8 DEF Proceeds, Busy, reqVars, FinishLoad, Returned,
       LoadCreate
  <2>10. PendingEffect(c)
    BY <2>1, <2>4, <2>6, <2>8 DEF PendingEffect, reqVars
  <2> QED
    BY <2>7, <2>8, <2>9, <2>10 DEF Moves
<1>7. ASSUME NEW p \in {"wait", "failed"}, t.pc = "send",
             thread' = [thread EXCEPT ![c].pc = p], next_req' = next_req,
             p = "wait" => pending' = [pending EXCEPT ![t.req] = Unanswered],
             p # "wait" => pending' = pending
      PROVE  Moves(c)
  <2> DEFINE u == [t EXCEPT !.pc = p]
  <2>1. u \in ThreadRecord
    BY <1>1 DEF ThreadRecord
  <2>2. /\ u.pc = p /\ u.op = t.op /\ u.fence = t.fence
        /\ u.adapter = t.adapter /\ u.target = t.target /\ u.req = t.req
        /\ u.conn = t.conn /\ u.inst = t.inst
    BY <1>1 DEF ThreadRecord
  <2>3. Typed /\ thread'[c] = u
    BY <1>1, <1>7, <2>1
  <2> HIDE DEF u
  <2>4. ThreadSound(u)
    BY <1>1, <1>7, <2>2, IdleType DEF ThreadSound
  <2>5. Proceeds(c)
    BY <1>7, <2>2, <2>3 DEF Proceeds, Busy, FinishLoad, Returned, LoadCreate
  <2>6. PendingEffect(c)
    BY <1>7, <2>2, <2>3 DEF PendingEffect
  <2> QED
    BY <2>3, <2>4, <2>5, <2>6 DEF Moves
<1>8. CASE Send(c)
  BY <1>7, <1>8 DEF Send
<1>9. CASE SendFails(c)
  BY <1>7, <1>9 DEF SendFails, reqVars
<1>10. CASE FinishLoad(c)
  <2> DEFINE u == [t EXCEPT !.pc = "settle"]
  <2>1. Returned(c) /\ TakeAnswer(c, u) /\ t.op = "load"
    BY <1>10 DEF FinishLoad
  <2>2. u \in ThreadRecord
    BY <1>1 DEF ThreadRecord
  <2>3. /\ u.pc = "settle" /\ u.op = t.op /\ u.fence = t.fence
        /\ u.adapter = t.adapter /\ u.target = t.target /\ u.req = t.req
        /\ u.conn = t.conn /\ u.inst = t.inst
    BY <1>1 DEF ThreadRecord
  <2> HIDE DEF u
  <2>4. ThreadSound(u)
    BY <1>1, <2>1, <2>3, IdleType DEF ThreadSound, Returned
  <2>5. Typed /\ thread'[c] = u /\ next_req' = next_req /\ PendingEffect(c)
    BY <2>1, <2>2, <2>3, <2>4, TakeMoves
  <2>6. Proceeds(c)
    BY <1>10, <2>1, <2>3, <2>5 DEF Proceeds, Busy, Returned, LoadCreate
  <2> QED
    BY <2>4, <2>5, <2>6 DEF Moves
<1>11. CASE SettleLoad(c)
  <2>1. /\ t.pc = "settle" /\ thread' = [thread EXCEPT ![c] = AfterReply]
        /\ UNCHANGED reqVars
    BY <1>11 DEF SettleLoad
  <2>2. Typed /\ thread'[c] = AfterReply
    BY <1>1, <1>4, <2>1
  <2>3. Leaves(c)
    BY <1>2, <2>1, <2>2 DEF Leaves, LoadCreate, FinishLoad, Returned, reqVars
  <2>4. PendingEffect(c)
    BY <1>4, <2>1, <2>2 DEF PendingEffect, reqVars
  <2> QED
    BY <1>4, <2>2, <2>3, <2>4 DEF Moves
<1>12. CASE FinishActivate(c) \/ FinishDeactivate(c) \/ FinishOther(c)
  <2>1. /\ Returned(c) /\ TakeAnswer(c, AfterReply)
        /\ ~FinishLoad(c)
    BY <1>12 DEF FinishActivate, FinishDeactivate, FinishOther, FinishLoad
  <2>2. /\ Typed /\ thread'[c] = AfterReply /\ next_req' = next_req
        /\ PendingEffect(c)
    BY <1>4, <2>1, TakeMoves
  <2>3. Leaves(c)
    BY <1>2, <2>1, <2>2 DEF Leaves, LoadCreate, Returned
  <2> QED
    BY <1>4, <2>2, <2>3 DEF Moves
<1> QED
  BY <1>5, <1>6, <1>8, <1>9, <1>10, <1>11, <1>12 DEF ControlStep

\* What the threads of worker connections do to pending_: an entry that is
\* there is answered, with an error or with a frame that came for it.
PendingAnswered ==
    /\ pending' \in [Reqs -> Answers \cup {Unanswered, None}]
    /\ \A r \in Reqs :
         /\ pending'[r] = None <=> pending[r] = None
         /\ pending'[r] # pending[r] =>
              \/ pending'[r].type = "wk_error"
              \/ \E k \in Conns : \E m \in In(from_worker[k]) :
                   m.req = r /\ pending'[r].type = m.type

LEMMA ReplyAnswers ==
    ASSUME ServerSound, NEW k \in Conns, HandleReply(k)
    PROVE  PendingAnswered
<1> DEFINE m == Head(from_worker[k])
           p == [done |-> TRUE, type |-> m.type, ok |-> m.ok, bytes |-> m.bytes]
<1>1. /\ from_worker[k] # <<>>
      /\ pending' = [pending EXCEPT ![m.req] = IF @ = None THEN None ELSE p]
  BY DEF HandleReply
<1>2. m \in AckFrame /\ m \in In(from_worker[k])
  BY <1>1, InTail DEF ServerSound, LinkSound
<1>3. m.req \in Reqs /\ p \in Answers /\ p.type = m.type
  BY <1>2 DEF AckFrame, Answers
<1> HIDE DEF m, p
<1>4. pending \in [Reqs -> Answers \cup {Unanswered, None}]
  BY DEF ServerSound, ServerTypeOK
<1>5. p # None
  BY <1>3, AbsentAssumption
<1>6. /\ pending'[m.req] = IF pending[m.req] = None THEN None ELSE p
      /\ \A r \in Reqs \ {m.req} : pending'[r] = pending[r]
      /\ pending' \in [Reqs -> Answers \cup {Unanswered, None}]
  BY <1>1, <1>3, <1>4
<1> QED
  BY <1>2, <1>3, <1>5, <1>6 DEF PendingAnswered

LEMMA AbortAnswers ==
    ASSUME ServerSound, NEW k \in Conns, AbortPending(k)
    PROVE  PendingAnswered
<1>1. pending' = [r \in Reqs |-> IF pending[r] # None /\ ~pending[r].done
                                 THEN Failed ELSE pending[r]]
  BY DEF AbortPending, Aborted
<1>2. Failed \in Answers /\ Failed.type = "wk_error"
  BY DEF Failed, Answers
<1>3. Failed # None
  BY <1>2, AbsentAssumption
<1>4. pending \in [Reqs -> Answers \cup {Unanswered, None}]
  BY DEF ServerSound, ServerTypeOK
<1> QED
  BY <1>1, <1>2, <1>3, <1>4 DEF PendingAnswered

\* A step moves one control thread, or answers entries of pending_, or does
\* neither.
LEMMA ServerMoves ==
    ASSUME ServerSound, [ServerNext]_vars
    PROVE  \/ \E c \in Clients : Moves(c)
           \/ UNCHANGED <<thread, next_req>> /\ PendingAnswered
<1>1. ASSUME UNCHANGED reqVars
      PROVE  next_req' = next_req /\ PendingAnswered
  BY <1>1 DEF reqVars, PendingAnswered, ServerSound, ServerTypeOK
<1>2. CASE Request
  BY <1>1, <1>2, RequestMoves
<1>3. ASSUME NEW c \in Clients, ControlStep(c)
      PROVE  Moves(c)
  BY <1>3, ControlMoves
<1>4. ASSUME NEW c \in Clients, ClientLeaves(c)
      PROVE  Moves(c)
  <2>1. /\ thread[c].pc = "idle" /\ thread' = [thread EXCEPT ![c] = Gone]
        /\ UNCHANGED reqVars
    BY <1>4 DEF ClientLeaves
  <2>2. /\ thread' \in [Clients -> ThreadRecord] /\ thread'[c] = Gone
        /\ \A d \in Clients \ {c} : thread'[d] = thread[d]
    BY <2>1, IdleType DEF ServerSound, ServerTypeOK
  <2>3. Leaves(c)
    BY <2>1, <2>2 DEF Leaves, LoadCreate, FinishLoad, Returned, reqVars
  <2>4. PendingEffect(c)
    BY <2>1, <2>2, IdleType DEF PendingEffect, reqVars
  <2> QED
    BY <2>2, <2>3, <2>4 DEF Moves, ThreadSound
<1>5. ASSUME NEW k \in Conns, HandleReply(k) \/ AbortPending(k)
      PROVE  UNCHANGED <<thread, next_req>> /\ PendingAnswered
  BY <1>5, ReplyAnswers, AbortAnswers DEF HandleReply, AbortPending
<1>6. ASSUME NEW k \in Conns,
             \/ RegisterState(k) \/ Hangup(k) \/ MarkDown(k) \/ WorkerStep(k)
             \/ Die(k) \/ \E w \in Workers, b \in Boots : Connect(k, w, b)
      PROVE  UNCHANGED <<thread, reqVars>>
  BY <1>6 DEF RegisterState, Hangup, MarkDown, WorkerStep, Join, HandleCommand,
     Disconnected, Die, Connect
<1>7. Stop \/ UNCHANGED vars => UNCHANGED <<thread, reqVars>>
  BY DEF Stop, vars, serverVars
<1> QED
  BY <1>1, <1>2, <1>3, <1>4, <1>5, <1>6, <1>7 DEF ServerNext, HandlerStep

\* The state of the control threads and of pending_ stays sound.
LEMMA ThreadsStep ==
    ASSUME ServerSound, [ServerNext]_vars
    PROVE  /\ thread' \in [Clients -> ThreadRecord]
           /\ \A c \in Clients : ThreadSound(thread'[c])
           /\ pending' \in [Reqs -> Answers \cup {Unanswered, None}]
           /\ next_req' \in 1..(MaxReqs + 1)
           /\ RequestsSound'
<1> DEFINE PendingType == pending' \in [Reqs -> Answers \cup {Unanswered, None}]
<1>1. /\ thread \in [Clients -> ThreadRecord]
      /\ \A c \in Clients : ThreadSound(thread[c])
      /\ pending \in [Reqs -> Answers \cup {Unanswered, None}]
      /\ next_req \in 1..(MaxReqs + 1)
      /\ RequestsSound
      /\ MaxReqs \in Nat
  BY ServerAssumption DEF ServerSound, ServerTypeOK
<1>2. CASE UNCHANGED <<thread, next_req>> /\ PendingAnswered
  <2>1. ASSUME NEW c \in Clients, thread[c].pc = "wait"
        PROVE  thread[c].req \in Reqs
    BY <2>1, BusyThread DEF Busy
  <2> QED
    BY <1>1, <1>2, <2>1 DEF PendingAnswered, RequestsSound, Busy
<1>3. ASSUME NEW c \in Clients, Moves(c)
      PROVE  /\ thread' \in [Clients -> ThreadRecord]
             /\ \A d \in Clients : ThreadSound(thread'[d])
             /\ PendingType
             /\ next_req' \in 1..(MaxReqs + 1)
             /\ RequestsSound'
  <2>1. /\ thread' \in [Clients -> ThreadRecord]
        /\ \A d \in Clients : ThreadSound(thread'[d])
        /\ \A d \in Clients \ {c} : thread'[d] = thread[d]
        /\ Accepts(c) \/ Proceeds(c) \/ Leaves(c)
        /\ PendingEffect(c)
    BY <1>1, <1>3 DEF Moves
  <2>2. ASSUME NEW d \in Clients, Busy(d)
        PROVE  thread[d].req \in Reqs /\ thread[d].req \in Nat
    BY <2>2, BusyThread, ServerAssumption DEF Reqs
  <2>3. thread[c].pc = "send" \/ thread[c].pc = "wait" => thread[c].req \in Reqs
    BY <2>2 DEF Busy
  <2>4. PendingType
    BY <1>1, <2>1, <2>3 DEF PendingEffect
  <2>5. /\ next_req' \in 1..(MaxReqs + 1)
        /\ next_req' >= next_req /\ next_req \in Nat /\ next_req' \in Nat
    BY <1>1, <2>1 DEF Accepts, Proceeds, Leaves, Reqs
  <2>6. ASSUME NEW d \in Clients, Busy(d)'
        PROVE  /\ thread'[d].req < next_req'
               /\ \/ Busy(d) /\ thread'[d].req = thread[d].req
                  \/ d = c /\ Accepts(c)
    <3>1. CASE d # c
      BY <1>1, <2>1, <2>2, <2>5, <2>6, <3>1 DEF RequestsSound, Busy
    <3>2. CASE d = c /\ Accepts(c)
      BY <2>5, <3>2 DEF Accepts
    <3>3. CASE d = c /\ Proceeds(c)
      BY <1>1, <2>2, <2>5, <3>3 DEF Proceeds, RequestsSound
    <3>4. CASE d = c /\ Leaves(c)
      BY <2>6, <3>4, IdleType DEF Leaves, Busy
    <3> QED
      BY <2>1, <3>1, <3>2, <3>3, <3>4
  <2>7. ASSUME NEW d \in Clients, NEW e \in Clients, Busy(d)', Busy(e)',
               thread'[d].req = thread'[e].req
        PROVE  d = e
    <3>1. ASSUME NEW x \in Clients, Busy(x)
          PROVE  thread[x].req < next_req /\ thread[x].req \in Nat
      BY <1>1, <2>2, <3>1 DEF RequestsSound
    <3>2. Accepts(c) => thread'[c].req = next_req
      BY DEF Accepts
    <3>3. CASE Busy(d) /\ thread'[d].req = thread[d].req
               /\ Busy(e) /\ thread'[e].req = thread[e].req
      BY <1>1, <2>7, <3>3 DEF RequestsSound
    <3> QED
      BY <2>5, <2>6, <2>7, <3>1, <3>2, <3>3
  <2>8. ASSUME NEW d \in Clients, thread'[d].pc = "wait"
        PROVE  pending'[thread'[d].req] # None
    <3>1. CASE d = c
      <4>1. thread[c].pc = "send" /\ thread[c].req \in Reqs
            /\ pending' = [pending EXCEPT ![thread[c].req] = Unanswered]
        BY <2>1, <2>3, <2>8, <3>1 DEF PendingEffect
      <4>2. thread'[c].req = thread[c].req
        BY <2>1, <2>8, <3>1, <4>1, IdleType DEF Accepts, Proceeds, Leaves
      <4> QED
        BY <1>1, <3>1, <4>1, <4>2, AbsentAssumption
    <3>2. CASE d # c
      <4>1. thread'[d] = thread[d] /\ thread[d].pc = "wait"
        BY <2>1, <2>8, <3>2
      <4>2. pending[thread[d].req] # None /\ thread[d].req \in Reqs
        BY <1>1, <2>2, <4>1 DEF RequestsSound, Busy
      <4>3. CASE thread[c].pc = "wait"
        <5>1. thread[c].req # thread[d].req
          BY <1>1, <3>2, <4>1, <4>3 DEF RequestsSound, Busy
        <5> QED
          BY <1>1, <2>1, <4>1, <4>2, <4>3, <5>1 DEF PendingEffect
      <4>4. CASE thread[c].pc # "wait"
        BY <1>1, <2>1, <4>1, <4>2, <4>4, AbsentAssumption DEF PendingEffect
      <4> QED
        BY <4>3, <4>4
    <3> QED
      BY <3>1, <3>2
  <2>9. RequestsSound'
    BY <2>6, <2>7, <2>8 DEF RequestsSound
  <2> QED
    BY <2>1, <2>4, <2>5, <2>9
<1> QED
  BY <1>2, <1>3, ServerMoves

-----------------------------------------------------------------------------
(* Worker connections.                                                     *)

LinkTypes ==
    /\ slots \in [Workers -> Conns \cup {None}]
    /\ conn \in [Conns -> ConnRecord]
    /\ proc \in [Conns -> ProcRecord]
    /\ shutdown \in {"no", "asked", "done"}
    /\ DOMAIN to_worker = Conns /\ DOMAIN from_worker = Conns

\* The step leaves connection j alone.
SameLink(j) ==
    /\ conn'[j] = conn[j] /\ proc'[j] = proc[j]
    /\ to_worker'[j] = to_worker[j] /\ from_worker'[j] = from_worker[j]

\* The step is about connection k only and leaves it sound.
LinkMove(k) ==
    LinkTypes' /\ LinkSound(k)' /\ \A j \in Conns \ {k} : SameLink(j)

LEMMA SoundLink ==
    ASSUME ServerSound
    PROVE  LinkTypes /\ \A k \in Conns : LinkSound(k)
BY DEF ServerSound, ServerTypeOK, LinkTypes

\* The thread of a connection changes its place: only the first step out of
\* "slotted" matters to the queues.
LEMMA HandlerMove ==
    ASSUME ServerSound, NEW k \in Conns, NEW h,
           NEW b \in BOOLEAN,
           h \in {"reading", "leaving", "closing", "aborted", "gone"},
           conn' = [conn EXCEPT ![k].handler = h, ![k].up = b]
    PROVE  /\ conn' \in [Conns -> ConnRecord]
           /\ conn'[k].handler = h
           /\ conn'[k].worker = conn[k].worker /\ conn'[k].boot = conn[k].boot
           /\ \A j \in Conns \ {k} : conn'[j] = conn[j]
<1> DEFINE r == [conn[k] EXCEPT !.handler = h, !.up = b]
<1>1. conn \in [Conns -> ConnRecord] /\ conn[k] \in ConnRecord
  BY SoundLink DEF LinkTypes
<1>2. conn' = [conn EXCEPT ![k] = r]
  OBVIOUS
<1>3. /\ r \in ConnRecord /\ r.handler = h
      /\ r.worker = conn[k].worker /\ r.boot = conn[k].boot
  BY <1>1 DEF ConnRecord
<1> HIDE DEF r
<1> QED
  BY <1>1, <1>2, <1>3

LEMMA HandlerOnly ==
    ASSUME ServerSound, NEW k \in Conns, NEW h,
           h \in {"reading", "leaving", "closing", "aborted", "gone"},
           conn' = [conn EXCEPT ![k].handler = h]
    PROVE  /\ conn' \in [Conns -> ConnRecord]
           /\ conn'[k].handler = h
           /\ conn'[k].worker = conn[k].worker /\ conn'[k].boot = conn[k].boot
           /\ \A j \in Conns \ {k} : conn'[j] = conn[j]
BY SoundLink DEF LinkTypes, ConnRecord

LEMMA SendLinks ==
    ASSUME ServerSound, NEW c \in Clients, Send(c)
    PROVE  \E k \in Conns : LinkMove(k)
<1> DEFINE t == thread[c]
           m == [type |-> Command[t.op], req |-> t.req, adapter |-> t.adapter]
<1>1. t.pc = "send" /\ Busy(c)
  BY DEF Send, Busy
<1>2. /\ t.conn \in Conns /\ t.op \in Ops /\ t.req \in Reqs
      /\ t.op # "evict" => t.adapter \in Adapters
  BY <1>1, BusyThread
<1>3. t.adapter \in Adapters \cup {None}
  BY DEF ServerSound, ServerTypeOK, ThreadRecord
<1>4. m \in CommandFrame /\ m.type = Command[t.op] /\ m.adapter = t.adapter
  BY <1>2, <1>3, Commands DEF CommandFrame
<1>5. m # RegisterAck /\ (m.type = "wk_load" => m.adapter \in Adapters)
  BY <1>2, <1>4, Commands
<1> PICK k \in Conns : k = t.conn
  BY <1>2
<1>6. /\ to_worker' = [to_worker EXCEPT ![k] = IF Alive(k) THEN Append(@, m) ELSE @]
      /\ UNCHANGED <<slots, conn, shutdown, proc, from_worker>>
  BY DEF Send, linkVars
<1> HIDE DEF m
<1>7. LinkTypes /\ LinkSound(k)
  BY <1>2, SoundLink
<1>8. /\ DOMAIN to_worker' = Conns
      /\ to_worker'[k] = IF Alive(k) THEN Append(to_worker[k], m) ELSE to_worker[k]
      /\ \A j \in Conns \ {k} : to_worker'[j] = to_worker[j]
  BY <1>2, <1>6, <1>7 DEF LinkTypes
<1>9. /\ QueueSound(to_worker'[k])
      /\ RegisterAck \notin In(to_worker[k]) => RegisterAck \notin In(to_worker'[k])
  BY <1>4, <1>5, <1>7, <1>8, QueueAppend DEF LinkSound
<1>10. LinkTypes'
  BY <1>6, <1>7, <1>8 DEF LinkTypes
<1>11. LinkSound(k)'
  BY <1>6, <1>7, <1>9 DEF LinkSound
<1> QED
  BY <1>2, <1>6, <1>8, <1>10, <1>11 DEF LinkMove, SameLink

LEMMA ConnectLinks ==
    ASSUME ServerSound, NEW k \in Conns, NEW w \in Workers, NEW b \in Boots,
           Connect(k, w, b)
    PROVE  LinkMove(k)
<1> DEFINE r == [worker |-> w, boot |-> b, handler |-> "slotted", up |-> TRUE]
<1>1. /\ conn[k].handler = "none"
      /\ conn' = [conn EXCEPT ![k] = r]
      /\ slots' = [slots EXCEPT ![w] = k]
      /\ proc' = [proc EXCEPT ![k].state = "joining"]
      /\ UNCHANGED <<shutdown, to_worker, from_worker>>
  BY DEF Connect
<1>2. r \in ConnRecord
  BY DEF ConnRecord
<1>3. r.worker = w /\ r.boot = b /\ r.handler = "slotted"
  OBVIOUS
<1>4. LinkTypes /\ LinkSound(k)
  BY SoundLink
<1> HIDE DEF r
<1>5. /\ proc' \in [Conns -> ProcRecord] /\ proc'[k].state = "joining"
      /\ \A j \in Conns \ {k} : proc'[j] = proc[j]
  BY <1>1, <1>4 DEF LinkTypes, ProcRecord
<1>6. /\ conn' \in [Conns -> ConnRecord] /\ conn'[k] = r
      /\ \A j \in Conns \ {k} : conn'[j] = conn[j]
  BY <1>1, <1>2, <1>4 DEF LinkTypes
<1>7. slots' \in [Workers -> Conns \cup {None}]
  BY <1>1, <1>4 DEF LinkTypes
<1>8. LinkTypes'
  BY <1>1, <1>4, <1>5, <1>6, <1>7 DEF LinkTypes
<1>9. LinkSound(k)'
  BY <1>1, <1>3, <1>4, <1>5, <1>6 DEF LinkSound
<1> QED
  BY <1>1, <1>5, <1>6, <1>8, <1>9 DEF LinkMove, SameLink

LEMMA RegisterLinks ==
    ASSUME ServerSound, NEW k \in Conns, RegisterState(k)
    PROVE  LinkMove(k)
<1>1. /\ conn[k].handler = "slotted"
      /\ conn' = [conn EXCEPT ![k].handler = AfterFrame]
      /\ to_worker' = [to_worker EXCEPT ![k] =
                         IF Alive(k) THEN Append(@, RegisterAck) ELSE @]
      /\ UNCHANGED <<slots, shutdown, proc, from_worker>>
  BY DEF RegisterState, RegisterAck
<1>2. LinkTypes /\ LinkSound(k)
  BY SoundLink
<1>3. AfterFrame \in {"reading", "leaving"}
  BY DEF AfterFrame
<1>4. /\ conn' \in [Conns -> ConnRecord]
      /\ conn'[k].handler \in {"reading", "leaving"}
      /\ conn'[k].worker = conn[k].worker /\ conn'[k].boot = conn[k].boot
      /\ \A j \in Conns \ {k} : conn'[j] = conn[j]
  BY <1>1, <1>3, HandlerOnly
<1>5. /\ DOMAIN to_worker' = Conns
      /\ to_worker'[k] = IF Alive(k) THEN Append(to_worker[k], RegisterAck)
                         ELSE to_worker[k]
      /\ \A j \in Conns \ {k} : to_worker'[j] = to_worker[j]
  BY <1>1, <1>2 DEF LinkTypes
<1>6. RegisterAck \notin In(to_worker[k]) /\ proc[k].state # "up"
  BY <1>1, <1>2 DEF LinkSound
<1>7. QueueSound(to_worker'[k])
  BY <1>2, <1>5, <1>6, QueueAppend DEF LinkSound
<1>8. LinkTypes'
  BY <1>1, <1>2, <1>4, <1>5 DEF LinkTypes
<1>9. LinkSound(k)'
  BY <1>1, <1>2, <1>4, <1>6, <1>7 DEF LinkSound
<1> QED
  BY <1>1, <1>4, <1>5, <1>8, <1>9 DEF LinkMove, SameLink

\* The later steps of a connection's thread take frames from the worker, or
\* only change the thread's place.
LEMMA HandlerLinks ==
    ASSUME ServerSound, NEW k \in Conns,
           HandleReply(k) \/ Hangup(k) \/ AbortPending(k) \/ MarkDown(k)
    PROVE  LinkMove(k)
<1>1. LinkTypes /\ LinkSound(k)
  BY SoundLink
<1>2. conn[k].handler \notin {"none", "slotted"}
  BY DEF HandleReply, Hangup, AbortPending, MarkDown
<1>3. /\ conn' \in [Conns -> ConnRecord]
      /\ conn'[k].handler \notin {"none", "slotted"}
      /\ conn'[k].worker = conn[k].worker /\ conn'[k].boot = conn[k].boot
      /\ \A j \in Conns \ {k} : conn'[j] = conn[j]
  <2>1. CASE Hangup(k)
    <3>1. conn' = [conn EXCEPT ![k].handler = "closing", ![k].up = FALSE]
      BY <2>1 DEF Hangup
    <3>2. "closing" \in {"reading", "leaving", "closing", "aborted", "gone"}
          /\ FALSE \in BOOLEAN
      OBVIOUS
    <3>3. /\ conn' \in [Conns -> ConnRecord]
          /\ conn'[k].handler = "closing"
          /\ conn'[k].worker = conn[k].worker /\ conn'[k].boot = conn[k].boot
          /\ \A j \in Conns \ {k} : conn'[j] = conn[j]
      BY <3>1, <3>2, HandlerMove
    <3> QED
      BY <3>3
  <2>2. CASE HandleReply(k) \/ AbortPending(k) \/ MarkDown(k)
    <3>1. PICK h \in {"reading", "leaving", "aborted", "gone"} :
            conn' = [conn EXCEPT ![k].handler = h]
      BY <2>2 DEF HandleReply, AbortPending, MarkDown, AfterFrame
    <3> QED
      BY <3>1, HandlerOnly
  <2> QED
    BY <2>1, <2>2
<1>4. UNCHANGED <<slots, shutdown, proc, to_worker>>
  BY DEF HandleReply, Hangup, AbortPending, MarkDown, wireVars
<1>5. /\ DOMAIN from_worker' = Conns /\ from_worker'[k] \in Seq(AckFrame)
      /\ \A j \in Conns \ {k} : from_worker'[j] = from_worker[j]
  <2>1. DOMAIN from_worker = Conns /\ from_worker[k] \in Seq(AckFrame)
    BY <1>1 DEF LinkTypes, LinkSound
  <2>2. CASE HandleReply(k)
    <3>1. /\ from_worker' = [from_worker EXCEPT ![k] = Tail(@)]
          /\ from_worker[k] # <<>>
      BY <2>2 DEF HandleReply
    <3>2. Tail(from_worker[k]) \in Seq(AckFrame)
      BY <2>1, <3>1, InTail
    <3> QED
      BY <2>1, <3>1, <3>2
  <2>3. CASE Hangup(k)
    <3>1. from_worker' = [from_worker EXCEPT ![k] = <<>>]
      BY <2>3 DEF Hangup
    <3> QED
      BY <2>1, <3>1
  <2>4. CASE AbortPending(k) \/ MarkDown(k)
    BY <2>1, <2>4 DEF AbortPending, MarkDown, wireVars
  <2> QED
    BY <2>2, <2>3, <2>4
<1>6. LinkTypes'
  BY <1>1, <1>3, <1>4, <1>5 DEF LinkTypes
<1>7. LinkSound(k)'
  BY <1>1, <1>2, <1>3, <1>4, <1>5 DEF LinkSound
<1> QED
  BY <1>3, <1>4, <1>5, <1>6, <1>7 DEF LinkMove, SameLink

\* A process that ends, whatever becomes of the frames sent to it.
LEMMA ExitLinks ==
    ASSUME ServerSound, NEW k \in Conns, Exit(k),
           to_worker' = [to_worker EXCEPT ![k] = <<>>] \/ UNCHANGED to_worker,
           UNCHANGED <<linkVars, from_worker>>
    PROVE  LinkMove(k)
<1> DEFINE d == [state |-> "dead", local |-> {}]
<1>1. LinkTypes /\ LinkSound(k)
  BY SoundLink
<1>2. d \in ProcRecord /\ d.state = "dead"
  BY DEF ProcRecord
<1>3. proc' = [proc EXCEPT ![k] = d]
  BY DEF Exit
<1> HIDE DEF d
<1>4. /\ proc' \in [Conns -> ProcRecord] /\ proc'[k].state = "dead"
      /\ \A j \in Conns \ {k} : proc'[j] = proc[j]
  BY <1>1, <1>2, <1>3 DEF LinkTypes
<1>5. /\ DOMAIN to_worker' = Conns
      /\ to_worker'[k] \in {<<>>, to_worker[k]}
      /\ \A j \in Conns \ {k} : to_worker'[j] = to_worker[j]
  BY <1>1 DEF LinkTypes
<1>6. QueueSound(to_worker'[k]) /\ In(to_worker'[k]) \subseteq In(to_worker[k])
  BY <1>1, <1>5, QueueEmpty, InEmpty DEF LinkSound
<1>7. UNCHANGED <<slots, conn, shutdown, from_worker>>
  BY DEF linkVars
<1>8. LinkTypes'
  BY <1>1, <1>4, <1>5, <1>7 DEF LinkTypes
<1>9. LinkSound(k)'
  BY <1>1, <1>4, <1>6, <1>7 DEF LinkSound
<1> QED
  BY <1>4, <1>5, <1>7, <1>8, <1>9 DEF LinkMove, SameLink

LEMMA JoinLinks ==
    ASSUME ServerSound, NEW k \in Conns, Join(k)
    PROVE  LinkMove(k)
<1> DEFINE m == Head(to_worker[k])
<1>1. LinkTypes /\ LinkSound(k)
  BY SoundLink
<1>2. to_worker[k] # <<>> /\ UNCHANGED <<linkVars, from_worker>>
  BY DEF Join
<1>3. CASE m.type # "wk_register_ack"
  <2>1. Exit(k) /\ to_worker' = [to_worker EXCEPT ![k] = <<>>]
    BY <1>3 DEF Join
  <2> QED
    BY <1>2, <2>1, ExitLinks
<1>4. CASE m.type = "wk_register_ack"
  <2>1. /\ proc' = [proc EXCEPT ![k].state = "up"]
        /\ to_worker' = [to_worker EXCEPT ![k] = Tail(@)]
    BY <1>4 DEF Join
  <2>2. /\ m \in CommandFrame \cup {RegisterAck} /\ m \in In(to_worker[k])
        /\ In(Tail(to_worker[k])) \subseteq In(to_worker[k])
    BY <1>1, <1>2, InTail DEF LinkSound, QueueSound
  <2>3. m = RegisterAck
    BY <1>4, <2>2, Commands
  <2>4. RegisterAck \notin In(Tail(to_worker[k])) /\ QueueSound(Tail(to_worker[k]))
    BY <1>1, <1>2, <2>3, OnceTail, QueueTail DEF LinkSound, QueueSound
  <2>5. conn[k].handler \notin {"none", "slotted"}
    BY <1>1, <2>2, <2>3 DEF LinkSound
  <2>6. /\ proc' \in [Conns -> ProcRecord] /\ proc'[k].state = "up"
        /\ \A j \in Conns \ {k} : proc'[j] = proc[j]
    BY <1>1, <2>1 DEF LinkTypes, ProcRecord
  <2>7. /\ DOMAIN to_worker' = Conns
        /\ to_worker'[k] = Tail(to_worker[k])
        /\ \A j \in Conns \ {k} : to_worker'[j] = to_worker[j]
    BY <1>1, <2>1 DEF LinkTypes
  <2>8. UNCHANGED <<slots, conn, shutdown, from_worker>>
    BY <1>2 DEF linkVars
  <2>9. LinkTypes'
    BY <1>1, <2>6, <2>7, <2>8 DEF LinkTypes
  <2>10. LinkSound(k)'
    BY <1>1, <2>4, <2>5, <2>7, <2>8 DEF LinkSound
  <2> QED
    BY <2>6, <2>7, <2>8, <2>9, <2>10 DEF LinkMove, SameLink
<1> QED
  BY <1>3, <1>4

\* handle_command answers a command: the queue of a worker that is up holds
\* nothing else.
LEMMA CommandAnswer ==
    ASSUME ServerSound, NEW k \in Conns, HandleCommand(k)
    PROVE  LET m == Head(to_worker[k]) IN
           /\ m \in CommandFrame /\ m \in In(to_worker[k]) /\ m # RegisterAck
           /\ \E a \in AckFrame :
                /\ a.req = m.req /\ a.type = AckOf[m.type]
                /\ from_worker' = [from_worker EXCEPT ![k] = Append(@, a)]
<1> DEFINE m == Head(to_worker[k])
           n == IF \/ m.type = "wk_load"
                   \/ m.type = "wk_activate" /\ m.adapter \in proc[k].local
                THEN 1 ELSE 0
           a == [type |-> AckOf[m.type], req |-> m.req, ok |-> TRUE, bytes |-> n]
<1>1. LinkSound(k)
  BY SoundLink
<1>2. /\ to_worker[k] # <<>> /\ proc[k].state = "up"
      /\ from_worker' = [from_worker EXCEPT ![k] = Append(@, a)]
  BY DEF HandleCommand
<1>3. m \in CommandFrame \cup {RegisterAck} /\ m \in In(to_worker[k])
  BY <1>1, <1>2, InTail DEF LinkSound, QueueSound
<1>4. m \in CommandFrame /\ m # RegisterAck
  BY <1>1, <1>2, <1>3 DEF LinkSound
<1>5. n \in Nat
  OBVIOUS
<1>6. m.type \in DOMAIN AckOf /\ m.req \in Reqs
  BY <1>4 DEF CommandFrame
<1> HIDE DEF m, n
<1>7. a \in AckFrame
  BY <1>5, <1>6 DEF AckFrame
<1>8. a.req = m.req /\ a.type = AckOf[m.type]
  OBVIOUS
<1> HIDE DEF a
<1>9. \E x \in AckFrame :
        /\ x.req = m.req /\ x.type = AckOf[m.type]
        /\ from_worker' = [from_worker EXCEPT ![k] = Append(@, x)]
  BY <1>2, <1>7, <1>8
<1> QED
  BY <1>3, <1>4, <1>9 DEF m

LEMMA CommandLinks ==
    ASSUME ServerSound, NEW k \in Conns, HandleCommand(k)
    PROVE  LinkMove(k)
<1> DEFINE m == Head(to_worker[k])
<1>1. LinkTypes /\ LinkSound(k)
  BY SoundLink
<1>2. /\ to_worker[k] # <<>> /\ proc[k].state = "up"
      /\ to_worker' = [to_worker EXCEPT ![k] = Tail(@)]
      /\ UNCHANGED linkVars
  BY DEF HandleCommand
<1>3. m \in CommandFrame /\ m \in In(to_worker[k]) /\ m # RegisterAck
  BY CommandAnswer
<1>4. PICK a \in AckFrame :
        from_worker' = [from_worker EXCEPT ![k] = Append(@, a)]
  BY CommandAnswer
<1>5. PICK l \in SUBSET Adapters : proc' = [proc EXCEPT ![k].local = l]
  <2> DEFINE l == CASE m.type = "wk_load"       -> proc[k].local \cup {m.adapter}
                    [] m.type = "wk_invalidate" -> proc[k].local \ {m.adapter}
                    [] OTHER                    -> proc[k].local
  <2>1. proc[k].local \in SUBSET Adapters
    BY <1>1 DEF LinkTypes, ProcRecord
  <2>2. m.type = "wk_load" => m.adapter \in Adapters
    BY <1>1, <1>3 DEF LinkSound, QueueSound
  <2>3. l \in SUBSET Adapters
    <3> HIDE DEF m
    <3>1. CASE m.type = "wk_load"
      BY <2>1, <2>2, <3>1
    <3>2. CASE m.type = "wk_invalidate"
      BY <2>1, <3>2
    <3>3. CASE m.type \notin {"wk_load", "wk_invalidate"}
      BY <2>1, <3>3
    <3> QED
      BY <3>1, <3>2, <3>3
  <2>4. proc' = [proc EXCEPT ![k].local = l]
    BY DEF HandleCommand
  <2> HIDE DEF l
  <2> QED
    BY <2>3, <2>4
<1>6. /\ proc' \in [Conns -> ProcRecord] /\ proc'[k].state = "up"
      /\ \A j \in Conns \ {k} : proc'[j] = proc[j]
  BY <1>1, <1>2, <1>5 DEF LinkTypes, ProcRecord
<1>7. /\ QueueSound(Tail(to_worker[k]))
      /\ In(Tail(to_worker[k])) \subseteq In(to_worker[k])
  BY <1>1, <1>2, QueueTail, InTail DEF LinkSound, QueueSound
<1>8. Append(from_worker[k], a) \in Seq(AckFrame)
  BY <1>1, InAppend DEF LinkSound
<1>9. /\ DOMAIN to_worker' = Conns /\ to_worker'[k] = Tail(to_worker[k])
      /\ \A j \in Conns \ {k} : to_worker'[j] = to_worker[j]
      /\ DOMAIN from_worker' = Conns /\ from_worker'[k] = Append(from_worker[k], a)
      /\ \A j \in Conns \ {k} : from_worker'[j] = from_worker[j]
  BY <1>1, <1>2, <1>4 DEF LinkTypes
<1>10. UNCHANGED <<slots, conn, shutdown>>
  BY <1>2 DEF linkVars
<1>11. LinkTypes'
  BY <1>1, <1>6, <1>9, <1>10 DEF LinkTypes
<1>12. LinkSound(k)'
  BY <1>1, <1>2, <1>6, <1>7, <1>8, <1>9, <1>10 DEF LinkSound
<1> QED
  BY <1>6, <1>9, <1>10, <1>11, <1>12 DEF LinkMove, SameLink

-----------------------------------------------------------------------------
(* The accountant.                                                         *)

\* What an instance holds changes by n, within what is left or what it holds.
Charged(i, n) ==
    /\ n \in Int
    /\ held[DM][i] + n \in Cap!Words
    /\ n <= Cap!Wrapped(limits[DM] - used[DM]) \/ n <= 0
    /\ held' = [held EXCEPT ![DM][i] = held[DM][i] + n]
    /\ used' = [used EXCEPT ![DM] = Cap!Wrapped(used[DM] + n)]
    /\ UNCHANGED limits

LEMMA CapType ==
    ASSUME ServerSound
    PROVE  /\ DM \in DeviceMemory /\ WordSize \in Nat \ {0}
           /\ Cap!Words \subseteq Nat
           /\ held \in [DeviceMemory -> [Instances -> Cap!Words]]
           /\ held[DM] \in [Instances -> Cap!Words]
           /\ held[DM] \in [Instances -> Nat]
           /\ used \in [DeviceMemory -> Cap!Words] /\ used[DM] \in Cap!Words
           /\ limits[DM] \in Cap!Words
           /\ Cap!CapacityTypeOK
BY ServerAssumption
   DEF DM, DeviceMemory, ServerSound, ServerTypeOK, Cap!CapacityTypeOK, Cap!Words

\* A counter never leaves its width, and wrapping changes no number that
\* fits.
LEMMA CapWrapped ==
    ASSUME WordSize \in Nat \ {0}
    PROVE  /\ \A x \in Int : Cap!Wrapped(x) \in Cap!Words
           /\ \A x \in Cap!Words : Cap!Wrapped(x) = x
BY DEF Cap!Wrapped, Cap!Words

\* The accountant's sum is the one the lemmas of Sums are about.
LEMMA CapHeld ==
    /\ Cap!Held(DM) = SumFunction(held[DM])
    /\ Cap!Held(DM)' = SumFunction(held'[DM])
BY DEF Cap!Held, Cap!SumFunction, Cap!SumFunctionOnSet, Cap!FoldFunctionOnSet,
   Cap!MapThenFoldSet, SumFunction, SumFunctionOnSet, FoldFunctionOnSet,
   MapThenFoldSet, DM

\* A charge keeps the types, changes one entry, and keeps sound books sound.
LEMMA ChargedStep ==
    ASSUME ServerSound, NEW i \in Instances, NEW n \in Int, Charged(i, n)
    PROVE  /\ Cap!CapacityTypeOK'
           /\ held'[DM][i] = held[DM][i] + n
           /\ \A j \in Instances \ {i} : held'[DM][j] = held[DM][j]
           /\ Cap!BooksSound(DM) => Cap!BooksSound(DM)'
<1> DEFINE h == held[DM][i] + n
<1>1. h \in Cap!Words /\ h = held[DM][i] + n
  BY DEF Charged
<1> HIDE DEF h
<1>2. /\ held' = [held EXCEPT ![DM][i] = h]
      /\ used' = [used EXCEPT ![DM] = Cap!Wrapped(used[DM] + n)]
      /\ limits' = limits
  BY DEF Charged, h
<1>3. used[DM] + n \in Int
  BY CapType
<1>4. Cap!Wrapped(used[DM] + n) \in Cap!Words
  BY <1>3, CapType, CapWrapped
<1>5. /\ held' \in [DeviceMemory -> [Instances -> Cap!Words]]
      /\ held'[DM] = [held[DM] EXCEPT ![i] = h]
      /\ used' \in [DeviceMemory -> Cap!Words]
      /\ used'[DM] = Cap!Wrapped(used[DM] + n)
  BY <1>1, <1>2, <1>4, CapType
<1>6. Cap!CapacityTypeOK'
  BY <1>2, <1>5, CapType DEF Cap!CapacityTypeOK, Cap!Words
<1>7. /\ held'[DM][i] = h
      /\ \A j \in Instances \ {i} : held'[DM][j] = held[DM][j]
  BY <1>5, CapType
<1>8. ASSUME Cap!BooksSound(DM)
      PROVE  Cap!BooksSound(DM)'
  <2> DEFINE s == SumFunction(held[DM])
  <2>1. IsFiniteSet(Instances)
    BY FS_Interval, BoundsAssumption DEF Instances
  <2>2. s \in Nat /\ held[DM][i] <= s
    BY <2>1, CapType, SumNat
  <2>3. SumFunction(held'[DM]) = (s - held[DM][i]) + h
    <3>1. h \in Nat /\ held[DM] \in [Instances -> Nat]
      BY <1>1, CapType
    <3>2. SumFunction([held[DM] EXCEPT ![i] = h]) = (s - held[DM][i]) + h
      BY <2>1, <3>1, SumUpdate
    <3> QED
      BY <1>5, <3>2
  <2>4. used[DM] = s /\ s <= limits[DM]
    BY <1>8, CapHeld DEF Cap!BooksSound
  <2> HIDE DEF s
  <2>5. /\ held[DM][i] \in Nat /\ h \in Nat /\ limits[DM] \in Nat
        /\ WordSize \in Nat
    BY <1>1, CapType
  <2>6. SumFunction(held'[DM]) = s + n /\ s + n >= 0
    BY <1>1, <2>2, <2>3, <2>5
  <2>7. limits[DM] - used[DM] \in Cap!Words
    BY <2>2, <2>4, <2>5, CapType DEF Cap!Words
  <2>8. n <= limits[DM] - used[DM] \/ n <= 0
    BY <2>7, CapType, CapWrapped DEF Charged
  <2>9. used[DM] + n \in Cap!Words /\ s + n <= limits[DM]
    BY <2>2, <2>4, <2>5, <2>6, <2>8, CapType DEF Cap!Words
  <2>10. used'[DM] = s + n
    BY <1>5, <2>4, <2>9, CapType, CapWrapped
  <2> QED
    BY <1>2, <2>6, <2>9, <2>10, CapHeld DEF Cap!BooksSound
<1> QED
  BY <1>1, <1>6, <1>7, <1>8

LEMMA ReserveCharged ==
    ASSUME ServerSound, NEW i \in Instances, NEW n \in Nat,
           Cap!Reserve(DM, n, i)
    PROVE  Charged(i, n) /\ held[DM][i] = 0
<1>1. held[DM][i] = 0 /\ n <= Cap!Wrapped(limits[DM] - used[DM])
  BY DEF Cap!Reserve, Cap!CanReserve
<1>2. limits[DM] - used[DM] \in Int
  BY CapType
<1>3. Cap!Wrapped(limits[DM] - used[DM]) \in Cap!Words
  BY <1>2, CapType, CapWrapped
<1>4. n \in Cap!Words
  BY <1>1, <1>3, CapType DEF Cap!Words
<1>5. /\ held' = [held EXCEPT ![DM][i] = n]
      /\ used' = [used EXCEPT ![DM] = Cap!Wrapped(used[DM] + n)]
      /\ UNCHANGED limits
  BY DEF Cap!Reserve
<1>6. held[DM][i] + n = n /\ n \in Int
  BY <1>1
<1>7. held' = [held EXCEPT ![DM][i] = held[DM][i] + n]
  BY <1>5, <1>6
<1> QED
  BY <1>1, <1>4, <1>5, <1>6, <1>7 DEF Charged

LEMMA ReleaseCharged ==
    ASSUME ServerSound, NEW i \in Instances, NEW n \in Nat,
           Cap!Release(DM, n, i)
    PROVE  Charged(i, -n)
<1>1. n <= held[DM][i]
  BY DEF Cap!Release, Cap!CanRelease
<1>2. held[DM][i] \in Cap!Words /\ held[DM][i] \in Nat /\ used[DM] \in Nat
      /\ WordSize \in Nat
  BY CapType
<1>3. /\ -n \in Int /\ held[DM][i] + (-n) \in Cap!Words /\ -n <= 0
      /\ held[DM][i] - n = held[DM][i] + (-n)
      /\ used[DM] - n = used[DM] + (-n)
  BY <1>1, <1>2 DEF Cap!Words
<1>4. /\ held' = [held EXCEPT ![DM][i] = held[DM][i] - n]
      /\ used' = [used EXCEPT ![DM] = Cap!Wrapped(used[DM] - n)]
      /\ UNCHANGED limits
  BY CapType DEF Cap!Release
<1> QED
  BY <1>3, <1>4 DEF Charged

\* Only ctl_evict and the end of a ctl_load touch the accountant.
LEMMA CapMoves ==
    ASSUME [ServerNext]_vars
    PROVE  \/ UNCHANGED capVars
           \/ \E c \in Clients, i \in Instances, w \in Workers : CtlEvict(c, i, w)
           \/ \E c \in Clients : FinishLoad(c)
<1> DEFINE Evicts == \E c \in Clients, i \in Instances, w \in Workers :
                       CtlEvict(c, i, w)
           Loads == \E c \in Clients : FinishLoad(c)
<1>1. CASE Request
  <2>1. ASSUME NEW c \in Clients, NEW w \in Workers,
               \/ \E f \in Presented : CtlLoad(c, f, w) \/ CtlActivate(c, f, w)
               \/ \E a \in Adapters : \/ CtlDeactivate(c, a, w)
                                      \/ CtlMigrate(c, a, w)
                                      \/ CtlInvalidate(c, a, w)
        PROVE  UNCHANGED capVars
    BY <2>1 DEF CtlLoad, CtlActivate, CtlDeactivate, CtlMigrate, CtlInvalidate
  <2>2. ASSUME \/ \E a \in Adapters, rev \in Revisions, n \in Sizes :
                    CtlRegisterAdapter(a, rev, n)
               \/ CtlEpoch \/ CtlShutdown
               \/ \E i \in Instances : CtlPin(i) \/ CtlUnpin(i)
        PROVE  UNCHANGED capVars
    BY <2>2 DEF CtlRegisterAdapter, CtlEpoch, CtlShutdown, CtlPin, CtlUnpin,
       serverVars
  <2> QED
    BY <1>1, <2>1, <2>2 DEF Request
<1>2. ASSUME NEW c \in Clients, ControlStep(c) \/ ClientLeaves(c)
      PROVE  UNCHANGED capVars \/ Loads
  BY <1>2 DEF ControlStep, LoadCreate, Lookup, Send, SendFails, SettleLoad,
     FinishActivate, FinishDeactivate, FinishOther, ClientLeaves
<1>3. ASSUME NEW k \in Conns,
             \/ HandlerStep(k) \/ WorkerStep(k) \/ Die(k)
             \/ \E w \in Workers, b \in Boots : Connect(k, w, b)
      PROVE  UNCHANGED capVars
  BY <1>3 DEF HandlerStep, RegisterState, HandleReply, Hangup, AbortPending,
     MarkDown, WorkerStep, Join, HandleCommand, Disconnected, Die, Connect
<1>4. Stop \/ UNCHANGED vars => UNCHANGED capVars
  BY DEF Stop, vars, serverVars
<1> QED
  BY <1>1, <1>2, <1>3, <1>4 DEF ServerNext

\* What ctl_evict and ctl_load do to the accountant, if anything.
LEMMA EvictCharges ==
    ASSUME ServerSound, NEW c \in Clients, NEW i \in Instances,
           NEW w \in Workers, CtlEvict(c, i, w)
    PROVE  \/ UNCHANGED capVars
           \/ /\ CanEvict(i) /\ residencies[i].bytes \in Nat
              /\ Cap!CanRelease(DM, residencies[i].bytes, i)
              /\ Charged(i, -residencies[i].bytes)
<1>1. CASE CanEvict(i) /\ Cap!CanRelease(DM, residencies[i].bytes, i)
  <2>1. residencies[i] \in ResidencyRecord
    BY <1>1 DEF CanEvict, ServerSound, FabricTypeOK
  <2>2. residencies[i].bytes \in Nat
    BY <2>1 DEF ResidencyRecord
  <2>3. Cap!Release(DM, residencies[i].bytes, i)
    BY <1>1 DEF CtlEvict, ReleaseReservation, DM
  <2> QED
    BY <1>1, <2>2, <2>3, ReleaseCharged
<1>2. CASE ~(CanEvict(i) /\ Cap!CanRelease(DM, residencies[i].bytes, i))
  BY <1>2 DEF CtlEvict, ReleaseReservation, DM
<1> QED
  BY <1>1, <1>2

LEMMA LoadCharges ==
    ASSUME ServerSound, NEW c \in Clients, FinishLoad(c)
    PROVE  /\ thread[c].inst \in Instances /\ Answer(c).bytes \in Nat
           /\ \/ UNCHANGED capVars
              \/ /\ Charged(thread[c].inst, Answer(c).bytes)
                 /\ held[DM][thread[c].inst] = 0
<1>1. Busy(c) /\ Answer(c) \in Answers
  BY AnswerType DEF FinishLoad
<1>2. Answer(c).bytes \in Nat
  BY <1>1 DEF Answers
<1>3. thread[c].inst \in Instances
  BY <1>1, BusyThread DEF FinishLoad, Returned
<1>4. UNCHANGED capVars \/ Cap!Reserve(DM, Answer(c).bytes, thread[c].inst)
  BY DEF FinishLoad, DM
<1> QED
  BY <1>2, <1>3, <1>4, ReserveCharged

LEMMA CapStep ==
    ASSUME ServerSound, [ServerNext]_vars
    PROVE  Cap!CapacityTypeOK'
<1>1. ASSUME UNCHANGED capVars
      PROVE  Cap!CapacityTypeOK'
  BY <1>1, CapType DEF capVars, Cap!CapacityTypeOK, Cap!Words
<1>2. ASSUME NEW i \in Instances, NEW n \in Nat, Charged(i, n) \/ Charged(i, -n)
      PROVE  Cap!CapacityTypeOK'
  <2>1. n \in Int /\ -n \in Int
    OBVIOUS
  <2> QED
    BY <1>2, <2>1, ChargedStep
<1> QED
  BY <1>1, <1>2, CapMoves, EvictCharges, LoadCharges

-----------------------------------------------------------------------------
(* Type correctness of the server.                                         *)

\* A step is about one connection at most, and leaves it sound.
LEMMA LinksStep ==
    ASSUME ServerSound, [ServerNext]_vars
    PROVE  LinkTypes' /\ \A k \in Conns : LinkSound(k)'
<1>1. LinkTypes /\ \A k \in Conns : LinkSound(k)
  BY SoundLink
<1>2. ASSUME NEW k \in Conns, LinkMove(k)
      PROVE  LinkTypes' /\ \A j \in Conns : LinkSound(j)'
  <2>1. ASSUME NEW j \in Conns, SameLink(j)
        PROVE  LinkSound(j)'
    BY <1>1, <2>1 DEF SameLink, LinkSound
  <2> QED
    BY <1>2, <2>1 DEF LinkMove
<1>3. ASSUME UNCHANGED <<slots, conn, wireVars>>,
             shutdown' \in {"no", "asked", "done"}
      PROVE  LinkTypes' /\ \A k \in Conns : LinkSound(k)'
  BY <1>1, <1>3 DEF wireVars, LinkTypes, LinkSound
<1>4. CASE Request
  <2>1. ASSUME NEW c \in Clients, NEW w \in Workers,
               \/ \E f \in Presented : CtlLoad(c, f, w) \/ CtlActivate(c, f, w)
               \/ \E a \in Adapters : \/ CtlDeactivate(c, a, w)
                                      \/ CtlMigrate(c, a, w)
                                      \/ CtlInvalidate(c, a, w)
               \/ \E i \in Instances : CtlEvict(c, i, w)
        PROVE  UNCHANGED <<linkVars, wireVars>>
    BY <2>1 DEF CtlLoad, CtlActivate, CtlDeactivate, CtlMigrate, CtlInvalidate,
       CtlEvict, Accept
  <2>2. ASSUME \/ \E a \in Adapters, rev \in Revisions, n \in Sizes :
                    CtlRegisterAdapter(a, rev, n)
               \/ CtlEpoch
               \/ \E i \in Instances : CtlPin(i) \/ CtlUnpin(i)
        PROVE  UNCHANGED <<linkVars, wireVars>>
    BY <2>2 DEF CtlRegisterAdapter, CtlEpoch, CtlPin, CtlUnpin, serverVars
  <2>3. ASSUME UNCHANGED <<linkVars, wireVars>>
        PROVE  LinkTypes' /\ \A k \in Conns : LinkSound(k)'
    BY <1>1, <1>3, <2>3 DEF linkVars, LinkTypes
  <2>4. ASSUME CtlShutdown
        PROVE  LinkTypes' /\ \A k \in Conns : LinkSound(k)'
    BY <1>3, <2>4 DEF CtlShutdown
  <2> QED
    BY <1>4, <2>1, <2>2, <2>3, <2>4 DEF Request
<1>5. ASSUME NEW c \in Clients, ControlStep(c) \/ ClientLeaves(c)
      PROVE  LinkTypes' /\ \A k \in Conns : LinkSound(k)'
  <2>1. CASE Send(c)
    BY <1>2, <2>1, SendLinks
  <2>2. CASE ~Send(c)
    <3>1. UNCHANGED <<linkVars, wireVars>>
      BY <1>5, <2>2 DEF ControlStep, LoadCreate, Lookup, SendFails, SettleLoad,
         FinishLoad, FinishActivate, FinishDeactivate, FinishOther, TakeAnswer,
         ClientLeaves
    <3> QED
      BY <1>1, <1>3, <3>1 DEF linkVars, LinkTypes
  <2> QED
    BY <2>1, <2>2
<1>6. ASSUME NEW k \in Conns,
             \/ HandlerStep(k) \/ WorkerStep(k) \/ Die(k)
             \/ \E w \in Workers, b \in Boots : Connect(k, w, b)
      PROVE  LinkMove(k)
  <2>1. CASE HandlerStep(k)
    BY <2>1, RegisterLinks, HandlerLinks DEF HandlerStep
  <2>2. CASE WorkerStep(k)
    <3>1. CASE Disconnected(k)
      BY <3>1, ExitLinks DEF Disconnected
    <3> QED
      BY <2>2, <3>1, JoinLinks, CommandLinks DEF WorkerStep
  <2>3. CASE Die(k)
    BY <2>3, ExitLinks DEF Die
  <2> QED
    BY <1>6, <2>1, <2>2, <2>3, ConnectLinks
<1>7. CASE Stop
  BY <1>3, <1>7 DEF Stop
<1>8. CASE UNCHANGED vars
  BY <1>1, <1>3, <1>8 DEF vars, serverVars, linkVars, LinkTypes
<1> QED
  BY <1>2, <1>4, <1>5, <1>6, <1>7, <1>8 DEF ServerNext

LEMMA SoundInit == ServerInit => ServerSound
<1> SUFFICES ASSUME ServerInit
             PROVE  ServerSound
  OBVIOUS
<1>1. FabricTypeOK
  BY InitType DEF ServerInit
<1>2. Unopened \in ConnRecord /\ Unopened.handler = "none"
  BY DEF Unopened, ConnRecord
<1>3. Unborn \in ProcRecord /\ Unborn.state = "none"
  BY DEF Unborn, ProcRecord
<1>4. LinkTypes
  BY <1>2, <1>3 DEF ServerInit, LinkTypes
<1>5. ASSUME NEW k \in Conns
      PROVE  LinkSound(k)
  BY <1>2, <1>3, QueueEmpty, InEmpty DEF ServerInit, LinkSound
<1>6. Cap!CapacityTypeOK
  BY ServerAssumption DEF ServerInit, Cap!CapacityInit, Cap!CapacityTypeOK,
     Cap!Words
<1>7. /\ thread \in [Clients -> ThreadRecord]
      /\ \A c \in Clients : thread[c] = Idle
  BY IdleType DEF ServerInit
<1>8. /\ pending \in [Reqs -> Answers \cup {Unanswered, None}]
      /\ next_req \in 1..(MaxReqs + 1)
  BY ServerAssumption DEF ServerInit
<1>9. RequestsSound
  BY <1>7, IdleType DEF RequestsSound, Busy
<1> QED
  BY <1>1, <1>4, <1>5, <1>6, <1>7, <1>8, <1>9
     DEF ServerSound, ServerTypeOK, LinkTypes, ThreadSound

LEMMA SoundStep == ServerSound /\ [ServerNext]_vars => ServerSound'
<1> SUFFICES ASSUME ServerSound, [ServerNext]_vars
             PROVE  ServerSound'
  OBVIOUS
<1>1. FabricTypeOK'
  BY ServerIsFabricStep, StepType DEF ServerSound
<1> QED
  BY <1>1, ThreadsStep, LinksStep, CapStep
     DEF ServerSound, ServerTypeOK, LinkTypes

LEMMA SoundInvariant == ServerSpec => []ServerSound
BY SoundInit, SoundStep, PTL DEF ServerSpec

\* Whatever control threads, worker connections and worker processes do, the
\* coordinator's state keeps its types: no thread, entry or record ever holds
\* an id, a frame or a count that does not belong there.
THEOREM ServerTypeCorrect == ServerSpec => []ServerTypeOK
<1>1. ServerSound => ServerTypeOK
  BY DEF ServerSound
<1> QED
  BY <1>1, SoundInvariant, PTL

-----------------------------------------------------------------------------
(* The registry inside the coordinator.                                    *)

RegistrySound ==
    /\ ActivationAgrees
    /\ GenerationsBounded /\ GenerationsDistinct
    /\ InstancesOwned /\ AttemptHeld

LEMMA RegistryInvariant == ServerSpec => []RegistrySound
<1>1. ServerInit => RegistrySound
  BY DEF ServerInit, Init, RegistrySound, ActivationAgrees, IsActive,
     GenerationsBounded, GenerationsDistinct, InstancesOwned, AttemptHeld
<1>2. ServerSound /\ ServerSound' /\ RegistrySound /\ [ServerNext]_vars
        => RegistrySound'
  <2> SUFFICES ASSUME ServerSound, ServerSound', RegistrySound,
                      [ServerNext]_vars
               PROVE  RegistrySound'
    OBVIOUS
  <2>1. FabricTypeOK /\ FabricTypeOK' /\ FabricStep
    BY ServerIsFabricStep DEF ServerSound
  <2>2. ActivationAgrees'
    BY <2>1, AgreementStep DEF RegistrySound
  <2>3. GenerationsBounded' /\ GenerationsDistinct'
    BY <2>1, GenerationsStep DEF RegistrySound
  <2>4. InstancesOwned' /\ AttemptHeld'
    BY <2>1, ReuseStep DEF RegistrySound
  <2> QED
    BY <2>2, <2>3, <2>4 DEF RegistrySound
<1> QED
  BY <1>1, <1>2, SoundInvariant, PTL DEF ServerSpec

\* What the Fabric promises on its own it keeps while the coordinator's
\* threads enter it between their waits: one activation, recorded in one way,
\* distinct generations, and reuse answers that belong to one attempt.
THEOREM ServerKeepsRegistry ==
    ServerSpec => []( /\ SingleActivation /\ ActivationAgrees
                      /\ GenerationsDistinct /\ ReuseUnambiguous )
<1>1. ServerSound /\ RegistrySound =>
        /\ SingleActivation /\ ActivationAgrees
        /\ GenerationsDistinct /\ ReuseUnambiguous
  <2> SUFFICES ASSUME ServerSound, RegistrySound
               PROVE  /\ SingleActivation /\ ActivationAgrees
                      /\ GenerationsDistinct /\ ReuseUnambiguous
    OBVIOUS
  <2>1. ReuseUnambiguous
    BY ReuseFollows DEF ServerSound, RegistrySound
  <2>2. SingleActivation
    BY DEF RegistrySound, ActivationAgrees, SingleActivation
  <2> QED
    BY <2>1, <2>2 DEF RegistrySound
<1> QED
  BY <1>1, SoundInvariant, RegistryInvariant, PTL

\* The coordinator as a whole implements the exclusive lease: however its
\* threads, disconnects and restarts interleave, the activation is granted,
\* revoked and never passed on.
THEOREM ServerLeaseRefinement == ServerSpec => ImplementsLease
<1>1. ServerInit => Lease!Init
  BY DEF ServerInit, Init, Lease!Init, LeaseHolder, IsActive
<1>2. ServerSound /\ RegistrySound /\ [ServerNext]_vars
        => [Lease!Next]_(Lease!leaseVars)
  BY ServerIsFabricStep, LeaseStep DEF ServerSound, RegistrySound
<1> QED
  BY <1>1, <1>2, SoundInvariant, RegistryInvariant, PTL
     DEF ServerSpec, ImplementsLease, Lease!Spec

\* A fence that the epoch or a generation has moved past is never accepted
\* again by the coordinator, nor is an attempt replaced while it is active.
THEOREM ServerRejectsStale == ServerSpec => NoStaleReplay /\ AttemptPinned
<1>1. ServerSound /\ ServerSound' /\ RegistrySound /\ [ServerNext]_vars =>
        [\A f \in Presented :
           Outdated(f) => Outdated(f)' /\ ~FenceCurrent(f)']_fabricVars
  BY ServerIsFabricStep, StaleStep DEF ServerSound, RegistrySound
<1>2. ServerSound /\ RegistrySound /\ [ServerNext]_vars =>
        [\A a \in Adapters :
           IsActive(a) /\ IsActive(a)' =>
             authority'[a].fence.attempt = authority[a].fence.attempt]_fabricVars
  BY ServerIsFabricStep, AttemptStep DEF ServerSound, RegistrySound
<1> QED
  BY <1>1, <1>2, SoundInvariant, RegistryInvariant, PTL
     DEF ServerSpec, NoStaleReplay, AttemptPinned

\* No promotion on a stale check: a new activation is one bind_authority made
\* after it checked the fence itself.
THEOREM PromotionIsCurrent == ServerSpec => GrantIsCurrent
<1> DEFINE Granted ==
      \A a \in Adapters :
        IsActive(a)' /\ (~IsActive(a) \/ authority'[a].fence # authority[a].fence)
          => FenceCurrent(authority'[a].fence)
<1>1. ServerSound /\ RegistrySound /\ [ServerNext]_vars => [Granted]_vars
  <2> SUFFICES ASSUME ServerSound, RegistrySound, [ServerNext]_vars
               PROVE  Granted
    OBVIOUS
  <2>1. FabricTypeOK /\ ActivationAgrees /\ FabricStep
    BY ServerIsFabricStep DEF ServerSound, RegistrySound
  <2>2. ASSUME NEW f \in Presented, BindAuthority(f)
        PROVE  Granted
    <3>1. FenceCurrent(f)
      BY <2>2 DEF BindAuthority, CanBind
    <3>2. \A a \in Adapters : IsActive(a)' => a = f.adapter
      BY <2>1, <2>2, BindEffect
    <3>3. authority'[f.adapter].fence = f
      BY <2>1, <2>2, BindAuthorityType
    <3> QED
      BY <3>1, <3>2, <3>3
  <2>3. CASE \A a \in Adapters : Kept(a)
    BY <2>3 DEF Kept
  <2> QED
    BY <2>1, <2>2, <2>3, OnlyBindGrants
<1> QED
  BY <1>1, SoundInvariant, RegistryInvariant, PTL DEF ServerSpec, GrantIsCurrent

-----------------------------------------------------------------------------
(* Activations and the boots of workers.                                   *)

\* Only the thread of a worker's connection changes what the registry knows
\* of the worker.
LEMMA WorkersMoves ==
    ASSUME [ServerNext]_vars
    PROVE  \/ UNCHANGED workers
           \/ \E k \in Conns : RegisterState(k) \/ MarkDown(k)
<1>1. UNCHANGED fabricVars => UNCHANGED workers
  BY DEF fabricVars
<1>2. CASE Request
  <2>1. ASSUME NEW i \in Instances, NEW c \in Clients, NEW w \in Workers,
               CtlEvict(c, i, w)
        PROVE  UNCHANGED workers
    BY <1>1, <2>1 DEF CtlEvict, Evict, Residency
  <2>2. ASSUME NEW i \in Instances, CtlPin(i) \/ CtlUnpin(i)
        PROVE  UNCHANGED workers
    BY <2>2 DEF CtlPin, CtlUnpin, Pin, Unpin, Residency
  <2>3. ASSUME NEW c \in Clients, NEW w \in Workers,
               \/ \E f \in Presented : CtlLoad(c, f, w) \/ CtlActivate(c, f, w)
               \/ \E a \in Adapters : \/ CtlDeactivate(c, a, w)
                                      \/ CtlMigrate(c, a, w)
                                      \/ CtlInvalidate(c, a, w)
        PROVE  UNCHANGED workers
    BY <1>1, <2>3 DEF CtlLoad, CtlActivate, CtlDeactivate, CtlMigrate,
       CtlInvalidate, Invalidate
  <2>4. ASSUME \/ \E a \in Adapters, rev \in Revisions, n \in Sizes :
                    CtlRegisterAdapter(a, rev, n)
               \/ CtlEpoch \/ CtlShutdown
        PROVE  UNCHANGED workers
    BY <1>1, <2>4 DEF CtlRegisterAdapter, RegisterAdapter, CtlEpoch,
       AdvanceEpoch, CtlShutdown
  <2> QED
    BY <1>2, <2>1, <2>2, <2>3, <2>4 DEF Request
<1>3. ASSUME NEW c \in Clients, ControlStep(c) \/ ClientLeaves(c)
      PROVE  UNCHANGED workers
  <2>1. LoadCreate(c) \/ FinishLoad(c) => UNCHANGED workers
    BY <1>1 DEF LoadCreate, CreateInstance, FinishLoad, MarkReady, Residency
  <2>2. SettleLoad(c) \/ FinishDeactivate(c) => UNCHANGED workers
    BY <1>1 DEF SettleLoad, FinishDeactivate, SetReadyIfPresent, SetReady, Record
  <2>3. FinishActivate(c) => UNCHANGED workers
    BY <1>1 DEF FinishActivate, BindAuthority
  <2>4. Lookup(c) \/ Send(c) \/ SendFails(c) \/ FinishOther(c) \/ ClientLeaves(c)
          => UNCHANGED workers
    BY <1>1 DEF Lookup, Send, SendFails, FinishOther, ClientLeaves
  <2> QED
    BY <1>3, <2>1, <2>2, <2>3, <2>4 DEF ControlStep
<1>4. ASSUME NEW k \in Conns,
             \/ HandlerStep(k) \/ WorkerStep(k) \/ Die(k)
             \/ \E w \in Workers, b \in Boots : Connect(k, w, b)
      PROVE  UNCHANGED workers \/ RegisterState(k) \/ MarkDown(k)
  BY <1>1, <1>4 DEF HandlerStep, HandleReply, Hangup, AbortPending, WorkerStep,
     Join, HandleCommand, Disconnected, Die, Connect
<1>5. Stop \/ UNCHANGED vars => UNCHANGED workers
  BY <1>1 DEF Stop, vars
<1> QED
  BY <1>2, <1>3, <1>4, <1>5 DEF ServerNext

\* What is revoked is not active afterwards.
LEMMA RevokedNotActive ==
    ASSUME FabricTypeOK, NEW w, NEW bs, RevokeWorker(w, bs),
           NEW a \in Adapters, IsActive(a)'
    PROVE  ~Lost(authority[a].fence, w, bs)
<1> SUFFICES ASSUME Lost(authority[a].fence, w, bs)
             PROVE  FALSE
  OBVIOUS
<1>1. CASE authority[a] = None
  <2>1. authority'[a] = None
    BY <1>1 DEF RevokeWorker
  <2> QED
    BY <2>1 DEF IsActive
<1>2. CASE authority[a] # None
  <2>1. authority[a] \in AuthorityRecord
    BY <1>2 DEF FabricTypeOK
  <2>2. authority'[a] = Revoked(authority[a])
    BY <1>2 DEF RevokeWorker
  <2> QED
    BY <2>1, <2>2, RevokedType DEF IsActive
<1> QED
  BY <1>1, <1>2

LEMMA LiveBootStep ==
    ASSUME ServerSound, RegistrySound, AuthorityOnLiveBoot, [ServerNext]_vars
    PROVE  AuthorityOnLiveBoot'
<1>1. FabricTypeOK /\ ActivationAgrees /\ FabricStep
  BY ServerIsFabricStep DEF ServerSound, RegistrySound
<1>2. ASSUME NEW f \in Presented, BindAuthority(f)
      PROVE  AuthorityOnLiveBoot'
  <2>1. FenceCurrent(f) /\ workers' = workers
    BY <1>2 DEF BindAuthority, CanBind
  <2>2. \A a \in Adapters : IsActive(a)' => a = f.adapter
    BY <1>1, <1>2, BindEffect
  <2>3. authority'[f.adapter].fence = f
    BY <1>1, <1>2, BindAuthorityType
  <2> QED
    BY <2>1, <2>2, <2>3
       DEF AuthorityOnLiveBoot, OnLiveBoot, FenceCurrent, WorkerCurrent
<1>3. CASE \A a \in Adapters : Kept(a)
  <2> SUFFICES ASSUME NEW a \in Adapters, IsActive(a)'
               PROVE  OnLiveBoot(authority[a].fence)'
                      /\ authority'[a].fence = authority[a].fence
    BY DEF AuthorityOnLiveBoot, OnLiveBoot
  <2> DEFINE f == authority[a].fence
  <2>1. IsActive(a) /\ authority'[a].fence = f
    BY <1>3 DEF Kept
  <2>2. /\ f.worker \in Workers /\ workers[f.worker] # None
        /\ workers[f.worker].connected /\ workers[f.worker].boot = f.boot
    BY <2>1 DEF AuthorityOnLiveBoot, OnLiveBoot
  <2>3. f \in Fence /\ f # None /\ f.boot \in AnyBoot
    <3>1. authority[a] \in AuthorityRecord
      BY <1>1, <2>1 DEF IsActive, FabricTypeOK
    <3>2. f \in Fence
      BY <3>1 DEF AuthorityRecord
    <3> HIDE DEF f
    <3> QED
      BY <3>2, NoneAssumption DEF Fence, AnyBoot
  <2>4. workers \in [Workers -> WorkerRecord \cup {None}]
    BY <1>1 DEF FabricTypeOK
  <2> SUFFICES /\ workers'[f.worker] # None
               /\ workers'[f.worker].connected
               /\ workers'[f.worker].boot = f.boot
    BY <2>1, <2>2 DEF OnLiveBoot
  <2>5. CASE UNCHANGED workers
    BY <2>2, <2>5
  <2>6. ASSUME NEW k \in Conns, RegisterState(k)
        PROVE  /\ workers'[f.worker] # None
               /\ workers'[f.worker].connected
               /\ workers'[f.worker].boot = f.boot
    <3> DEFINE w == conn[k].worker
               b == conn[k].boot
               r == [boot |-> b, connected |-> TRUE]
    <3>1. w \in Workers /\ b \in Boots
      BY <2>6 DEF RegisterState, ServerSound, LinkSound
    <3>2. workers' = [workers EXCEPT ![w] = r] /\ RevokeWorker(w, AnyBoot \ {b})
      BY <2>6 DEF RegisterState, RegisterWorkerEffect, RestartEffect
    <3>3. r \in WorkerRecord /\ r.boot = b /\ r.connected
      BY <3>1 DEF WorkerRecord
    <3>4. ~Lost(f, w, AnyBoot \ {b})
      BY <1>1, <3>2, RevokedNotActive
    <3> HIDE DEF f, w, b, r
    <3>5. f.worker = w => f.boot = b
      BY <2>3, <3>4 DEF Lost
    <3> QED
      BY <2>2, <2>4, <3>1, <3>2, <3>3, <3>5, NoneAssumption
  <2>7. ASSUME NEW k \in Conns, MarkDown(k)
        PROVE  /\ workers'[f.worker] # None
               /\ workers'[f.worker].connected
               /\ workers'[f.worker].boot = f.boot
    <3> DEFINE w == conn[k].worker
    <3>1. w \in Workers
      BY <2>7 DEF MarkDown, ServerSound, LinkSound
    <3>2. /\ workers' = [workers EXCEPT ![w] = IF @ = None THEN None
                                               ELSE [@ EXCEPT !.connected = FALSE]]
          /\ RevokeWorker(w, AnyBoot)
      BY <2>7 DEF MarkDown, OnWorkerDown
    <3>3. ~Lost(f, w, AnyBoot)
      BY <1>1, <3>2, RevokedNotActive
    <3> HIDE DEF f, w
    <3>4. f.worker # w
      BY <2>3, <3>3 DEF Lost
    <3> QED
      BY <2>2, <2>4, <3>1, <3>2, <3>4
  <2> QED
    BY <2>5, <2>6, <2>7, WorkersMoves
<1> QED
  BY <1>1, <1>2, <1>3, OnlyBindGrants

\* An activation never outlives its worker's boot: on_worker_restart and
\* on_worker_down, called from the threads of worker connections in any order,
\* leave no active record of a boot that is not the connected one.
THEOREM NoOrphanActivation == ServerSpec => []AuthorityOnLiveBoot
<1>1. ServerInit => AuthorityOnLiveBoot
  BY DEF ServerInit, Init, AuthorityOnLiveBoot, IsActive
<1>2. ServerSound /\ RegistrySound /\ AuthorityOnLiveBoot /\ [ServerNext]_vars
        => AuthorityOnLiveBoot'
  BY LiveBootStep
<1> QED
  BY <1>1, <1>2, SoundInvariant, RegistryInvariant, PTL DEF ServerSpec

-----------------------------------------------------------------------------
(* Requests and answers.                                                   *)

\* A busy thread was busy with the same request, or has just drawn the next
\* request id.
LEMMA BusyNext ==
    ASSUME ServerSound, [ServerNext]_vars
    PROVE  /\ next_req \in Nat /\ next_req' \in Nat /\ next_req' >= next_req
           /\ \A c \in Clients : Busy(c)' =>
                \/ /\ Busy(c) /\ thread'[c].req = thread[c].req
                   /\ thread'[c].op = thread[c].op
                \/ thread'[c].req = next_req /\ next_req' = next_req + 1
<1>1. next_req \in Nat
  BY DEF ServerSound, ServerTypeOK
<1>2. CASE UNCHANGED <<thread, next_req>>
  BY <1>1, <1>2 DEF Busy
<1>3. ASSUME NEW c \in Clients, Moves(c)
      PROVE  /\ next_req' \in Nat /\ next_req' >= next_req
             /\ \A d \in Clients : Busy(d)' =>
                  \/ /\ Busy(d) /\ thread'[d].req = thread[d].req
                     /\ thread'[d].op = thread[d].op
                  \/ thread'[d].req = next_req /\ next_req' = next_req + 1
  <2>1. next_req' \in Nat /\ next_req' >= next_req
    BY <1>1, <1>3 DEF Moves, Accepts, Proceeds, Leaves
  <2>2. \A d \in Clients \ {c} : thread'[d] = thread[d]
    BY <1>3 DEF Moves
  <2>3. CASE Accepts(c)
    BY <2>1, <2>2, <2>3 DEF Accepts, Busy
  <2>4. CASE Proceeds(c)
    BY <2>1, <2>2, <2>4 DEF Proceeds, Busy
  <2>5. CASE Leaves(c)
    BY <2>1, <2>2, <2>5, IdleType DEF Leaves, Busy
  <2> QED
    BY <1>3, <2>3, <2>4, <2>5 DEF Moves
<1> QED
  BY <1>1, <1>2, <1>3, ServerMoves

\* A frame in a queue was there before, or is the command a thread has just
\* sent or the acknowledgement of a registration; an answer was there before
\* or answers a command.
SentNow(m) ==
    \E c \in Clients : /\ Busy(c) /\ m.req = thread[c].req
                       /\ m.type = Command[thread[c].op]

AnsweredNow(m) ==
    \E k \in Conns : \E x \in In(to_worker[k]) :
      x # RegisterAck /\ m.req = x.req /\ m.type = AckOf[x.type]

FramesMove(k) ==
    /\ \A m \in In(to_worker'[k]) :
         m \in In(to_worker[k]) \/ m = RegisterAck \/ SentNow(m)
    /\ \A m \in In(from_worker'[k]) :
         m \in In(from_worker[k]) \/ AnsweredNow(m)

LEMMA WireMoves ==
    ASSUME ServerSound, [ServerNext]_vars, NEW j \in Conns
    PROVE  FramesMove(j)
<1>1. LinkTypes /\ LinkSound(j)
  BY SoundLink
<1>2. ASSUME to_worker'[j] = to_worker[j], from_worker'[j] = from_worker[j]
      PROVE  FramesMove(j)
  BY <1>2 DEF FramesMove
<1>3. ASSUME NEW c \in Clients, Send(c)
      PROVE  FramesMove(j)
  <2> DEFINE t == thread[c]
             m == [type |-> Command[t.op], req |-> t.req, adapter |-> t.adapter]
  <2>1. t.pc = "send" /\ Busy(c)
    BY <1>3 DEF Send, Busy
  <2>2. t.conn \in Conns /\ t.op \in Ops /\ t.req \in Reqs
    BY <2>1, BusyThread
  <2>3. t.adapter \in Adapters \cup {None}
    BY DEF ServerSound, ServerTypeOK, ThreadRecord
  <2>4. m \in CommandFrame /\ SentNow(m)
    BY <2>1, <2>2, <2>3, Commands DEF CommandFrame, SentNow
  <2>5. /\ to_worker' = [to_worker EXCEPT ![t.conn] =
                           IF Alive(t.conn) THEN Append(@, m) ELSE @]
        /\ from_worker' = from_worker
    BY <1>3 DEF Send
  <2> HIDE DEF m
  <2>6. to_worker'[j] \in {to_worker[j], Append(to_worker[j], m)}
    BY <1>1, <2>2, <2>5 DEF LinkTypes
  <2>7. In(Append(to_worker[j], m)) = In(to_worker[j]) \cup {m}
    BY <1>1, <2>4, InAppend DEF LinkSound, QueueSound
  <2> QED
    BY <2>4, <2>5, <2>6, <2>7 DEF FramesMove
<1>4. ASSUME NEW k \in Conns, RegisterState(k)
      PROVE  FramesMove(j)
  <2>1. /\ to_worker' = [to_worker EXCEPT ![k] =
                           IF Alive(k) THEN Append(@, RegisterAck) ELSE @]
        /\ from_worker' = from_worker
    BY <1>4 DEF RegisterState, RegisterAck
  <2>2. to_worker'[j] \in {to_worker[j], Append(to_worker[j], RegisterAck)}
    BY <1>1, <2>1 DEF LinkTypes
  <2>3. In(Append(to_worker[j], RegisterAck)) = In(to_worker[j]) \cup {RegisterAck}
    BY <1>1, InAppend DEF LinkSound, QueueSound
  <2> QED
    BY <2>1, <2>2, <2>3 DEF FramesMove
<1>5. ASSUME NEW k \in Conns, HandleReply(k) \/ Hangup(k)
      PROVE  FramesMove(j)
  <2>1. CASE k = j /\ HandleReply(k)
    <3>1. /\ to_worker' = to_worker /\ from_worker[j] # <<>>
          /\ from_worker' = [from_worker EXCEPT ![j] = Tail(@)]
      BY <2>1 DEF HandleReply
    <3>2. from_worker'[j] = Tail(from_worker[j])
      BY <1>1, <3>1 DEF LinkTypes
    <3>3. In(Tail(from_worker[j])) \subseteq In(from_worker[j])
      BY <1>1, <3>1, InTail DEF LinkSound
    <3> QED
      BY <3>1, <3>2, <3>3 DEF FramesMove
  <2>2. CASE k = j /\ Hangup(k)
    <3>1. to_worker' = to_worker /\ from_worker'[j] = <<>>
      BY <1>1, <2>2 DEF Hangup, LinkTypes
    <3> QED
      BY <3>1, InEmpty DEF FramesMove
  <2>3. CASE k # j
    BY <1>1, <1>2, <1>5, <2>3 DEF HandleReply, Hangup, LinkTypes
  <2> QED
    BY <1>5, <2>1, <2>2, <2>3
<1>6. ASSUME NEW k \in Conns, Join(k) \/ Disconnected(k) \/ Die(k)
      PROVE  FramesMove(j)
  <2>1. from_worker' = from_worker
    BY <1>6 DEF Join, Disconnected, Die
  <2>2. \/ to_worker'[j] = to_worker[j]
        \/ to_worker'[j] = <<>>
        \/ to_worker[j] # <<>> /\ to_worker'[j] = Tail(to_worker[j])
    BY <1>1, <1>6 DEF Join, Disconnected, Die, LinkTypes
  <2>3. to_worker[j] # <<>> => In(Tail(to_worker[j])) \subseteq In(to_worker[j])
    BY <1>1, InTail DEF LinkSound, QueueSound
  <2> QED
    BY <2>1, <2>2, <2>3, InEmpty DEF FramesMove
<1>7. ASSUME NEW k \in Conns, HandleCommand(k)
      PROVE  FramesMove(j)
  <2> DEFINE x == Head(to_worker[k])
  <2>1. x \in In(to_worker[k]) /\ x # RegisterAck
    BY <1>7, CommandAnswer
  <2>2. PICK a \in AckFrame :
          /\ a.req = x.req /\ a.type = AckOf[x.type]
          /\ from_worker' = [from_worker EXCEPT ![k] = Append(@, a)]
    BY <1>7, CommandAnswer
  <2> HIDE DEF x
  <2>3. AnsweredNow(a)
    BY <2>1, <2>2 DEF AnsweredNow
  <2>4. from_worker'[j] \in {from_worker[j], Append(from_worker[j], a)}
    BY <1>1, <2>2 DEF LinkTypes
  <2>5. In(Append(from_worker[j], a)) = In(from_worker[j]) \cup {a}
    BY <1>1, InAppend DEF LinkSound
  <2>6. \/ to_worker'[j] = to_worker[j]
        \/ to_worker[j] # <<>> /\ to_worker'[j] = Tail(to_worker[j])
    BY <1>1, <1>7 DEF HandleCommand, LinkTypes
  <2>7. to_worker[j] # <<>> => In(Tail(to_worker[j])) \subseteq In(to_worker[j])
    BY <1>1, InTail DEF LinkSound, QueueSound
  <2> QED
    BY <2>3, <2>4, <2>5, <2>6, <2>7 DEF FramesMove
<1>8. ASSUME UNCHANGED <<to_worker, from_worker>>
      PROVE  FramesMove(j)
  BY <1>2, <1>8
<1>9. CASE Request
  <2>1. ASSUME NEW c \in Clients, NEW w \in Workers,
               \/ \E f \in Presented : CtlLoad(c, f, w) \/ CtlActivate(c, f, w)
               \/ \E a \in Adapters : \/ CtlDeactivate(c, a, w)
                                      \/ CtlMigrate(c, a, w)
                                      \/ CtlInvalidate(c, a, w)
               \/ \E i \in Instances : CtlEvict(c, i, w)
        PROVE  UNCHANGED wireVars
    BY <2>1 DEF CtlLoad, CtlActivate, CtlDeactivate, CtlMigrate, CtlInvalidate,
       CtlEvict, Accept
  <2>2. ASSUME \/ \E a \in Adapters, rev \in Revisions, n \in Sizes :
                    CtlRegisterAdapter(a, rev, n)
               \/ CtlEpoch \/ CtlShutdown
               \/ \E i \in Instances : CtlPin(i) \/ CtlUnpin(i)
        PROVE  UNCHANGED wireVars
    BY <2>2 DEF CtlRegisterAdapter, CtlEpoch, CtlShutdown, CtlPin, CtlUnpin,
       serverVars
  <2> QED
    BY <1>8, <1>9, <2>1, <2>2 DEF Request, wireVars
<1>10. ASSUME NEW c \in Clients, ControlStep(c) \/ ClientLeaves(c)
       PROVE  FramesMove(j)
  BY <1>3, <1>8, <1>10 DEF ControlStep, LoadCreate, Lookup, SendFails,
     SettleLoad, FinishLoad, FinishActivate, FinishDeactivate, FinishOther,
     TakeAnswer, ClientLeaves, wireVars
<1>11. ASSUME NEW k \in Conns,
              \/ HandlerStep(k) \/ WorkerStep(k) \/ Die(k)
              \/ \E w \in Workers, b \in Boots : Connect(k, w, b)
       PROVE  FramesMove(j)
  <2>1. \/ AbortPending(k) \/ MarkDown(k)
        \/ \E w \in Workers, b \in Boots : Connect(k, w, b)
        => UNCHANGED <<to_worker, from_worker>>
    BY DEF AbortPending, MarkDown, Connect, wireVars
  <2> QED
    BY <1>4, <1>5, <1>6, <1>7, <1>8, <1>11, <2>1 DEF HandlerStep, WorkerStep
<1>12. Stop \/ UNCHANGED vars => UNCHANGED <<to_worker, from_worker>>
  BY DEF Stop, vars, serverVars, wireVars
<1> QED
  BY <1>8, <1>9, <1>10, <1>11, <1>12 DEF ServerNext

LEMMA FramesStep ==
    ASSUME ServerSound, FramesSound, [ServerNext]_vars
    PROVE  FramesSound'
<1>1. /\ next_req \in Nat /\ next_req' \in Nat /\ next_req' >= next_req
      /\ \A c \in Clients : Busy(c)' =>
           \/ /\ Busy(c) /\ thread'[c].req = thread[c].req
              /\ thread'[c].op = thread[c].op
           \/ thread'[c].req = next_req /\ next_req' = next_req + 1
  BY BusyNext
<1>2. ASSUME NEW r \in Reqs, r < next_req, NEW c \in Clients, Busy(c)',
             thread'[c].req = r
      PROVE  Busy(c) /\ thread[c].req = r /\ thread'[c].op = thread[c].op
  <2>1. r \in Nat
    BY ServerAssumption DEF Reqs
  <2> QED
    BY <1>1, <1>2, <2>1
<1>3. ASSUME NEW k \in Conns, NEW m \in In(to_worker'[k]), m # RegisterAck
      PROVE  /\ m.req \in Reqs /\ m.req < next_req
             /\ \A c \in Clients :
                  Busy(c) /\ thread[c].req = m.req => m.type = Command[thread[c].op]
  <2>1. m \in In(to_worker[k]) \/ SentNow(m)
    BY <1>3, WireMoves DEF FramesMove
  <2>2. CASE m \in In(to_worker[k])
    <3>1. m \in CommandFrame
      BY <1>3, <2>2, SoundLink, InMember DEF LinkSound, QueueSound
    <3>2. m.req \in Reqs
      BY <3>1 DEF CommandFrame
    <3> QED
      BY <1>3, <2>2, <3>2 DEF FramesSound
  <2>3. CASE SentNow(m)
    <3>1. PICK c \in Clients : /\ Busy(c) /\ m.req = thread[c].req
                               /\ m.type = Command[thread[c].op]
      BY <2>3 DEF SentNow
    <3>2. thread[c].req \in Reqs
      BY <3>1, BusyThread
    <3> QED
      BY <3>1, <3>2 DEF ServerSound, RequestsSound
  <2> QED
    BY <2>1, <2>2, <2>3
<1>4. ASSUME NEW k \in Conns, NEW m \in In(from_worker'[k])
      PROVE  /\ m.req \in Reqs /\ m.req < next_req
             /\ \A c \in Clients : Busy(c) /\ thread[c].req = m.req
                                     => m.type = AckOf[Command[thread[c].op]]
  <2>1. m \in In(from_worker[k]) \/ AnsweredNow(m)
    BY WireMoves DEF FramesMove
  <2>2. CASE m \in In(from_worker[k])
    <3>1. m \in AckFrame
      BY <2>2, SoundLink, InMember DEF LinkSound
    <3>2. m.req \in Reqs
      BY <3>1 DEF AckFrame
    <3> QED
      BY <2>2, <3>2 DEF FramesSound
  <2>3. CASE AnsweredNow(m)
    <3>1. PICK j \in Conns : \E x \in In(to_worker[j]) :
            x # RegisterAck /\ m.req = x.req /\ m.type = AckOf[x.type]
      BY <2>3 DEF AnsweredNow
    <3>2. PICK x \in In(to_worker[j]) :
            x # RegisterAck /\ m.req = x.req /\ m.type = AckOf[x.type]
      BY <3>1
    <3>3. x \in CommandFrame
      BY <3>2, SoundLink, InMember DEF LinkSound, QueueSound
    <3>4. x.req \in Reqs
      BY <3>3 DEF CommandFrame
    <3> QED
      BY <3>2, <3>4 DEF FramesSound
  <2> QED
    BY <2>1, <2>2, <2>3
<1>5. ASSUME NEW r \in Reqs, r < next_req
      PROVE  r < next_req'
  <2>1. r \in Nat
    BY ServerAssumption DEF Reqs
  <2> QED
    BY <1>1, <1>5, <2>1
<1>6. ASSUME NEW k \in Conns, NEW m \in In(to_worker'[k]), m # RegisterAck
      PROVE  /\ m.req < next_req'
             /\ \A c \in Clients : Busy(c)' /\ thread'[c].req = m.req
                                     => m.type = Command[thread'[c].op]
  BY <1>2, <1>3, <1>5, <1>6
<1>7. ASSUME NEW k \in Conns, NEW m \in In(from_worker'[k])
      PROVE  /\ m.req < next_req'
             /\ \A c \in Clients : Busy(c)' /\ thread'[c].req = m.req
                                     => m.type = AckOf[Command[thread'[c].op]]
  BY <1>2, <1>4, <1>5
<1> QED
  BY <1>6, <1>7 DEF FramesSound

LEMMA PendingStep ==
    ASSUME ServerSound, FramesSound, PendingSound, [ServerNext]_vars
    PROVE  PendingSound'
<1>1. pending \in [Reqs -> Answers \cup {Unanswered, None}]
  BY DEF ServerSound, ServerTypeOK
<1>2. ASSUME NEW c \in Clients, thread[c].pc = "wait"
      PROVE  thread[c].req \in Reqs
  BY <1>2, BusyThread DEF Busy
<1>3. CASE UNCHANGED <<thread, next_req>> /\ PendingAnswered
  <2>1. ASSUME NEW r \in Reqs, pending'[r] # None
        PROVE  \E c \in Clients : thread'[c].pc = "wait" /\ thread'[c].req = r
    BY <1>3, <2>1 DEF PendingAnswered, PendingSound
  <2>2. ASSUME NEW c \in Clients, thread'[c].pc = "wait",
               pending'[thread'[c].req].done
        PROVE  pending'[thread'[c].req].type
                 \in {AckOf[Command[thread'[c].op]], "wk_error"}
    <3> DEFINE r == thread[c].req
    <3>1. thread'[c] = thread[c] /\ thread[c].pc = "wait" /\ r \in Reqs /\ Busy(c)
      BY <1>2, <1>3, <2>2 DEF Busy
    <3>2. CASE pending'[r] = pending[r]
      BY <2>2, <3>1, <3>2 DEF PendingSound
    <3>3. CASE pending'[r].type = "wk_error"
      BY <3>1, <3>3
    <3>4. ASSUME NEW k \in Conns, NEW m \in In(from_worker[k]), m.req = r,
                 pending'[r].type = m.type
          PROVE  pending'[r].type = AckOf[Command[thread[c].op]]
      BY <3>1, <3>4 DEF FramesSound
    <3> QED
      BY <1>3, <3>1, <3>2, <3>3, <3>4 DEF PendingAnswered
  <2> QED
    BY <2>1, <2>2 DEF PendingSound
<1>4. ASSUME NEW c \in Clients, Moves(c)
      PROVE  PendingSound'
  <2>1. /\ \A d \in Clients \ {c} : thread'[d] = thread[d]
        /\ PendingEffect(c)
        /\ Accepts(c) \/ Proceeds(c) \/ Leaves(c)
    BY <1>4 DEF Moves
  <2>2. thread[c].pc \in {"send", "wait"} => thread[c].req \in Reqs
    BY BusyThread DEF Busy
  <2>3. CASE thread'[c].pc = "wait"
    <3>1. /\ thread[c].pc = "send" /\ thread[c].req \in Reqs
          /\ pending' = [pending EXCEPT ![thread[c].req] = Unanswered]
      BY <2>1, <2>2, <2>3 DEF PendingEffect
    <3>2. thread'[c].req = thread[c].req
      BY <2>1, <2>3, <3>1, IdleType DEF Accepts, Proceeds, Leaves
    <3>3. ~Unanswered.done
      BY DEF Unanswered
    <3>4. ASSUME NEW r \in Reqs, pending'[r] # None
          PROVE  \E d \in Clients : thread'[d].pc = "wait" /\ thread'[d].req = r
      <4>1. CASE r = thread[c].req
        BY <2>3, <3>2, <4>1
      <4>2. CASE r # thread[c].req
        <5>1. PICK d \in Clients : thread[d].pc = "wait" /\ thread[d].req = r
          BY <1>1, <3>1, <3>4, <4>2 DEF PendingSound
        <5> QED
          BY <2>1, <3>1, <5>1
      <4> QED
        BY <4>1, <4>2
    <3>5. ASSUME NEW d \in Clients, thread'[d].pc = "wait",
                 pending'[thread'[d].req].done
          PROVE  pending'[thread'[d].req].type
                   \in {AckOf[Command[thread'[d].op]], "wk_error"}
      <4>1. d # c
        BY <1>1, <3>1, <3>2, <3>3, <3>5
      <4>2. thread'[d] = thread[d] /\ thread[d].pc = "wait"
        BY <2>1, <3>5, <4>1
      <4>3. thread[d].req # thread[c].req
        BY <3>1, <4>1, <4>2 DEF ServerSound, RequestsSound, Busy
      <4> QED
        BY <1>1, <1>2, <3>1, <3>5, <4>2, <4>3 DEF PendingSound
    <3> QED
      BY <3>4, <3>5 DEF PendingSound
  <2>4. CASE thread'[c].pc # "wait"
    <3>1. ASSUME NEW r \in Reqs
          PROVE  \/ pending'[r] = pending[r]
                 \/ pending'[r] = None /\ thread[c].pc = "wait" /\ thread[c].req = r
      BY <1>1, <2>1, <2>2, <2>4 DEF PendingEffect
    <3>2. thread[c].pc = "wait" => pending'[thread[c].req] = None
      BY <1>1, <2>1, <2>2, <2>4 DEF PendingEffect
    <3>3. ASSUME NEW r \in Reqs, pending'[r] # None
          PROVE  \E d \in Clients : thread'[d].pc = "wait" /\ thread'[d].req = r
      <4>1. PICK d \in Clients : thread[d].pc = "wait" /\ thread[d].req = r
        BY <3>1, <3>3 DEF PendingSound
      <4>2. d # c
        BY <3>2, <3>3, <4>1
      <4> QED
        BY <2>1, <4>1, <4>2
    <3>4. ASSUME NEW d \in Clients, thread'[d].pc = "wait",
                 pending'[thread'[d].req].done
          PROVE  pending'[thread'[d].req].type
                   \in {AckOf[Command[thread'[d].op]], "wk_error"}
      <4>1. d # c /\ thread'[d] = thread[d] /\ thread[d].pc = "wait"
        BY <2>1, <2>4, <3>4
      <4>2. thread[c].pc = "wait" => thread[d].req # thread[c].req
        BY <4>1 DEF ServerSound, RequestsSound, Busy
      <4>3. pending'[thread[d].req] = pending[thread[d].req]
        BY <1>2, <3>1, <4>1, <4>2
      <4> QED
        BY <3>4, <4>1, <4>3 DEF PendingSound
    <3> QED
      BY <3>3, <3>4 DEF PendingSound
  <2> QED
    BY <2>3, <2>4
<1> QED
  BY <1>3, <1>4, ServerMoves

LEMMA CorrelationInvariant == ServerSpec => [](FramesSound /\ PendingSound)
<1>1. ServerInit => FramesSound /\ PendingSound
  BY InEmpty, IdleType DEF ServerInit, FramesSound, PendingSound
<1>2. ServerSound /\ (FramesSound /\ PendingSound) /\ [ServerNext]_vars
        => (FramesSound /\ PendingSound)'
  BY FramesStep, PendingStep
<1> QED
  BY <1>1, <1>2, SoundInvariant, PTL DEF ServerSpec

\* The request/response bridge is correlation safe: however answers, aborts
\* and new requests interleave, handle_connection never gives a thread the
\* answer to another thread's command.
THEOREM CorrelationSafe == ServerSpec => []AnswersCorrelated
<1>1. ServerSound /\ PendingSound => AnswersCorrelated
  <2> SUFFICES ASSUME ServerSound, PendingSound
               PROVE  AnswersCorrelated
    OBVIOUS
  <2>1. ASSUME NEW r \in Reqs, pending[r] # None
        PROVE  Cardinality({c \in Clients : thread[c].pc = "wait"
                                            /\ thread[c].req = r}) = 1
    <3>1. PICK c \in Clients : thread[c].pc = "wait" /\ thread[c].req = r
      BY <2>1 DEF PendingSound
    <3>2. ASSUME NEW d \in Clients, thread[d].pc = "wait", thread[d].req = r
          PROVE  d = c
      BY <3>1, <3>2 DEF ServerSound, RequestsSound, Busy
    <3>3. {d \in Clients : thread[d].pc = "wait" /\ thread[d].req = r} = {c}
      BY <3>1, <3>2
    <3> QED
      BY <3>3, FS_Singleton
  <2>2. ASSUME NEW c \in Clients, thread[c].pc = "wait"
        PROVE  /\ pending[thread[c].req] # None
               /\ pending[thread[c].req].done =>
                    pending[thread[c].req].type
                      \in {AckOf[Command[thread[c].op]], "wk_error"}
    BY <2>2 DEF ServerSound, RequestsSound, PendingSound
  <2> QED
    BY <2>1, <2>2 DEF AnswersCorrelated
<1> QED
  BY <1>1, SoundInvariant, CorrelationInvariant, PTL

-----------------------------------------------------------------------------
(* Shutdown.                                                               *)

\* The thread of connection k moves on within its loop or clean-up.
Continues(k) ==
    /\ conn[k].handler # "none"
    /\ conn'[k].handler \in Serving /\ conn'[k].worker = conn[k].worker

\* A step opens a connection, or moves the thread of one, or neither.
LEMMA ConnMoves ==
    ASSUME ServerSound, [ServerNext]_vars
    PROVE  \/ UNCHANGED conn
           \/ \E k \in Conns : /\ \A j \in Conns \ {k} : conn'[j] = conn[j]
                               /\ \/ conn[k].handler = "none" /\ UNCHANGED workers
                                  \/ Continues(k)
                                  \/ MarkDown(k)
<1>1. CASE Request
  <2>1. ASSUME NEW c \in Clients, NEW w \in Workers,
               \/ \E f \in Presented : CtlLoad(c, f, w) \/ CtlActivate(c, f, w)
               \/ \E a \in Adapters : \/ CtlDeactivate(c, a, w)
                                      \/ CtlMigrate(c, a, w)
                                      \/ CtlInvalidate(c, a, w)
               \/ \E i \in Instances : CtlEvict(c, i, w)
        PROVE  UNCHANGED conn
    BY <2>1 DEF CtlLoad, CtlActivate, CtlDeactivate, CtlMigrate, CtlInvalidate,
       CtlEvict, Accept, linkVars
  <2>2. ASSUME \/ \E a \in Adapters, rev \in Revisions, n \in Sizes :
                    CtlRegisterAdapter(a, rev, n)
               \/ CtlEpoch \/ CtlShutdown
               \/ \E i \in Instances : CtlPin(i) \/ CtlUnpin(i)
        PROVE  UNCHANGED conn
    BY <2>2 DEF CtlRegisterAdapter, CtlEpoch, CtlShutdown, CtlPin, CtlUnpin,
       serverVars, linkVars
  <2> QED
    BY <1>1, <2>1, <2>2 DEF Request
<1>2. ASSUME NEW c \in Clients, ControlStep(c) \/ ClientLeaves(c)
      PROVE  UNCHANGED conn
  BY <1>2 DEF ControlStep, LoadCreate, Lookup, Send, SendFails, FinishLoad,
     SettleLoad, FinishActivate, FinishDeactivate, FinishOther, TakeAnswer,
     ClientLeaves, linkVars
<1>3. ASSUME NEW k \in Conns, HandlerStep(k)
      PROVE  /\ \A j \in Conns \ {k} : conn'[j] = conn[j]
             /\ Continues(k) \/ MarkDown(k)
  <2>1. AfterFrame \in {"reading", "leaving"}
    BY DEF AfterFrame
  <2>2. CASE RegisterState(k) \/ HandleReply(k)
    BY <2>1, <2>2, HandlerOnly
       DEF RegisterState, HandleReply, Continues, Serving
  <2>3. CASE Hangup(k)
    BY <2>3, HandlerMove DEF Hangup, Continues, Serving
  <2>4. CASE AbortPending(k)
    BY <2>4, HandlerOnly DEF AbortPending, Continues, Serving
  <2>5. CASE MarkDown(k)
    BY <2>5, HandlerOnly DEF MarkDown
  <2> QED
    BY <1>3, <2>2, <2>3, <2>4, <2>5 DEF HandlerStep
<1>4. ASSUME NEW k \in Conns, WorkerStep(k) \/ Die(k)
      PROVE  UNCHANGED conn
  BY <1>4 DEF WorkerStep, Join, HandleCommand, Disconnected, Die, linkVars
<1>5. ASSUME NEW k \in Conns, NEW w \in Workers, NEW b \in Boots,
             Connect(k, w, b)
      PROVE  /\ \A j \in Conns \ {k} : conn'[j] = conn[j]
             /\ conn[k].handler = "none" /\ UNCHANGED workers
  BY <1>5, SoundLink DEF Connect, LinkTypes, fabricVars
<1>6. Stop \/ UNCHANGED vars => UNCHANGED conn
  BY DEF Stop, vars, serverVars, linkVars
<1> QED
  BY <1>1, <1>2, <1>3, <1>4, <1>5, <1>6 DEF ServerNext

\* Once stop() has returned no thread takes a step, and stop() returns only
\* when all have ended.
LEMMA JoinedStep ==
    ASSUME shutdown = "done" => AllJoined, [ServerNext]_vars,
           shutdown' = "done"
    PROVE  AllJoined'
<1>1. ASSUME UNCHANGED <<thread, conn>>, AllJoined
      PROVE  AllJoined'
  BY <1>1 DEF AllJoined
<1>2. CASE shutdown = "done"
  <2>1. AllJoined
    BY <1>2
  <2>2. \A c \in Clients : ~ControlStep(c) /\ ~ClientLeaves(c)
    BY <1>2, <2>1 DEF AllJoined, ControlStep, LoadCreate, Lookup, Send,
       SendFails, FinishLoad, SettleLoad, FinishActivate, FinishDeactivate,
       FinishOther, Returned, ClientLeaves
  <2>3. \A k \in Conns : ~HandlerStep(k)
    BY <2>1 DEF AllJoined, HandlerStep, RegisterState, HandleReply, Hangup,
       AbortPending, MarkDown
  <2>4. ~Request /\ ~Stop /\ \A k \in Conns, w \in Workers, b \in Boots :
                                ~Connect(k, w, b)
    BY <1>2 DEF Request, Stop, Connect
  <2>5. ASSUME NEW k \in Conns, WorkerStep(k) \/ Die(k)
        PROVE  UNCHANGED <<thread, conn>>
    BY <2>5 DEF WorkerStep, Join, HandleCommand, Disconnected, Die, linkVars
  <2>6. UNCHANGED vars => UNCHANGED <<thread, conn>>
    BY DEF vars, serverVars, linkVars
  <2> QED
    BY <1>1, <2>1, <2>2, <2>3, <2>4, <2>5, <2>6 DEF ServerNext
<1>3. CASE shutdown # "done"
  <2>1. CASE Request
    <3>1. UNCHANGED shutdown \/ CtlShutdown
      BY <2>1 DEF Request, CtlLoad, CtlActivate, CtlDeactivate, CtlMigrate,
         CtlInvalidate, CtlEvict, Accept, linkVars, CtlRegisterAdapter,
         CtlEpoch, CtlPin, CtlUnpin, serverVars
    <3> QED
      BY <1>3, <3>1 DEF CtlShutdown
  <2>2. ASSUME NEW c \in Clients, ControlStep(c) \/ ClientLeaves(c)
        PROVE  UNCHANGED shutdown
    BY <2>2 DEF ControlStep, LoadCreate, Lookup, Send, SendFails, FinishLoad,
       SettleLoad, FinishActivate, FinishDeactivate, FinishOther, TakeAnswer,
       ClientLeaves, linkVars
  <2>3. ASSUME NEW k \in Conns,
               \/ HandlerStep(k) \/ WorkerStep(k) \/ Die(k)
               \/ \E w \in Workers, b \in Boots : Connect(k, w, b)
        PROVE  UNCHANGED shutdown
    BY <2>3 DEF HandlerStep, RegisterState, HandleReply, Hangup, AbortPending,
       MarkDown, WorkerStep, Join, HandleCommand, Disconnected, Die, Connect,
       linkVars
  <2>4. CASE Stop
    BY <1>1, <2>4 DEF Stop
  <2>5. UNCHANGED vars => UNCHANGED shutdown
    BY DEF vars, serverVars, linkVars
  <2> QED
    BY <1>3, <2>1, <2>2, <2>3, <2>4, <2>5 DEF ServerNext
<1> QED
  BY <1>2, <1>3

\* A worker that counts as connected has a served connection: register_worker
\* runs on the thread that will call on_worker_down when it leaves its loop.
LEMMA ServedStep ==
    ASSUME ServerSound, StopSound, [ServerNext]_vars, NEW w \in Workers,
           workers'[w] # None /\ workers'[w].connected
    PROVE  \E k \in Conns : conn'[k].worker = w /\ conn'[k].handler \in Serving
<1>1. /\ workers \in [Workers -> WorkerRecord \cup {None}]
      /\ \A k \in Conns : LinkSound(k)
  BY DEF ServerSound, FabricTypeOK
<1>2. ASSUME NEW k \in Conns, RegisterState(k), conn[k].worker = w
      PROVE  conn'[k].worker = w /\ conn'[k].handler \in Serving
  <2>1. AfterFrame \in {"reading", "leaving"}
    BY DEF AfterFrame
  <2> QED
    BY <1>2, <2>1, HandlerOnly DEF RegisterState, Serving
<1>3. ASSUME NEW k \in Conns, MarkDown(k)
      PROVE  conn[k].worker # w /\ workers'[w] = workers[w]
  <2>1. conn[k].worker \in Workers
    BY <1>1, <1>3 DEF MarkDown, LinkSound
  <2>2. workers' = [workers EXCEPT ![conn[k].worker] =
                      IF @ = None THEN None
                      ELSE [@ EXCEPT !.connected = FALSE]]
    BY <1>3 DEF MarkDown, OnWorkerDown
  <2>3. CASE conn[k].worker = w
    <3>1. CASE workers[w] = None
      BY <1>1, <2>2, <2>3, <3>1
    <3>2. CASE workers[w] # None
      <4>1. workers[w] \in WorkerRecord
        BY <1>1, <3>2
      <4>2. workers'[w] = [workers[w] EXCEPT !.connected = FALSE]
        BY <1>1, <2>2, <2>3, <3>2
      <4>3. workers'[w].connected = FALSE
        BY <4>1, <4>2 DEF WorkerRecord
      <4> QED
        BY <4>3
    <3> QED
      BY <3>1, <3>2
  <2>4. CASE conn[k].worker # w
    BY <1>1, <2>1, <2>2, <2>4
  <2> QED
    BY <2>3, <2>4
<1>4. ASSUME workers'[w] = workers[w]
      PROVE  \E k \in Conns : conn[k].worker = w /\ conn[k].handler \in Serving
  BY <1>4 DEF StopSound
<1>5. ASSUME NEW k \in Conns, RegisterState(k), conn[k].worker # w
      PROVE  workers'[w] = workers[w]
  <2>1. workers' = [workers EXCEPT ![conn[k].worker] =
                      [boot |-> conn[k].boot, connected |-> TRUE]]
    BY <1>5 DEF RegisterState, RegisterWorkerEffect
  <2> QED
    BY <1>1, <1>5, <2>1
<1>6. ASSUME workers'[w] = workers[w]
      PROVE  \E k \in Conns : conn'[k].worker = w /\ conn'[k].handler \in Serving
  <2>1. PICK k \in Conns : conn[k].worker = w /\ conn[k].handler \in Serving
    BY <1>4, <1>6
  <2>2. CASE UNCHANGED conn
    BY <2>1, <2>2
  <2>3. ASSUME NEW j \in Conns, \A i \in Conns \ {j} : conn'[i] = conn[i],
               conn[j].handler = "none" \/ Continues(j) \/ MarkDown(j)
        PROVE  conn'[k].worker = w /\ conn'[k].handler \in Serving
    <3>1. CASE j # k
      BY <2>1, <2>3, <3>1
    <3>2. CASE j = k
      BY <1>3, <2>1, <2>3, <3>2 DEF Serving, Continues
    <3> QED
      BY <3>1, <3>2
  <2> QED
    BY <2>1, <2>2, <2>3, ConnMoves
<1> QED
  BY <1>2, <1>3, <1>5, <1>6, WorkersMoves

LEMMA StopInvariant == ServerSpec => []StopSound
<1>1. ServerInit => StopSound
  BY DEF ServerInit, Init, StopSound
<1>2. ServerSound /\ StopSound /\ [ServerNext]_vars => StopSound'
  <2> SUFFICES ASSUME ServerSound, StopSound, [ServerNext]_vars
               PROVE  StopSound'
    OBVIOUS
  <2>1. shutdown' = "done" => AllJoined'
    BY JoinedStep DEF StopSound
  <2> QED
    BY <2>1, ServedStep DEF StopSound
<1> QED
  BY <1>1, <1>2, SoundInvariant, PTL DEF ServerSpec

\* A shutdown leaves nothing behind: when stop() has returned no adapter is
\* active, no worker counts as connected and no request is pending, whatever
\* the threads were doing when it was asked for.
THEOREM ShutdownClean == ServerSpec => []StoppedClean
<1>1. StopSound /\ PendingSound /\ AuthorityOnLiveBoot => StoppedClean
  <2> SUFFICES ASSUME StopSound, PendingSound, AuthorityOnLiveBoot,
                      shutdown = "done"
               PROVE  /\ \A a \in Adapters : ~IsActive(a)
                      /\ \A w \in Workers :
                           workers[w] # None => ~workers[w].connected
                      /\ \A r \in Reqs : pending[r] = None
    BY DEF StoppedClean
  <2>1. AllJoined
    BY DEF StopSound
  <2>2. \A w \in Workers : workers[w] # None => ~workers[w].connected
    BY <2>1 DEF StopSound, AllJoined, Serving
  <2>3. \A r \in Reqs : pending[r] = None
    BY <2>1 DEF PendingSound, AllJoined
  <2>4. \A a \in Adapters : ~IsActive(a)
    BY <2>2 DEF AuthorityOnLiveBoot, OnLiveBoot
  <2> QED
    BY <2>2, <2>3, <2>4
<1> QED
  BY <1>1, StopInvariant, CorrelationInvariant, NoOrphanActivation, PTL

-----------------------------------------------------------------------------
(* Reservations.                                                           *)

\* The step makes and removes no instance and changes the size of none.
KeepsSizes ==
    /\ next_inst' = next_inst
    /\ \A i \in Instances :
         /\ residencies'[i] = None <=> residencies[i] = None
         /\ residencies[i] # None => residencies'[i].bytes = residencies[i].bytes

\* Losing a worker, a pin and the release of a pin are of that kind.
LEMMA RevokeKeeps ==
    ASSUME FabricTypeOK, NEW w, NEW bs, RevokeWorker(w, bs),
           UNCHANGED next_inst
    PROVE  KeepsSizes
<1> SUFFICES ASSUME NEW i \in Instances
             PROVE  /\ residencies'[i] = None <=> residencies[i] = None
                    /\ residencies[i] # None =>
                         residencies'[i].bytes = residencies[i].bytes
  BY DEF KeepsSizes
<1>1. residencies'[i] = IF Lost(residencies[i], w, bs)
                        THEN [residencies[i] EXCEPT !.ready = FALSE]
                        ELSE residencies[i]
  BY DEF RevokeWorker
<1>2. CASE Lost(residencies[i], w, bs)
  <2>1. residencies[i] \in ResidencyRecord
    BY <1>2 DEF Lost, FabricTypeOK
  <2>2. /\ [residencies[i] EXCEPT !.ready = FALSE] \in ResidencyRecord
        /\ [residencies[i] EXCEPT !.ready = FALSE].bytes = residencies[i].bytes
    BY <2>1 DEF ResidencyRecord
  <2> QED
    BY <1>1, <1>2, <2>1, <2>2, NoneAssumption
<1>3. CASE ~Lost(residencies[i], w, bs)
  BY <1>1, <1>3
<1> QED
  BY <1>2, <1>3

LEMMA RecordKeeps ==
    ASSUME FabricTypeOK, NEW i \in Instances, NEW r \in ResidencyRecord,
           Residency(i, r), r.bytes = residencies[i].bytes
    PROVE  KeepsSizes
BY NoneAssumption DEF Residency, FabricTypeOK, KeepsSizes

LEMMA PinKeeps ==
    ASSUME FabricTypeOK, NEW i \in Instances, Pin(i) \/ Unpin(i)
    PROVE  KeepsSizes
<1>1. residencies[i] \in ResidencyRecord
  BY DEF Pin, Unpin, Residency, FabricTypeOK
<1>2. CASE Pin(i)
  <2> DEFINE n == residencies[i].pin_count + 1
             r == [residencies[i] EXCEPT !.pin_count = n, !.protected = TRUE]
  <2>1. n \in Nat
    BY <1>1 DEF ResidencyRecord
  <2>2. Residency(i, r)
    BY <1>2 DEF Pin
  <2> HIDE DEF n
  <2>3. r \in ResidencyRecord /\ r.bytes = residencies[i].bytes
    BY <1>1, <2>1 DEF ResidencyRecord
  <2> HIDE DEF r
  <2> QED
    BY <2>2, <2>3, RecordKeeps
<1>3. CASE Unpin(i)
  <2> DEFINE n == IF residencies[i].pin_count > 0
                  THEN residencies[i].pin_count - 1 ELSE 0
             r == [residencies[i] EXCEPT !.pin_count = n,
                                         !.protected = @ /\ n # 0]
  <2>1. n \in Nat /\ residencies[i].protected \in BOOLEAN
    BY <1>1 DEF ResidencyRecord
  <2>2. Residency(i, r)
    BY <1>3 DEF Unpin
  <2> HIDE DEF n
  <2>3. (residencies[i].protected /\ n # 0) \in BOOLEAN
    OBVIOUS
  <2>4. r \in ResidencyRecord /\ r.bytes = residencies[i].bytes
    BY <1>1, <2>1, <2>3 DEF ResidencyRecord
  <2> HIDE DEF r
  <2> QED
    BY <2>2, <2>4, RecordKeeps
<1> QED
  BY <1>2, <1>3

\* Only loads and evictions make, size or remove instances.
LEMMA ResidencyMoves ==
    ASSUME ServerSound, [ServerNext]_vars
    PROVE  \/ KeepsSizes
           \/ \E c \in Clients : LoadCreate(c) \/ FinishLoad(c)
           \/ \E c \in Clients, i \in Instances, w \in Workers : CtlEvict(c, i, w)
<1>1. FabricTypeOK
  BY DEF ServerSound
<1>2. ASSUME UNCHANGED residencyVars
      PROVE  KeepsSizes
  BY <1>2 DEF residencyVars, KeepsSizes
<1>3. UNCHANGED fabricVars => UNCHANGED residencyVars
  BY DEF fabricVars, residencyVars
<1>4. CASE Request
  <2>1. ASSUME NEW c \in Clients, NEW w \in Workers,
               \/ \E f \in Presented : CtlLoad(c, f, w) \/ CtlActivate(c, f, w)
               \/ \E a \in Adapters : \/ CtlDeactivate(c, a, w)
                                      \/ CtlMigrate(c, a, w)
                                      \/ CtlInvalidate(c, a, w)
        PROVE  UNCHANGED residencyVars
    BY <1>3, <2>1 DEF CtlLoad, CtlActivate, CtlDeactivate, CtlMigrate,
       CtlInvalidate, Invalidate
  <2>2. ASSUME \/ \E a \in Adapters, rev \in Revisions, n \in Sizes :
                    CtlRegisterAdapter(a, rev, n)
               \/ CtlEpoch \/ CtlShutdown
        PROVE  UNCHANGED residencyVars
    BY <1>3, <2>2 DEF CtlRegisterAdapter, RegisterAdapter, CtlEpoch,
       AdvanceEpoch, CtlShutdown
  <2>3. ASSUME NEW i \in Instances, CtlPin(i) \/ CtlUnpin(i)
        PROVE  KeepsSizes
    BY <1>1, <2>3, PinKeeps DEF CtlPin, CtlUnpin
  <2> QED
    BY <1>2, <1>4, <2>1, <2>2, <2>3 DEF Request
<1>5. ASSUME NEW c \in Clients, ControlStep(c) \/ ClientLeaves(c)
      PROVE  KeepsSizes \/ LoadCreate(c) \/ FinishLoad(c)
  <2>1. SettleLoad(c) \/ FinishDeactivate(c) => UNCHANGED residencyVars
    BY <1>3 DEF SettleLoad, FinishDeactivate, SetReadyIfPresent, SetReady, Record
  <2>2. FinishActivate(c) => UNCHANGED residencyVars
    BY <1>3 DEF FinishActivate, BindAuthority
  <2>3. Lookup(c) \/ Send(c) \/ SendFails(c) \/ FinishOther(c) \/ ClientLeaves(c)
          => UNCHANGED residencyVars
    BY <1>3 DEF Lookup, Send, SendFails, FinishOther, ClientLeaves
  <2> QED
    BY <1>2, <1>5, <2>1, <2>2, <2>3 DEF ControlStep
<1>6. ASSUME NEW k \in Conns, RegisterState(k)
      PROVE  KeepsSizes
  BY <1>1, <1>6, RevokeKeeps DEF RegisterState, RestartEffect
<1>7. ASSUME NEW k \in Conns, MarkDown(k)
      PROVE  KeepsSizes
  BY <1>1, <1>7, RevokeKeeps DEF MarkDown, OnWorkerDown
<1>8. ASSUME NEW k \in Conns,
             \/ HandleReply(k) \/ Hangup(k) \/ AbortPending(k)
             \/ WorkerStep(k) \/ Die(k)
             \/ \E w \in Workers, b \in Boots : Connect(k, w, b)
      PROVE  KeepsSizes
  BY <1>2, <1>3, <1>8 DEF HandleReply, Hangup, AbortPending, WorkerStep, Join,
     HandleCommand, Disconnected, Die, Connect
<1>9. Stop \/ UNCHANGED vars => KeepsSizes
  BY <1>2, <1>3 DEF Stop, vars
<1> QED
  BY <1>4, <1>5, <1>6, <1>7, <1>8, <1>9 DEF ServerNext, HandlerStep

\* A thread with a load under way has the instance it created.
LEMMA LoadingInstance ==
    ASSUME ServerSound, NEW c \in Clients, Loading(c)
    PROVE  thread[c].inst \in Instances /\ Busy(c)
<1>1. Idle.op = None /\ Gone.op = None /\ None # "load"
  BY AbsentAssumption DEF Idle, Gone, Ops
<1>2. thread[c].op = "load" /\ ThreadSound(thread[c])
  BY DEF Loading, ServerSound
<1>3. Busy(c)
  BY <1>1, <1>2 DEF ThreadSound, Busy
<1> QED
  BY <1>3, BusyThread DEF Loading


\* Steps that make, size, charge and remove nothing: a load goes on or ends.
LEMMA ReservationsKept ==
    ASSUME ServerSound, ReservationsSound, [ServerNext]_vars,
           KeepsSizes, UNCHANGED capVars,
           \A c \in Clients : ~LoadCreate(c) /\ ~FinishLoad(c)
    PROVE  ReservationsSound'
<1>1. ASSUME NEW c \in Clients, Loading(c)'
      PROVE  /\ Loading(c) /\ thread'[c].inst = thread[c].inst
             /\ thread[c].pc = "settle" => thread'[c].pc = "settle"
  <2>1. CASE UNCHANGED thread
    BY <1>1, <2>1 DEF Loading
  <2>2. ASSUME NEW d \in Clients, Moves(d), c # d
        PROVE  thread'[c] = thread[c]
    BY <2>2 DEF Moves
  <2>3. CASE Moves(c)
    <3>1. CASE Accepts(c)
      BY <1>1, <3>1 DEF Accepts, Loading
    <3>2. CASE Proceeds(c)
      BY <1>1, <3>2 DEF Proceeds, Loading
    <3>3. CASE Leaves(c)
      <4>1. Idle.op = None /\ Gone.op = None /\ None # "load"
        BY AbsentAssumption DEF Idle, Gone, Ops
      <4> QED
        BY <1>1, <3>3, <4>1 DEF Leaves, Loading
    <3> QED
      BY <2>3, <3>1, <3>2, <3>3 DEF Moves
  <2> QED
    BY <1>1, <2>1, <2>2, <2>3, ServerMoves DEF Loading
<1>2. held' = held /\ used' = used /\ limits' = limits
  BY DEF capVars
<1>3. LoadsSound'
  <2>1. ASSUME NEW c \in Clients, Loading(c)'
        PROVE  /\ thread'[c].inst < next_inst'
               /\ thread'[c].pc # "settle" =>
                    /\ residencies'[thread'[c].inst] # None
                    /\ held'[DM][thread'[c].inst] = 0
    BY <1>1, <1>2, <2>1, LoadingInstance
       DEF ReservationsSound, LoadsSound, KeepsSizes
  <2>2. ASSUME NEW c \in Clients, NEW d \in Clients, Loading(c)', Loading(d)',
               thread'[c].inst = thread'[d].inst
        PROVE  c = d
    BY <1>1, <2>2 DEF ReservationsSound, LoadsSound
  <2> QED
    BY <2>1, <2>2 DEF LoadsSound
<1>4. HeldSound'
  BY <1>2 DEF ReservationsSound, HeldSound, KeepsSizes
<1>5. Cap!BooksSound(DM)'
  BY <1>2, CapHeld DEF ReservationsSound, Cap!BooksSound
<1> QED
  BY <1>3, <1>4, <1>5 DEF ReservationsSound

\* create_instance: the new instance is the load's own and holds nothing.
LEMMA ReservationsCreate ==
    ASSUME ServerSound, RegistrySound, ReservationsSound, NEW c \in Clients,
           LoadCreate(c)
    PROVE  ReservationsSound'
<1> DEFINE n == next_inst
<1>1. /\ n \in Instances /\ next_inst' = n + 1 /\ n \in Nat
      /\ UNCHANGED capVars /\ thread[c].pc = "create"
  BY DEF LoadCreate, CreateInstance, Instances
<1>2. PICK r : residencies' = [residencies EXCEPT ![n] = r]
               /\ r = [adapter |-> thread[c].fence.adapter,
                       bytes |-> adapters[thread[c].fence.adapter].memory_bytes,
                       worker |-> thread[c].fence.worker,
                       boot |-> thread[c].fence.boot, ready |-> FALSE,
                       active_refs |-> 0, pin_count |-> 0,
                       protected |-> FALSE]
  BY DEF LoadCreate, CreateInstance
<1>3. r # None
  <2>1. /\ thread[c].fence.adapter \in Adapters
        /\ thread[c].fence.worker \in Workers
        /\ thread[c].fence.boot \in Boots
    BY <1>1, BusyThread DEF Busy
  <2>2. adapters[thread[c].fence.adapter] \in Descriptor
    BY <2>1 DEF LoadCreate, CreateInstance, ServerSound, FabricTypeOK
  <2>3. adapters[thread[c].fence.adapter].memory_bytes \in Nat
    BY <2>2, BoundsAssumption DEF Descriptor
  <2>4. r \in ResidencyRecord
    BY <1>2, <2>1, <2>3 DEF ResidencyRecord
  <2> QED
    BY <2>4, NoneAssumption
<1>4. /\ residencies \in [Instances -> ResidencyRecord \cup {None}]
      /\ residencies[n] = None
  BY <1>1 DEF ServerSound, FabricTypeOK, RegistrySound, InstancesOwned
<1>5. residencies'[n] = r /\ \A i \in Instances \ {n} :
                               residencies'[i] = residencies[i]
  BY <1>1, <1>2, <1>4
<1>6. held' = held /\ used' = used /\ limits' = limits /\ held[DM][n] = 0
  BY <1>1, <1>4 DEF capVars, ReservationsSound, HeldSound
<1>7. /\ thread'[c].pc = "forward" /\ thread'[c].inst = n
      /\ \A d \in Clients \ {c} : thread'[d] = thread[d]
  <2>1. thread \in [Clients -> ThreadRecord] /\ thread[c] \in ThreadRecord
    BY DEF ServerSound, ServerTypeOK
  <2>2. thread' = [thread EXCEPT ![c] =
                     [thread[c] EXCEPT !.pc = "forward", !.inst = n]]
    BY DEF LoadCreate
  <2> QED
    BY <2>1, <2>2 DEF ThreadRecord
<1> HIDE DEF n
<1>8. ASSUME NEW d \in Clients, d # c, Loading(d)'
      PROVE  /\ Loading(d) /\ thread'[d] = thread[d]
             /\ thread[d].inst \in Instances /\ thread[d].inst < n
             /\ thread[d].inst # n
  <2>1. Loading(d) /\ thread'[d] = thread[d]
    BY <1>7, <1>8 DEF Loading
  <2>2. thread[d].inst \in Instances /\ thread[d].inst < n
    BY <2>1, LoadingInstance DEF ReservationsSound, LoadsSound, n
  <2> QED
    BY <1>1, <2>1, <2>2 DEF Instances
<1>9. LoadsSound'
  <2>1. ASSUME NEW d \in Clients, Loading(d)'
        PROVE  /\ thread'[d].inst < next_inst'
               /\ thread'[d].pc # "settle" =>
                    /\ residencies'[thread'[d].inst] # None
                    /\ held'[DM][thread'[d].inst] = 0
    <3>1. CASE d = c
      BY <1>1, <1>3, <1>5, <1>6, <1>7, <3>1
    <3>2. CASE d # c
      <4>1. thread[d].inst < n + 1
        BY <1>1, <1>8, <2>1, <3>2 DEF Instances
      <4> QED
        BY <1>1, <1>5, <1>6, <1>8, <2>1, <3>2, <4>1
           DEF ReservationsSound, LoadsSound
    <3> QED
      BY <3>1, <3>2
  <2>2. ASSUME NEW d \in Clients, NEW e \in Clients, Loading(d)', Loading(e)',
               thread'[d].inst = thread'[e].inst
        PROVE  d = e
    BY <1>7, <1>8, <2>2 DEF ReservationsSound, LoadsSound
  <2> QED
    BY <2>1, <2>2 DEF LoadsSound
<1>10. HeldSound'
  BY <1>5, <1>6 DEF ReservationsSound, HeldSound
<1>11. Cap!BooksSound(DM)'
  BY <1>6, CapHeld DEF ReservationsSound, Cap!BooksSound
<1> QED
  BY <1>9, <1>10, <1>11 DEF ReservationsSound


\* The worker has loaded the adapter: the instance gets the size it is charged
\* for, and the load is settled.
LEMMA ReservationsCharge ==
    ASSUME ServerSound, ReservationsSound, NEW c \in Clients, FinishLoad(c)
    PROVE  ReservationsSound'
<1>1. PICK i \in Instances : i = thread[c].inst
  BY LoadCharges
<1>2. PICK n \in Nat : n = Answer(c).bytes
  BY LoadCharges
<1>3. Loading(c) /\ thread[c].pc # "settle"
  BY DEF FinishLoad, Returned, Loading
<1>4. residencies[i] # None /\ held[DM][i] = 0 /\ i < next_inst
  BY <1>1, <1>3 DEF ReservationsSound, LoadsSound
<1>5. residencies \in [Instances -> ResidencyRecord \cup {None}]
      /\ residencies[i] \in ResidencyRecord
  BY <1>4 DEF ServerSound, FabricTypeOK
<1>6. next_inst' = next_inst /\ residencies'[i] # None
      /\ residencies'[i].bytes = n
      /\ \A j \in Instances \ {i} : residencies'[j] = residencies[j]
  <2> DEFINE r == [residencies[i] EXCEPT !.ready = TRUE, !.bytes = n]
  <2>1. r \in ResidencyRecord /\ r.bytes = n
    BY <1>5 DEF ResidencyRecord
  <2>2. Residency(i, r)
    BY <1>1, <1>2, <1>4 DEF FinishLoad, MarkReady
  <2> HIDE DEF r
  <2> QED
    BY <1>5, <2>1, <2>2, NoneAssumption DEF Residency
<1>7. /\ held'[DM][i] \in {0, n}
      /\ \A j \in Instances \ {i} : held'[DM][j] = held[DM][j]
      /\ Cap!BooksSound(DM)'
  <2>1. CASE UNCHANGED capVars
    <3>1. held' = held /\ used' = used /\ limits' = limits
      BY <2>1 DEF capVars
    <3> QED
      BY <1>4, <3>1, CapHeld DEF ReservationsSound, Cap!BooksSound
  <2>2. CASE Charged(i, n)
    <3>1. n \in Int
      OBVIOUS
    <3>2. /\ held'[DM][i] = held[DM][i] + n
          /\ \A j \in Instances \ {i} : held'[DM][j] = held[DM][j]
      BY <2>2, <3>1, ChargedStep
    <3>3. Cap!BooksSound(DM)'
      BY <2>2, <3>1, ChargedStep DEF ReservationsSound
    <3>4. held'[DM][i] = n
      BY <1>4, <3>2
    <3> QED
      BY <3>2, <3>3, <3>4
  <2> QED
    BY <1>1, <1>2, <2>1, <2>2, LoadCharges
<1>8. /\ thread'[c].pc = "settle" /\ thread'[c].inst = i
      /\ \A d \in Clients \ {c} : thread'[d] = thread[d]
  <2>1. thread \in [Clients -> ThreadRecord] /\ thread[c] \in ThreadRecord
    BY DEF ServerSound, ServerTypeOK
  <2>2. thread' = [thread EXCEPT ![c] = [thread[c] EXCEPT !.pc = "settle"]]
    BY DEF FinishLoad, TakeAnswer
  <2> QED
    BY <1>1, <2>1, <2>2 DEF ThreadRecord
<1>9. ASSUME NEW d \in Clients, d # c, Loading(d)'
      PROVE  /\ Loading(d) /\ thread'[d] = thread[d]
             /\ thread[d].inst \in Instances \ {i}
  <2>1. Loading(d) /\ thread'[d] = thread[d]
    BY <1>8, <1>9 DEF Loading
  <2>2. thread[d].inst # i
    BY <1>1, <1>3, <1>9, <2>1 DEF ReservationsSound, LoadsSound
  <2> QED
    BY <2>1, <2>2, LoadingInstance
<1>10. LoadsSound'
  <2>1. ASSUME NEW d \in Clients, Loading(d)'
        PROVE  /\ thread'[d].inst < next_inst'
               /\ thread'[d].pc # "settle" =>
                    /\ residencies'[thread'[d].inst] # None
                    /\ held'[DM][thread'[d].inst] = 0
    <3>1. CASE d = c
      BY <1>4, <1>6, <1>8, <3>1
    <3>2. CASE d # c
      BY <1>6, <1>7, <1>9, <2>1, <3>2 DEF ReservationsSound, LoadsSound
    <3> QED
      BY <3>1, <3>2
  <2>2. ASSUME NEW d \in Clients, NEW e \in Clients, Loading(d)', Loading(e)',
               thread'[d].inst = thread'[e].inst
        PROVE  d = e
    BY <1>8, <1>9, <2>2 DEF ReservationsSound, LoadsSound
  <2> QED
    BY <2>1, <2>2 DEF LoadsSound
<1>11. HeldSound'
  BY <1>6, <1>7 DEF ReservationsSound, HeldSound
<1> QED
  BY <1>7, <1>10, <1>11 DEF ReservationsSound

\* ctl_evict: the instance of no load, and what it holds goes with it.
LEMMA ReservationsEvict ==
    ASSUME ServerSound, ReservationsSound, NEW c \in Clients,
           NEW i \in Instances, NEW w \in Workers, CtlEvict(c, i, w)
    PROVE  ReservationsSound'
<1>1. Known(i) /\ Accept(c, "evict", "forward", None, None, i, w)
  BY DEF CtlEvict
<1>2. thread'[c].op = "evict" /\ \A d \in Clients \ {c} : thread'[d] = thread[d]
  <2>1. thread \in [Clients -> ThreadRecord]
    BY DEF ServerSound, ServerTypeOK
  <2> QED
    BY <1>1, <2>1 DEF Accept
<1>3. ASSUME NEW d \in Clients, Loading(d)'
      PROVE  /\ Loading(d) /\ thread'[d] = thread[d]
             /\ thread[d].inst \in Instances \ {i}
  <2>1. Loading(d) /\ thread'[d] = thread[d]
    BY <1>2, <1>3 DEF Loading
  <2>2. thread[d].inst # i
    BY <1>1, <2>1 DEF Known, Loading
  <2> QED
    BY <2>1, <2>2, LoadingInstance
<1>4. residencies \in [Instances -> ResidencyRecord \cup {None}]
  BY DEF ServerSound, FabricTypeOK
<1>5. /\ next_inst' = next_inst
      /\ \A j \in Instances \ {i} : residencies'[j] = residencies[j]
      /\ CanEvict(i) => residencies'[i] = None
      /\ ~CanEvict(i) => residencies'[i] = residencies[i]
  <2>1. CASE CanEvict(i)
    BY <1>4, <2>1 DEF CtlEvict, Evict, Residency
  <2>2. CASE ~CanEvict(i)
    <3>1. UNCHANGED fabricVars
      BY <2>2 DEF CtlEvict
    <3>2. next_inst' = next_inst /\ residencies' = residencies
      BY <3>1 DEF fabricVars, residencyVars
    <3> QED
      BY <2>2, <3>2
  <2> QED
    BY <2>1, <2>2
<1>6. /\ \A j \in Instances \ {i} : held'[DM][j] = held[DM][j]
      /\ CanEvict(i) => held'[DM][i] = 0
      /\ ~CanEvict(i) => held'[DM][i] = held[DM][i]
      /\ Cap!BooksSound(DM)'
  <2>1. held[DM][i] \in Nat
    BY CapType
  <2>2. CASE CanEvict(i) /\ Cap!CanRelease(DM, residencies[i].bytes, i)
    <3>1. Cap!Release(DM, residencies[i].bytes, i)
      BY <2>2 DEF CtlEvict, ReleaseReservation, DM
    <3>2. residencies[i].bytes = held[DM][i]
      BY <2>2 DEF Cap!CanRelease, ReservationsSound, HeldSound
    <3>3. Charged(i, -held[DM][i])
      BY <2>1, <3>1, <3>2, ReleaseCharged
    <3>4. -held[DM][i] \in Int /\ held[DM][i] + (-held[DM][i]) = 0
      BY <2>1
    <3> QED
      BY <2>2, <3>3, <3>4, ChargedStep DEF ReservationsSound
  <2>3. CASE ~(CanEvict(i) /\ Cap!CanRelease(DM, residencies[i].bytes, i))
    <3>1. UNCHANGED capVars
      BY <2>3 DEF CtlEvict, ReleaseReservation, DM
    <3>2. held' = held /\ used' = used /\ limits' = limits
      BY <3>1 DEF capVars
    <3>3. CanEvict(i) => held[DM][i] = 0
      <4> SUFFICES ASSUME CanEvict(i), held[DM][i] # 0
                   PROVE  FALSE
        OBVIOUS
      <4>1. residencies[i].bytes = held[DM][i]
        BY DEF ReservationsSound, HeldSound
      <4>2. Cap!CanRelease(DM, residencies[i].bytes, i)
        BY <2>1, <4>1 DEF Cap!CanRelease
      <4> QED
        BY <2>3, <4>2
    <3>4. Cap!BooksSound(DM)'
      BY <3>2, CapHeld DEF ReservationsSound, Cap!BooksSound
    <3> QED
      BY <3>2, <3>3, <3>4
  <2> QED
    BY <2>2, <2>3
<1>7. LoadsSound'
  <2>1. ASSUME NEW d \in Clients, Loading(d)'
        PROVE  /\ thread'[d].inst < next_inst'
               /\ thread'[d].pc # "settle" =>
                    /\ residencies'[thread'[d].inst] # None
                    /\ held'[DM][thread'[d].inst] = 0
    BY <1>3, <1>5, <1>6, <2>1 DEF ReservationsSound, LoadsSound
  <2>2. ASSUME NEW d \in Clients, NEW e \in Clients, Loading(d)', Loading(e)',
               thread'[d].inst = thread'[e].inst
        PROVE  d = e
    BY <1>3, <2>2 DEF ReservationsSound, LoadsSound
  <2> QED
    BY <2>1, <2>2 DEF LoadsSound
<1>8. HeldSound'
  BY <1>5, <1>6 DEF ReservationsSound, HeldSound
<1> QED
  BY <1>6, <1>7, <1>8 DEF ReservationsSound

LEMMA ReservationsInvariant == ServerSpec => []ReservationsSound
<1>1. ServerInit => ReservationsSound
  <2> SUFFICES ASSUME ServerInit
               PROVE  ReservationsSound
    OBVIOUS
  <2>1. /\ held = [l \in DeviceMemory |-> [o \in Instances |-> 0]]
        /\ used = [l \in DeviceMemory |-> 0]
        /\ limits = [l \in DeviceMemory |-> DeviceLimit]
        /\ DM \in DeviceMemory
    BY DEF ServerInit, Cap!CapacityInit, DM, DeviceMemory
  <2>2. held[DM] = [o \in Instances |-> 0]
    BY <2>1
  <2>3. Cap!Held(DM) = 0
    <3>1. IsFiniteSet(Instances)
      BY FS_Interval, BoundsAssumption DEF Instances
    <3> QED
      BY <2>2, <3>1, CapHeld, SumZero
  <2>4. used[DM] = 0 /\ limits[DM] = DeviceLimit /\ 0 <= DeviceLimit
    BY <2>1, ServerAssumption
  <2>5. Cap!BooksSound(DM)
    BY <2>3, <2>4 DEF Cap!BooksSound
  <2>6. HeldSound
    BY <2>2 DEF HeldSound
  <2>7. \A c \in Clients : ~Loading(c)
    BY AbsentAssumption DEF ServerInit, Loading, Idle, Ops
  <2> QED
    BY <2>5, <2>6, <2>7 DEF ReservationsSound, LoadsSound
<1>2. ServerSound /\ RegistrySound /\ ReservationsSound /\ [ServerNext]_vars
        => ReservationsSound'
  <2> SUFFICES ASSUME ServerSound, RegistrySound, ReservationsSound,
                      [ServerNext]_vars
               PROVE  ReservationsSound'
    OBVIOUS
  <2>1. CASE \E c \in Clients : LoadCreate(c)
    BY <2>1, ReservationsCreate
  <2>2. CASE \E c \in Clients : FinishLoad(c)
    BY <2>2, ReservationsCharge
  <2>3. CASE \E c \in Clients, i \in Instances, w \in Workers : CtlEvict(c, i, w)
    BY <2>3, ReservationsEvict
  <2> QED
    BY <2>1, <2>2, <2>3, ReservationsKept, ResidencyMoves, CapMoves
<1> QED
  BY <1>1, <1>2, SoundInvariant, RegistryInvariant, PTL DEF ServerSpec

\* No capacity leak: every reservation belongs to an instance that is in the
\* registry and has its size, and device memory is never overcommitted, however
\* loads, late acknowledgements, evictions and lost workers interleave.
THEOREM NoCapacityLeak == ServerSpec => []ReservationsBacked
<1>1. ReservationsSound => ReservationsBacked
  BY DEF ReservationsSound, HeldSound, ReservationsBacked, Cap!BooksSound, DM
<1> QED
  BY <1>1, ReservationsInvariant, PTL

=============================================================================
