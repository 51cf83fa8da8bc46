----------------------------- MODULE LogPipeline -----------------------------
(***************************************************************************)
(* frc846::base::FunkyLogSystem and LoggingServer: the robot thread queues *)
(* log messages; LogThread wakes every 500 ms and bundles what the rate    *)
(* limit admits; the server's sender thread hands one bundle at a time to  *)
(* every client; its receiver thread registers whoever sends a datagram    *)
(* and prunes clients that have been silent.                               *)
(*                                                                         *)
(* A step is what a thread does under one lock, or one unlocked read or    *)
(* wait.  Times are held as ages, the time since they were taken, and stop *)
(* growing once no comparison can tell them apart.  A client is its IP     *)
(* address; the port its entry keeps is data.                              *)
(***************************************************************************)
EXTENDS Integers, Sequences, FiniteSets, SequencesExt

CONSTANTS
  Clients,      (* IP addresses                                            *)
  CharCounts,   (* char_count of a message                                 *)
  RateLimit,    (* rateLimit, 20000                                        *)
  BundlePeriod, (* 500 ms, in units of Elapse                              *)
  PrunePeriod,  (* 500 ms                                                  *)
  KeepAlive,    (* 5000 ms                                                 *)
  MaxLogged     (* bound of the model on messages logged                   *)

ASSUME PipelineAssumption ==
  /\ CharCounts \subseteq Nat /\ RateLimit \in Nat /\ MaxLogged \in Nat
  /\ {BundlePeriod, PrunePeriod, KeepAlive} \subseteq Nat \ {0}

VARIABLES
  messages,     (* FunkyLogSystem::messages                                *)
  log_bundle,   (* logBundle, non-empty between unlock and AddMessage      *)
  bundle_age,   (* since start_time                                        *)
  bundles,      (* LoggingServer::messages                                 *)
  clients,      (* LoggingServer::clients                                  *)
  sender,       (* where the sender thread is                              *)
  msg,          (* the bundle it has popped                                *)
  receiver,     (* where the receiver thread is                            *)
  prune_due,    (* t - lastPruneTime > 500 ms, both fixed since t was read *)
  t_age,        (* since t was read, before recvfrom                       *)
  prune_age,    (* since lastPruneTime                                     *)
  num_logged,   (* history: messages logged                                *)
  taken,        (* history: ids the sender is done with, in order          *)
  handed,       (* history: ids it handed to some client                   *)
  pruned        (* history: a client was pruned since the sender's check   *)

log_thread == <<log_bundle, bundle_age>>
sending    == <<sender, msg>>
receiving  == <<receiver, prune_due, t_age, prune_age>>
history    == <<taken, handed>>
vars == <<messages, log_thread, bundles, clients, sending, receiving,
          num_logged, history, pruned>>

Init ==
  /\ messages = <<>> /\ log_bundle = <<>> /\ bundle_age = BundlePeriod
  /\ bundles = <<>> /\ clients = <<>>
  /\ sender = "wait" /\ msg = <<>>
  /\ receiver = "recv" /\ prune_due = FALSE /\ t_age = 0 /\ prune_age = 0
  /\ num_logged = 0 /\ taken = <<>> /\ handed = {} /\ pruned = FALSE
-----------------------------------------------------------------------------
(* FunkyLogger::HandleLogMessage, on the robot's thread.                   *)
AddMessage(k) ==
  /\ num_logged < MaxLogged
  /\ num_logged' = num_logged + 1
  /\ messages' = Append(messages, [id |-> num_logged', char_count |-> k])
  /\ UNCHANGED <<log_thread, bundles, clients, sending, receiving, history, pruned>>

(* runningCharCounter after i messages of the queue.                       *)
CharsUpTo(q) ==
  LET chars[i \in 0 .. Len(q)] ==
        IF i = 0 THEN 0 ELSE chars[i - 1] + q[i].char_count
  IN  chars

(* Slip: >= for > in the break.                                            *)
FittingBelow(q) ==
  LET n == {i \in 0 .. Len(q) : CharsUpTo(q)[i] < RateLimit}
  IN  CHOOSE i \in n : \A j \in n : j <= i

(* How many messages the loop packs: it stops at the first that would      *)
(* exceed the limit, which stays at the head of the queue.                 *)
Fitting(q) ==
  LET n == {i \in 0 .. Len(q) : CharsUpTo(q)[i] <= RateLimit}
  IN  CHOOSE i \in n : \A j \in n : j <= i

(* Slip: the message is popped before the limit is tested.                 *)
LeftAfterPop(q) == SubSeq(q, Fitting(q) + 2, Len(q))

LeftBehind(q) == SubSeq(q, Fitting(q) + 1, Len(q))

Ids(q) == [i \in DOMAIN q |-> q[i].id]

(* LogThread from start_time to mtx.unlock().                              *)
Bundle ==
  /\ log_bundle = <<>>
  /\ bundle_age >= BundlePeriod
  /\ bundle_age' = 0
  /\ log_bundle' = Ids(SubSeq(messages, 1, Fitting(messages)))
  /\ messages' = LeftBehind(messages)
  /\ UNCHANGED <<bundles, clients, sending, receiving, num_logged, history, pruned>>

(* ... then the file and server.AddMessage, skipped for an empty bundle.   *)
HandOver ==
  /\ log_bundle # <<>>
  /\ bundles' = Append(bundles, log_bundle)
  /\ log_bundle' = <<>>
  /\ UNCHANGED <<messages, bundle_age, clients, sending, receiving, num_logged,
                 history, pruned>>
-----------------------------------------------------------------------------
(* Slip: && for ||.                                                        *)
SomethingThere == bundles # <<>> \/ clients # <<>>
(* Slip: only the queue is tested.                                         *)
BundleThere == bundles # <<>>
(* The sender's loop condition, read without either lock.                  *)
ReadyToSend == bundles # <<>> /\ clients # <<>>

SenderCheck ==
  /\ sender = "wait"
  /\ ReadyToSend
  /\ sender' = "pop"
  /\ pruned' = FALSE
  /\ UNCHANGED <<messages, log_thread, bundles, clients, msg, receiving,
                 num_logged, history>>

SenderPop ==
  /\ sender = "pop"
  /\ sender' = "send"
  /\ msg' = Head(bundles)
  /\ bundles' = Tail(bundles)
  /\ UNCHANGED <<messages, log_thread, clients, receiving, num_logged, history,
                 pruned>>

(* sendto for every client registered by now, however many are left: with  *)
(* none the bundle is gone and nobody has it.                              *)
SenderSend ==
  /\ sender = "send"
  /\ sender' = "wait"
  /\ taken' = taken \o msg
  /\ handed' = IF clients = <<>> THEN handed ELSE handed \cup ToSet(msg)
  /\ msg' = <<>>
  /\ UNCHANGED <<messages, log_thread, bundles, clients, receiving, num_logged,
                 pruned>>
-----------------------------------------------------------------------------
Position(c) == {i \in DOMAIN clients : clients[i].addr = c}
NewClient(c) == [addr |-> c, age |-> 0]

(* A known client is refreshed in place, an unknown one appended.          *)
Heard(c) ==
  IF Position(c) = {} THEN Append(clients, NewClient(c))
  ELSE [i \in DOMAIN clients |-> IF i \in Position(c) THEN NewClient(c) ELSE clients[i]]

(* recvfrom returned a datagram of client c.                               *)
Receive(c) ==
  /\ receiver = "recv"
  /\ receiver' = "prune"
  /\ clients' = Heard(c)
  /\ UNCHANGED <<messages, log_thread, bundles, sending, prune_due, t_age,
                 prune_age, num_logged, history, pruned>>

(* ... or an empty datagram or an error, which registers nobody.           *)
ReceiveNothing ==
  /\ receiver = "recv"
  /\ receiver' = "prune"
  /\ UNCHANGED <<messages, log_thread, bundles, clients, sending, prune_due,
                 t_age, prune_age, num_logged, history, pruned>>

Silent(client) == client.age > KeepAlive

(* The loop erases entry i and still increments i: the entry that moved to *)
(* i is not looked at in this pass.                                        *)
Erased(q) ==
  LET erased[i \in 0 .. Len(q)] == i # 0 /\ Silent(q[i]) /\ ~erased[i - 1]
  IN  {i \in DOMAIN q : erased[i]}

Kept(q) ==
  LET kept[i \in 0 .. Len(q)] ==
        IF i = 0 THEN <<>>
        ELSE IF i \in Erased(q) THEN kept[i - 1] ELSE Append(kept[i - 1], q[i])
  IN  kept[Len(q)]

(* The end of the receiver's loop body, and t = getTime() before the next. *)
Prune ==
  /\ receiver = "prune"
  /\ receiver' = "recv"
  /\ clients' = IF prune_due THEN Kept(clients) ELSE clients
  /\ pruned' = (pruned \/ Len(clients') < Len(clients))
  /\ prune_age' = IF prune_due THEN t_age ELSE prune_age
  /\ prune_due' = (prune_age' > PrunePeriod)
  /\ t_age' = 0
  /\ UNCHANGED <<messages, log_thread, bundles, sending, num_logged, history>>
-----------------------------------------------------------------------------
(* 500 ms pass.  No thread is obliged to have run meanwhile.               *)
Older(age, limit) == IF age > limit THEN age ELSE age + 1
Elapse ==
  /\ bundle_age' = IF bundle_age < BundlePeriod THEN bundle_age + 1 ELSE bundle_age
  /\ clients' = [i \in DOMAIN clients |->
                   [clients[i] EXCEPT !.age = Older(@, KeepAlive)]]
  /\ t_age' = Older(t_age, PrunePeriod)
  /\ prune_age' = Older(prune_age, PrunePeriod)
  /\ UNCHANGED <<messages, log_bundle, bundles, sending, receiver, prune_due,
                 num_logged, history, pruned>>

LogThread == Bundle \/ HandOver
Sender    == SenderCheck \/ SenderPop \/ SenderSend
Next ==
  \/ \E k \in CharCounts : AddMessage(k)
  \/ LogThread
  \/ Sender
  \/ \E c \in Clients : Receive(c)
  \/ ReceiveNothing
  \/ Prune
  \/ Elapse

Spec == Init /\ [][Next]_vars
-----------------------------------------------------------------------------
(* Every variable holds a value of its kind, and no address is registered  *)
(* twice, or its client would be sent every bundle twice.                  *)
Items == 1 .. MaxLogged
TypeOK ==
  /\ messages \in Seq([id : Items, char_count : CharCounts])
  /\ {log_bundle, msg, taken} \subseteq Seq(Items) /\ handed \subseteq Items
  /\ bundles \in Seq(Seq(Items) \ {<<>>})
  /\ bundle_age \in 0 .. BundlePeriod
  /\ clients \in Seq([addr : Clients, age : 0 .. KeepAlive + 1])
  /\ \A i, j \in DOMAIN clients : clients[i].addr = clients[j].addr => i = j
  /\ sender \in {"wait", "pop", "send"} /\ (sender = "send" <=> msg # <<>>)
  /\ receiver \in {"recv", "prune"} /\ prune_due \in BOOLEAN
  /\ {t_age, prune_age} \subseteq 0 .. PrunePeriod + 1
  /\ num_logged \in 0 .. MaxLogged

(* The two threads' unlocked check does no harm to the queue: the sender,  *)
(* its only consumer, still finds the bundle it saw.                       *)
PopFindsBundle == sender = "pop" => bundles # <<>>

(* A bundle is taken off the queue for nobody only when the receiver has   *)
(* pruned a client between the sender's check and its send.                *)
LostOnlyToPrune == (sender = "send" /\ clients = <<>>) => pruned

(* Four queues in a row behave as one: what was logged leaves in order.    *)
InFlight == msg \o FlattenSeq(bundles) \o log_bundle \o Ids(messages)
Fifo == INSTANCE FifoChannel WITH
  Items <- Items, queue <- InFlight, out <- taken
ImplementsFifo == Fifo!Spec

(* Both of the server's threads and LogThread run again after every sleep, *)
(* time passes, and datagrams, of whatever kind, keep arriving.            *)
ThreadFairness ==
  /\ WF_vars(LogThread) /\ WF_vars(SenderPop \/ SenderSend) /\ WF_vars(Prune)
  /\ WF_vars(Elapse)
  /\ WF_vars(ReceiveNothing \/ \E c \in Clients : Receive(c))
(* A registration lasts 5 s and more, the sender looks every 50 ms: it     *)
(* sees a client that is there again and again, and some client is.        *)
ListenerFairness ==
  /\ SF_vars(SenderCheck)
  /\ SF_vars(\E c \in Clients : Receive(c))
LiveSpec == Spec /\ ThreadFairness /\ ListenerFairness

(* Whatever was logged leaves the pipeline, provided no message exceeds    *)
(* the limit by itself: such a message would stay at the head of the queue *)
(* for ever.  It leaves for a client, and is not lost to a prune, if no    *)
(* client is ever silent for longer than it is kept.                       *)
NobodySilent == \A i \in DOMAIN clients : ~Silent(clients[i])
EverythingSent ==
  \A n \in Items :
    /\ (num_logged >= n) ~> (n \in ToSet(taken))
    /\ []NobodySilent => ((num_logged >= n) ~> (n \in handed))
=============================================================================
