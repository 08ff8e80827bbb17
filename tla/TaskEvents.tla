----------------------------- MODULE TaskEvents -----------------------------
(***************************************************************************)
(* Live updates of one task: the API, the worker and the override service  *)
(* publish events to the task's Redis stream (events/broker.py), and the   *)
(* browser clients follow it over a WebSocket that replays the history,    *)
(* breaks, and is opened again with the last event id the client has.      *)
(*                                                                         *)
(* A publication is two Redis calls, INCR for the sequence number and XADD *)
(* for the entry, so publishers interleave between them.  The log keeps    *)
(* the entries that trimming has removed, with the number of those.        *)
(***************************************************************************)
EXTENDS Integers, SequencesExt

CONSTANTS
    Clients,
    Nodes,              \* the graph nodes of the task, in order
    ApiEvents,          \* publisher -> events an API process publishes meanwhile
    HistoryMaxlen,      \* history_maxlen of the broker
    StreamNode,         \* entries Redis keeps in a node of a stream
    PerMillisecond,     \* entries Redis gives the same millisecond
    Radix,              \* of the digits of a stream id
    MaxFaults           \* bound: failed Redis calls, failed executions, crashes of
                        \* the worker and broken connections

VARIABLES
    counter,            \* the INCR key of the task
    log, trimmed,
    lastEventSequence,  \* of the runtime thread's row
    publisher,          \* publisher -> events of the call in progress, and the number drawn
    worker,             \* where the execution of the task stands
    client, connection,
    faults

publishVars == <<counter, log, trimmed, lastEventSequence, publisher>>
clientVars == <<client, connection>>
vars == <<publishVars, worker, clientVars, faults>>

Publishers == {"worker"} \cup DOMAIN ApiEvents
Quiet == [todo |-> << >>, drawn |-> 0]

\* an event is its type
Started(node) == <<node, "STARTED">>
Completed(node) == <<node, "COMPLETED">>
TaskEvent(what) == <<"task", what>>
ThreadEvent(what) == <<"thread", what>>

Init ==
    /\ counter = 0
    /\ log = << >> /\ trimmed = 0
    /\ lastEventSequence = 0
    /\ publisher = [p \in Publishers |->
          IF p = "worker" THEN Quiet ELSE [Quiet EXCEPT !.todo = ApiEvents[p]]]
    /\ worker = [stage |-> "idle", done |-> 0, failed |-> FALSE, verdict |-> "NONE"]
    /\ client = [c \in Clients |-> [got |-> << >>, highest |-> -1, last |-> 0,
                                   terminal |-> FALSE]]
    /\ connection = [c \in Clients |-> [pc |-> "off", cursor |-> 0]]
    /\ faults = 0

-----------------------------------------------------------------------------
(* RedisTaskEventBroker.publish *)

Greater(a, b) == IF a < b THEN b ELSE a

one_more_fault == faults < MaxFaults /\ faults' = faults + 1

Draw(p) ==
    /\ publisher[p].todo # << >> /\ publisher[p].drawn = 0
    /\ counter' = counter + 1
    /\ publisher' = [publisher EXCEPT ![p].drawn = counter + 1]
    /\ UNCHANGED <<log, trimmed, lastEventSequence, worker, clientVars, faults>>

xadd(p) ==
    log' = Append(log, [sequence |-> publisher[p].drawn, type |-> Head(publisher[p].todo)])

\* MAXLEN is approximate: an XADD drops whole nodes of the stream, as long as
\* that leaves MAXLEN entries.
trim == trimmed' = Greater(trimmed, StreamNode * ((Len(log) + 1 - HistoryMaxlen) \div StreamNode))

\* RuntimeThreadEventPublisher._publish also notes the number in the thread's row.
noted(p) ==
    IF Head(publisher[p].todo)[1] = "thread"
    THEN Greater(lastEventSequence, publisher[p].drawn) ELSE lastEventSequence

AppendEntry(p) ==
    /\ publisher[p].drawn # 0
    /\ xadd(p) /\ trim
    /\ lastEventSequence' = noted(p)
    /\ publisher' = [publisher EXCEPT ![p] = [Quiet EXCEPT !.todo = Tail(publisher[p].todo)]]
    /\ UNCHANGED <<counter, worker, clientVars, faults>>

\* A RedisError ends the call: the events that were to follow in it are skipped.
\* An XADD may have been carried out; an INCR carried out leaves the same gap
\* as an XADD that was not.
PublishFails(p) ==
    /\ publisher[p].todo # << >>
    /\ one_more_fault
    /\ publisher' = [publisher EXCEPT ![p] = Quiet]
    /\ (publisher[p].drawn # 0 /\ xadd(p)) \/ UNCHANGED log
    /\ UNCHANGED <<counter, trimmed, lastEventSequence, worker, clientVars>>

-----------------------------------------------------------------------------
(* The worker: _process_graph and CheckpointedGraphRunner._run *)

\* A call begins with the INCR for its first event, which may fail.
begin(events) ==
    /\ publisher["worker"] = Quiet
    /\ counter' = counter + 1
    /\ publisher' = [publisher EXCEPT !["worker"] = [todo |-> events, drawn |-> counter + 1]]
    /\ UNCHANGED <<log, trimmed, lastEventSequence, clientVars>>
begin_fails ==
    /\ publisher["worker"] = Quiet
    /\ one_more_fault
    /\ UNCHANGED <<publishVars, clientVars>>
publishing(events) == (begin(events) /\ UNCHANGED faults) \/ begin_fails

at(stage) == worker.stage = stage

StartMessage ==
    /\ at("idle") /\ publishing(<< <<"worker", "STARTED">> >>)
    /\ worker' = [worker EXCEPT !.stage = "started"]

\* _start_events: the node that runs next
StartGraph ==
    /\ at("started") /\ publishing(<<Started(Nodes[worker.done + 1])>>)
    /\ worker' = [worker EXCEPT !.stage = IF worker.done = 0 THEN "node" ELSE "resume"]

PublishResumed ==
    /\ at("resume") /\ publishing(<<ThreadEvent("RESUMED")>>)
    /\ worker' = [worker EXCEPT !.stage = "node"]

\* publish_completed: degraded environment and graph memory say so in an event more.
degraded(node) ==
    {<< >>} \cup CASE node = "environment" -> {<< <<node, "FALLBACK">> >>}
                   [] node = "graph_memory" -> {<< <<node, "DEGRADED">> >>}
                   [] OTHER -> {}

CompleteNode ==
    LET n == worker.done + 1
        next == IF n < Len(Nodes) THEN <<Started(Nodes[n + 1])>> ELSE << >>
    IN
    /\ at("node")
    /\ \E more \in degraded(Nodes[n]) :
          publishing(<<Completed(Nodes[n])>> \o more \o <<ThreadEvent("CHECKPOINTED")>> \o next)
    /\ worker' = [worker EXCEPT !.done = n, !.stage = IF n < Len(Nodes) THEN "node" ELSE "audited"]

\* The message stays pending and is delivered again.
FailGraph ==
    /\ (at("resume") \/ at("node")) /\ one_more_fault
    /\ begin(<<TaskEvent("FAILED")>>)
    /\ worker' = [worker EXCEPT !.stage = "idle", !.failed = TRUE]

\* The row is terminal before the last events.
Conclude ==
    /\ at("audited") /\ publisher["worker"] = Quiet
    /\ \E v \in {"COMPLETED", "REVIEW_REQUIRED"} :
          worker' = [worker EXCEPT !.stage = "concluded", !.verdict = v]
    /\ UNCHANGED <<publishVars, clientVars, faults>>

\* Too many deliveries: the message goes to the dead letters.
GiveUp ==
    /\ at("idle") /\ worker.failed /\ publisher["worker"] = Quiet
    /\ worker' = [worker EXCEPT !.stage = "concluded", !.verdict = "FAILED"]
    /\ UNCHANGED <<publishVars, clientVars, faults>>

PublishThreadTerminal ==
    /\ at("concluded") /\ publishing(<<ThreadEvent("TERMINAL")>>)
    /\ worker' = [worker EXCEPT !.stage = "terminal"]

PublishTaskTerminal ==
    /\ at("terminal") /\ publishing(<<TaskEvent(worker.verdict)>>)
    /\ worker' = [worker EXCEPT !.stage = "done"]

\* The worker dies before it acknowledges: another one takes the message, and
\* replays the conclusion if there is one.
CrashWorker ==
    /\ worker.stage # "idle"
    /\ one_more_fault
    /\ worker' = [worker EXCEPT !.stage = CASE worker.verdict # "NONE" -> "concluded"
                                           [] worker.done = Len(Nodes) -> "audited"
                                           [] OTHER -> "idle"]
    /\ publisher' = [publisher EXCEPT !["worker"] = Quiet]
    /\ UNCHANGED <<counter, log, trimmed, lastEventSequence, clientVars>>

-----------------------------------------------------------------------------
(* The browser client and the task_events handler *)

\* Stream ids are <milliseconds>-<n>; XREAD orders them by number, history by
\* the characters of the id.
stream_id(i) ==
    LET ms == (i - 1) \div PerMillisecond
        n == (i - 1) % PerMillisecond
    IN  <<ms>> \o (IF n < Radix THEN <<n>> ELSE <<n \div Radix, n % Radix>>)
after(x, y) ==
    \E n \in 1..Len(x) : /\ \A m \in 1..(n - 1) : m <= Len(y) /\ x[m] = y[m]
                         /\ n > Len(y) \/ x[n] > y[n]
text_after(i, j) == after(stream_id(i), stream_id(j))

retained == (trimmed + 1)..Len(log)
in_order(S) == SelectSeq([i \in 1..Len(log) |-> i], LAMBDA i : i \in S)

\* TaskEventClient.accept
TerminalTypes == {<<"task", "COMPLETED">>, <<"task", "REVIEW_REQUIRED">>, <<"task", "FAILED">>}
accepts(me, i) == i \notin ToSet(me.got) /\ log[i].sequence >= me.highest
accepted_all(me, entries) == entries
accepted(me, entries) ==
    SelectSeq(entries, LAMBDA i :
        accepts(me, i) /\ \A j \in ToSet(entries) : j < i => log[j].sequence <= log[i].sequence)

received(me, new) ==
    [got |-> me.got \o new, last |-> Last(new), highest |-> log[Last(new)].sequence,
     terminal |-> me.terminal \/ \E i \in ToSet(new) : log[i].type \in TerminalTypes]
send(c, entries) ==
    \E new \in {accepted(client[c], entries)} :
        client' = IF new = << >> THEN client ELSE [client EXCEPT ![c] = received(@, new)]

\* connect: a client without a socket takes a ticket, which stores whether its
\* principal may review, and opens the socket with it (GETDEL, accept).  The
\* snapshot alone has number 0: a client that has seen an event drops it.
ConnectOnce(c) ==
    /\ connection[c].pc = "off" /\ ~client[c].terminal /\ client[c].last = 0
    /\ connection' = [connection EXCEPT ![c].pc = "snapshot"]
    /\ client' = [client EXCEPT ![c].highest = Greater(0, @)]
    /\ UNCHANGED <<publishVars, worker, faults>>
Connect(c) ==
    /\ connection[c].pc = "off" /\ ~client[c].terminal
    /\ connection' = [connection EXCEPT ![c].pc = "snapshot"]
    /\ client' = [client EXCEPT ![c].highest = Greater(0, @)]
    /\ UNCHANGED <<publishVars, worker, faults>>

\* history after the client's last event
history_skipping(c) ==
    in_order({i \in retained : client[c].last # 0 => text_after(i, client[c].last + 1)})
history(c) ==
    in_order({i \in retained : client[c].last # 0 => text_after(i, client[c].last)})

\* The subscription starts behind the last entry replayed.
Replay(c) ==
    /\ connection[c].pc = "snapshot"
    /\ \E entries \in {history(c)} :
          /\ send(c, entries)
          /\ connection' = [connection EXCEPT ![c] =
                [pc |-> "live", cursor |-> IF entries = << >> THEN client[c].last ELSE Last(entries)]]
    /\ UNCHANGED <<publishVars, worker, faults>>

\* RedisTaskEventSubscription.read, and the entry sent
unread(c) == {i \in retained : i > connection[c].cursor}

SendLive(c) ==
    LET i == Min(unread(c)) IN
    /\ connection[c].pc = "live" /\ unread(c) # {}
    /\ send(c, <<i>>)
    /\ connection' = [connection EXCEPT ![c].cursor = i]
    /\ UNCHANGED <<publishVars, worker, faults>>

\* The ticket has expired or Redis does not answer (4408, 1011), the stream
\* cannot be read (1011), or the network breaks, in the middle of the replay too.
Break(c) ==
    /\ connection[c].pc # "off"
    /\ one_more_fault
    /\ connection' = [connection EXCEPT ![c] = [pc |-> "off", cursor |-> 0]]
    /\ \/ UNCHANGED client
       \/ /\ connection[c].pc = "snapshot"
          /\ \E n \in 1..Len(history(c)) : send(c, SubSeq(history(c), 1, n))
    /\ UNCHANGED <<publishVars, worker>>

Follow(c) ==
    Connect(c) \/ Replay(c) \/ SendLive(c)

WorkerStep ==
    \/ StartMessage \/ StartGraph \/ PublishResumed \/ CompleteNode \/ FailGraph
    \/ Conclude \/ GiveUp \/ PublishThreadTerminal \/ PublishTaskTerminal

CaughtUp(c) == connection[c].pc = "live" /\ unread(c) = {}

Finished ==
    /\ at("done") /\ \A p \in Publishers : publisher[p] = Quiet
    /\ UNCHANGED vars

Next ==
    \/ \E p \in Publishers : Draw(p) \/ AppendEntry(p) \/ PublishFails(p)
    \/ WorkerStep \/ CrashWorker
    \/ \E c \in Clients : Follow(c) \/ Break(c)
    \/ Finished

\* Clients reconnect until they are done and the handler of an open socket runs.
Spec == Init /\ [][Next]_vars /\ \A c \in Clients : WF_connection(Follow(c))

-----------------------------------------------------------------------------

Overtaken(i) == \E j \in 1..(i - 1) : log[j].sequence > log[i].sequence
Misordered(i) == \E j \in 1..(i - 1) : text_after(j, i)
Got(c) == ToSet(client[c].got)

\* A client that has caught up has every event of the log but those that were
\* trimmed before it came, those that a later number overtook between INCR and
\* XADD (RedisTaskEventBroker.publish, TaskEventClient.accept), and those whose
\* id sorts, as text, before the id of an earlier one of the same millisecond
\* (RedisTaskEventBroker.history), however often its connection broke and was
\* resumed from last_event_id and whatever was trimmed meanwhile.
OnlyOvertakenLost ==
    \A c \in Clients :
        CaughtUp(c) => \A i \in retained : i \in Got(c) \/ Overtaken(i) \/ Misordered(i)

\* A terminal event that stays in the log and has neither its number nor its id
\* out of order reaches every client, which then stops (TaskEventClient.accept,
\* scheduleReconnect), also one that was cut off while the stream was trimmed.
TerminalReachesClients ==
    \A c \in Clients :
        []<>(client[c].terminal \/ \A i \in retained : log[i].type \in TerminalTypes => Overtaken(i) \/ Misordered(i))

\* The stream, the replay and the reconnecting client together implement the
\* feed of EventFeed: an append-only log that each client reads forwards.
Feed == INSTANCE EventFeed
            WITH log <- [i \in 1..Len(log) |-> log[i].sequence],
                 seen <- [c \in Clients |-> client[c].got]
\* Every step of publishers and clients is a step of the feed (task_events, TaskEventClient).
ImplementsFeed == Feed!Spec
=============================================================================
