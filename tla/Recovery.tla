------------------------------ MODULE Recovery ------------------------------
(***************************************************************************)
(* Crash and recovery of the exchange: ReplayEngine::replay                *)
(* (src/engine/replay_engine.cpp) on the file the log left behind, and a   *)
(* new life of the program that appends to the same file, as WAL::start    *)
(* opens it.  A crash loses everything but the file, and may cut the       *)
(* record that was being written.  A stop is a crash with nothing left to  *)
(* do and everything in the file.                                          *)
(***************************************************************************)
EXTENDS Exchange

CONSTANT MaxCrashes   \* bound

ASSUME CrashAssumption == MaxCrashes \in Nat

VARIABLES phase,    \* "up", "start", "replay" or "recovered"
          next,     \* the position of the record replay reads next
          crashes,  \* how many crashes there were
          before    \* history: the fills made before the last crash

recoveryVars == <<phase, next, crashes, before>>
vars == <<threadVars, bookVars, logVars, published, recoveryVars>>

\* A record that was cut.
Torn == [type |-> "Torn"]

\* The requests of the workloads: what bytes read at a wrong offset may look like.
Request == UNION {Range(w) : w \in Workload}

RecoveryInit == Init /\ phase = "up" /\ next = 1 /\ crashes = 0 /\ before = {}

\* The process ends, between two records or inside one.
Crash ==
    /\ phase = "up" /\ crashes < MaxCrashes
    /\ \/ /\ log' = SubSeq(log, 1, durable)
          /\ past' = SubSeq(past, 1, durable + 1)
       \/ /\ durable < Len(log)
          /\ log' = Append(SubSeq(log, 1, durable), Torn)
          /\ past' = Append(SubSeq(past, 1, durable + 1), past[durable + 1])
    /\ durable' = Len(log')
    /\ pc' = [t \in Thread |-> "idle"]
    /\ task' = [t \in Thread |-> NoTask] /\ result' = [t \in Thread |-> NoResult]
    /\ books' = EmptyMap /\ published' = <<>>
    /\ before' = trades /\ trades' = {}
    /\ phase' = "start" /\ crashes' = crashes + 1
    /\ UNCHANGED <<tasks, counter, next>>

\* replay opens the file and resets the generator.
StartReplay ==
    /\ phase = "start"
    /\ counter' = 1 /\ next' = 1 /\ phase' = "replay"
    /\ UNCHANGED <<threadVars, books, trades, past, logVars, published, crashes, before>>

\* A record was cut earlier in the file: from there on every read is off.
Shifted(k) == \E i \in 1..k : log[i] = Torn

\* One more whole record can be read at position k.
Readable(k) == k <= Len(log) /\ ~(Shifted(k) /\ k = Len(log))

\* Replay calls the book as the request r says, without logging it again.
ReplayCall(r) ==
    LET q == IF r.type = "Submit" THEN [r EXCEPT !.order = from_net(@)] ELSE r
    IN  /\ books' = Put(books, r.symbol, Begin(BookOf(r.symbol), q))
        /\ task' = [task EXCEPT ![Main] = q]
        /\ Goto(Main, "match")

\* file.read: a request is replayed and anything else passed over.
ReplayRead ==
    /\ phase = "replay" /\ pc[Main] = "idle" /\ Readable(next)
    /\ \/ ~Shifted(next) /\ log[next].type # "Fill" /\ ReplayCall(log[next])
       \/ ~Shifted(next) /\ log[next].type = "Fill" /\ UNCHANGED <<books, task, pc>>
       \/ Shifted(next) /\ \E r \in Request : ReplayCall(RequestEntry(r))
       \/ Shifted(next) /\ UNCHANGED <<books, task, pc>>
    /\ next' = next + 1
    /\ UNCHANGED <<tasks, result, counter, trades, past, logVars, published, phase, crashes, before>>

\* The matching of the replayed call, and its end; the result is dropped.
ReplayStep == phase = "replay" /\ (Match(Main) \/ Leave(Main)) /\ UNCHANGED recoveryVars

\* Mutant: the generator is reset when the replay is over.
ReplayEndReset ==
    /\ phase = "replay" /\ pc[Main] = "idle" /\ ~Readable(next)
    /\ phase' = "recovered" /\ counter' = 1
    /\ UNCHANGED <<threadVars, books, trades, past, logVars, published, next, crashes, before>>

ReplayEnd ==
    /\ phase = "replay" /\ pc[Main] = "idle" /\ ~Readable(next)
    /\ phase' = "recovered"
    /\ UNCHANGED <<threadVars, bookVars, logVars, published, next, crashes, before>>

\* The program goes on, on the recovered books and behind the old records.
Restart ==
    /\ phase = "recovered"
    /\ phase' = "up"
    /\ UNCHANGED <<threadVars, bookVars, logVars, published, next, crashes, before>>

Next ==
    \/ phase = "up" /\ ((\E w \in Worker : WorkerStep(w)) \/ Flush) /\ UNCHANGED recoveryVars
    \/ Crash \/ StartReplay \/ ReplayRead \/ ReplayStep \/ ReplayEnd \/ Restart

Spec == RecoveryInit /\ [][Next]_vars
-----------------------------------------------------------------------------
(* Properties. *)

\* No life of the program began behind a cut record.
Whole == \A i \in 1..Len(log) - 1 : log[i] # Torn

\* After replay every book holds exactly what the calls in the file had made
\* of the original, clients apart: also when the last record was cut, when a
\* call was only half done, or when the file was written in several lives.
RecoveredIsPast ==
    phase = "recovered" /\ Whole =>
        \A s \in Symbol : Content(BookOf(s)) = past[Len(log) + 1][s]

\* A book whose mutex is free holds what the calls on it, one after the other
\* in the order of the log, make of it, whatever happens on other books.
BooksSerial ==
    phase = "up" /\ Whole =>
        \A s \in Symbol :
            (\A t \in Thread : ~Holds(t, s)) => Content(BookOf(s)) = past[Len(log) + 1][s]

\* A fill is in the log only behind the orders it names, so whatever part of
\* the log survives explains its own fills, although they are logged after
\* the mutex has been released.
FillsExplained ==
    Whole => \A i \in DOMAIN log : log[i].type = "Fill" =>
        \A id \in {log[i].fill.buy_order_id, log[i].fill.sell_order_id} :
            \E j \in 1..i - 1 : log[j].type = "Submit" /\ log[j].order_id = id

\* When all requests are done, the published reports tell the final state of
\* every order, although the reports of two calls on one book can overtake
\* each other and the last report on an order need not be the final one.
ReportsComplete ==
    crashes = 0 /\ tasks = <<>> /\ (\A w \in Worker : pc[w] = "idle") =>
        \A i \in DOMAIN log : log[i].type = "Submit" =>
            LET o == queryOrder(BookOf(log[i].symbol), log[i].order_id)
            IN  \E k \in DOMAIN published :
                    /\ published[k].order_id = log[i].order_id
                    /\ IF o = NoOrder THEN published[k].status \in {"Filled", "Cancelled"}
                       ELSE published[k].remaining_quantity = o.remaining_quantity

\* No two trades of this life have the same number, the replayed ones
\* included: the generator goes on where the replay has left it.
TradeIdsUnique == \A f, g \in trades : f.trade_id = g.trade_id => f = g

\* README: replay "resets the TradeIDGenerator to keep recovered trade IDs
\* matching original execution numbers".  Books draw their numbers in an order
\* the log does not keep, and replay deals them out in log order, to the trades
\* whose requests are in the file: a trade drawn as 2 is replayed as 1 when the
\* call of another book that drew 1 is not in the file, or behind it.
RecoveredTradeIds ==
    phase = "recovered" =>
        \A f \in trades, g \in before :
            f.buy_order_id = g.buy_order_id /\ f.sell_order_id = g.sell_order_id => f.trade_id = g.trade_id

\* README: replay serves "to reconstruct identical `OrderBook` states".  A
\* log entry has no client, so a recovered order belongs to nobody and the
\* reports on it find no session.
RecoveredOwners ==
    phase = "recovered" /\ Whole =>
        \A s \in DOMAIN books : \A n \in DOMAIN books[s].heap :
            \E r \in Request : /\ r.type = "Submit"
                               /\ r.order.order_id = books[s].heap[n].order_id
                               /\ r.order.client_id = books[s].heap[n].client_id
=============================================================================
