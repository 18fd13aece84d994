-------------------------- MODULE StreamIngestion ---------------------------
(***************************************************************************)
(* `cli.py stream`: trades read from Horizon's event stream                *)
(* (ingestion/horizon_streamer.py), added to the rolling windows the       *)
(* detector scores, and checkpointed with the stream's cursor              *)
(* (ingestion/stream_checkpoint.py).                                       *)
(*                                                                         *)
(* Trades are numbered in ledger order, so a paging token is the number of *)
(* the last trade before it.  The windows are the number of times each     *)
(* trade was added to them.  The loop is single-threaded; what interleaves *)
(* with it are the signal handler, which runs between any two of its       *)
(* bytecodes, a historical load in another process, and the ways in which  *)
(* a process ends.                                                         *)
(***************************************************************************)
EXTENDS Integers

CONSTANTS MaxTrades,         \* bound: trades that occur
          Interval,          \* FlushPolicy.max_events
          FailureThreshold,  \* HORIZON_FAILURE_THRESHOLD
          Malformed,         \* trades whose record _parse_trade rejects
          Backfilled,        \* trades a historical load may store
          MaxFaults,         \* bound: failures of the network, the database and the
                             \* process, and resets of the cursor
          MaxSignals,        \* bound: SIGTERM and SIGINT
          OldTrades,         \* trades of the ledger before the first start
          Defaults,          \* what HORIZON_DEFAULT_CURSOR may be at a start
          Now,               \* the cursor "now"
          None               \* no cursor

ASSUME StreamAssumption ==
  /\ MaxTrades \in Nat
  /\ Interval \in Nat \ {0}
  /\ FailureThreshold \in Nat \ {0, 1}
  /\ MaxFaults \in Nat
  /\ MaxSignals \in Nat
  /\ OldTrades \in 0 .. MaxTrades
  /\ Now \notin Nat
  /\ None \notin Nat \cup {Now}
  /\ Defaults \subseteq 0 .. OldTrades \cup {Now}

VARIABLES
  head,    \* the latest trade of the ledger
  aged,    \* trades up to this one are older than the replay window
  keys,    \* ingestion_dedup_keys
  ckpt,    \* the durable checkpoint: stream_checkpoint and the saved windows
  legacy,  \* the JSON cursor file of releases before stream_checkpoint
  pc,      \* where the process is
  cursor,  \* stream_trades_with_cursor's cursor
  pos,     \* the last event its connection delivered
  last,    \* last_cursor
  window,  \* window_state
  events,  \* _events_since_flush
  fails,   \* horizon_circuit's consecutive failures
  stop,    \* stop_event
  resumed, \* history: the durable token the process started from
  missed,  \* history: trades passed over without reaching the windows
  torn,    \* history: a signal found a trade added and last_cursor behind it
  rewound, \* history: a start at a token without its windows, behind them
  faults,
  signals

process == <<cursor, pos, last, window, events, fails, stop>>
ghosts == <<resumed, missed, torn, rewound>>
vars == <<head, aged, keys, ckpt, legacy, pc, process, ghosts, faults, signals>>

Trades == 1 .. MaxTrades
Cursors == 0 .. MaxTrades \cup {Now}
NoTrades == [t \in Trades |-> 0]

StreamTypeOK ==
  /\ head \in 0 .. MaxTrades
  /\ aged \in 0 .. MaxTrades
  /\ keys \subseteq Trades
  /\ ckpt \in [cursor : Cursors \cup {None}, window : [Trades -> Nat]]
  /\ legacy \in Cursors \cup {None}
  /\ pc \in {"down", "connect", "stream", "yielded", "scored", "advanced"}
  /\ cursor \in Cursors
  /\ pos \in 0 .. MaxTrades
  /\ last \in Cursors
  /\ window \in [Trades -> Nat]
  /\ events \in 0 .. Interval - 1
  /\ fails \in 0 .. FailureThreshold - 1
  /\ stop \in BOOLEAN
  /\ resumed \in Cursors
  /\ missed \subseteq Trades
  /\ torn \in BOOLEAN
  /\ rewound \in BOOLEAN
  /\ faults \in 0 .. MaxFaults
  /\ signals \in 0 .. MaxSignals

\* The windows an earlier release may have saved, with a policy of their own.
OldWindows ==
  {w \in [Trades -> {0, 1}] : \A t \in Trades : t > OldTrades => w[t] = 0}

\* A new deployment, or one upgraded from the JSON cursor file: no row yet.
Init ==
  /\ head = OldTrades
  /\ aged = 0
  /\ keys = {}
  /\ \E w \in OldWindows : ckpt = [cursor |-> None, window |-> w]
  /\ legacy \in 0 .. OldTrades \cup {Now, None}
  /\ pc = "down"
  /\ cursor = Now
  /\ pos = 0
  /\ last = Now
  /\ window = NoTrades
  /\ events = 0
  /\ fails = 0
  /\ stop = FALSE
  /\ resumed = Now
  /\ missed = {}
  /\ torn = FALSE
  /\ rewound = FALSE
  /\ faults = 0
  /\ signals = 0

-----------------------------------------------------------------------------
(* The world                                                                 *)

TradeOccurs ==
  /\ head < MaxTrades
  /\ head' = head + 1
  /\ UNCHANGED <<aged, keys, legacy, ckpt, pc, process, ghosts, faults, signals>>

\* time.time() - event_time > replay_window_seconds becomes true.
TradeAges ==
  /\ aged < head
  /\ aged' = aged + 1
  /\ UNCHANGED <<head, keys, legacy, ckpt, pc, process, ghosts, faults, signals>>

\* The historical loader stores a trade it finds new, and marks it seen.
Backfill(t) ==
  /\ t <= head /\ t > aged /\ t \notin keys
  /\ keys' = keys \cup {t}
  /\ UNCHANGED <<head, aged, ckpt, legacy, pc, process, ghosts, faults, signals>>

Fault == faults < MaxFaults /\ faults' = faults + 1

-----------------------------------------------------------------------------
(* Start, checkpoint and end of the process                                  *)

\* flush: one transaction, logged and given up when it fails.
Flush(token) == ckpt' \in {[cursor |-> token, window |-> window], ckpt}

\* The process is gone, and its memory with it.
Gone ==
  /\ pc' = "down"
  /\ cursor' = Now
  /\ pos' = 0
  /\ last' = Now
  /\ window' = NoTrades
  /\ events' = 0
  /\ fails' = 0
  /\ stop' = FALSE

\* reset: --reset-cursor deletes the row and the file, and keeps the windows.
ResetCursor ==
  /\ Fault
  /\ ckpt' = [ckpt EXCEPT !.cursor = None]
  /\ legacy' = None

\* load_cursor, and the setting when it has nothing to return.
LoadCursor(row, file, default) ==
  CASE row # None -> row
    [] row = None /\ file # None -> file
    [] row = None /\ file = None -> default

\* A token that was not saved with the windows passes over the trades before it
\* that they lack, and replays those after it that they hold.
SeedHistory ==
  IF ckpt'.cursor # None \/ cursor' = Now
  THEN UNCHANGED <<missed, rewound>>
  ELSE /\ missed' = missed \cup {t \in 1 .. cursor' : ckpt.window[t] = 0}
       /\ rewound' = (rewound \/ \E t \in Trades : t > cursor' /\ ckpt.window[t] > 0)

\* The windows are loaded, and a cursor: of the row, of the file, or the default.
Start(reset, default) ==
  /\ pc = "down"
  /\ pc' = "connect"
  /\ IF reset THEN ResetCursor ELSE UNCHANGED <<ckpt, legacy, faults>>
  /\ window' = ckpt.window
  /\ cursor' = LoadCursor(ckpt'.cursor, legacy', default)
  /\ last' = cursor'
  /\ resumed' = IF ckpt'.cursor = None THEN Now ELSE cursor'
  /\ SeedHistory
  /\ UNCHANGED <<head, aged, keys, pos, events, fails, stop, torn, signals>>

\* Fault: the handler saves the cursor of the generator.
ShutdownAtCursor ==
  /\ pc # "down"
  /\ signals < MaxSignals
  /\ signals' = signals + 1
  /\ Flush(cursor)
  /\ stop' = TRUE
  /\ torn' = (torn \/ pc = "scored")
  /\ UNCHANGED <<head, aged, keys, legacy, pc, cursor, pos, last, window, events, fails,
                 resumed, missed, rewound, faults>>

\* _shutdown: the signal handler.
Shutdown ==
  /\ pc # "down"
  /\ signals < MaxSignals
  /\ signals' = signals + 1
  /\ Flush(last)
  /\ stop' = TRUE
  /\ torn' = (torn \/ pc = "scored")
  /\ UNCHANGED <<head, aged, keys, legacy, pc, cursor, pos, last, window, events, fails,
                 resumed, missed, rewound, faults>>

\* The process is killed, or an exception leaves the loop's body.
Crash ==
  /\ pc # "down"
  /\ Fault
  /\ Gone
  /\ UNCHANGED <<head, aged, keys, legacy, ckpt, ghosts, signals>>

-----------------------------------------------------------------------------
(* stream_trades_with_cursor                                                 *)

\* A connection at "now" passes over the trades that occurred before it.
Connect ==
  /\ pc = "connect"
  /\ pc' = "stream"
  /\ pos' = IF cursor = Now THEN head ELSE cursor
  /\ missed' = IF cursor = Now THEN missed \cup {t \in 1 .. head : window[t] = 0}
                               ELSE missed
  /\ UNCHANGED <<head, aged, keys, legacy, ckpt, cursor, last, window, events, fails, stop,
                 resumed, torn, rewound, faults, signals>>

\* HTTP 404 or 410: the token is unknown to Horizon; the file goes with it.
CursorRejected ==
  /\ pc = "connect" /\ cursor # Now
  /\ Fault
  /\ cursor' = Now
  /\ legacy' = None
  /\ UNCHANGED <<head, aged, keys, ckpt, pc, pos, last, window, events, fails, stop,
                 ghosts, signals>>

\* record_failure, and the next connection is opened at the cursor c ...
Retry(c) ==
  /\ fails + 1 < FailureThreshold
  /\ fails' = fails + 1
  /\ pc' = "connect"
  /\ cursor' = c
  /\ UNCHANGED <<pos, last, window, stop>>

\* ... unless the circuit opens: CircuitOpenError leaves the loop and ends the
\* process without a checkpoint.
Fail(c) ==
  \/ Retry(c) /\ UNCHANGED events
  \/ fails + 1 >= FailureThreshold /\ Gone

ConnectionFails ==
  /\ pc \in {"connect", "stream"}
  /\ Fault
  /\ Fail(cursor)
  /\ UNCHANGED <<head, aged, keys, legacy, ckpt, ghosts, signals>>

\* The server closes the stream: the loop ends with a last checkpoint.
StreamEnds ==
  /\ pc = "stream"
  /\ Fault
  /\ Flush(last)
  /\ Gone
  /\ UNCHANGED <<head, aged, keys, legacy, ghosts, signals>>

\* The connection delivers the next event.
Event(t) == pc = "stream" /\ t = pos + 1 /\ t <= head

\* _decode_event cannot read the payload and skips it.
Garbled(t) ==
  /\ Event(t)
  /\ Fault
  /\ pos' = t
  /\ missed' = IF window[t] = 0 THEN missed \cup {t} ELSE missed
  /\ UNCHANGED <<head, aged, keys, legacy, ckpt, pc, cursor, last, window, events, fails, stop,
                 resumed, torn, rewound, signals>>

\* _parse_trade raises; the cursor stays before the record.
ParseFails(t) ==
  /\ Event(t) /\ t \in Malformed
  /\ Fail(cursor)
  /\ UNCHANGED <<head, aged, keys, legacy, ckpt, ghosts, faults, signals>>

\* The look-up of the key raises; the cursor is already past the trade.
DedupFails(t) ==
  /\ Event(t) /\ t \notin Malformed
  /\ Fault
  /\ Fail(t)
  /\ missed' = IF window[t] = 0 THEN missed \cup {t} ELSE missed
  /\ UNCHANGED <<head, aged, keys, legacy, ckpt, resumed, torn, rewound, signals>>

\* _check_trade_dedup: too old, or stored by a historical load.
Skipped(t) == t <= aged \/ t \in keys

SkipTrade(t) ==
  /\ Event(t) /\ t \notin Malformed /\ Skipped(t)
  /\ pos' = t
  /\ cursor' = t
  /\ missed' = IF t <= aged /\ window[t] = 0 THEN missed \cup {t} ELSE missed
  /\ UNCHANGED <<head, aged, keys, legacy, ckpt, pc, last, window, events, fails, stop,
                 resumed, torn, rewound, faults, signals>>

\* Fault: record_success is not called.
YieldUncounted(t) ==
  /\ Event(t) /\ t \notin Malformed /\ ~Skipped(t)
  /\ \/ /\ stop
        /\ Flush(last)
        /\ Gone
     \/ /\ ~stop
        /\ pc' = "yielded"
        /\ pos' = t
        /\ cursor' = t
        /\ UNCHANGED <<ckpt, last, window, events, fails, stop>>
  /\ UNCHANGED <<head, aged, keys, legacy, ghosts, faults, signals>>

\* record_success, and the trade is handed to the loop, which leaves it alone,
\* and ends with a last checkpoint, if a signal came before it.
Yield(t) ==
  /\ Event(t) /\ t \notin Malformed /\ ~Skipped(t)
  /\ \/ /\ stop
        /\ Flush(last)
        /\ Gone
     \/ /\ ~stop
        /\ pc' = "yielded"
        /\ pos' = t
        /\ cursor' = t
        /\ fails' = 0
        /\ UNCHANGED <<ckpt, last, window, events, stop>>
  /\ UNCHANGED <<head, aged, keys, legacy, ghosts, faults, signals>>

-----------------------------------------------------------------------------
(* The loop's body                                                           *)

\* score_on_trade adds the trade to its wallet's window.
Score ==
  /\ pc = "yielded"
  /\ pc' = "scored"
  /\ window' = [window EXCEPT ![cursor] = @ + 1]
  /\ UNCHANGED <<head, aged, keys, legacy, ckpt, cursor, pos, last, events, fails, stop,
                 ghosts, faults, signals>>

Advance ==
  /\ pc = "scored"
  /\ pc' = "advanced"
  /\ last' = cursor
  /\ UNCHANGED <<head, aged, keys, legacy, ckpt, cursor, pos, window, events, fails, stop,
                 ghosts, faults, signals>>

\* on_trade_processed: max_events reached, or max_seconds, at any event.
FlushIsDue(due) == due \/ events + 1 >= Interval

\* Fault: the windows and the cursor are saved by two policies.
CheckpointWindowsFirst(due) ==
  /\ pc = "advanced"
  /\ IF FlushIsDue(due)
     THEN ckpt' = [cursor |-> last, window |-> window] /\ events' = 0
     ELSE ckpt' = [ckpt EXCEPT !.window = window] /\ events' = events + 1
  /\ Retry(cursor)
  /\ UNCHANGED <<head, aged, keys, legacy, ghosts, faults, signals>>

\* on_trade_processed, then the generator goes on: mark_seen is called without
\* a key, which the audit table refuses, so the connection counts as failed and
\* is opened again at the cursor.
Checkpoint(due) ==
  /\ pc = "advanced"
  /\ IF FlushIsDue(due) THEN Flush(last) /\ events' = 0
                        ELSE UNCHANGED ckpt /\ events' = events + 1
  /\ Retry(cursor)
  /\ UNCHANGED <<head, aged, keys, legacy, ghosts, faults, signals>>

Loop ==
  \/ Connect
  \/ \E t \in Trades : ParseFails(t) \/ SkipTrade(t) \/ Yield(t)
  \/ Score \/ Advance
  \/ \E due \in BOOLEAN : Checkpoint(due)

Environment ==
  \/ TradeOccurs \/ TradeAges
  \/ \E t \in Backfilled : Backfill(t)
  \/ \E reset \in BOOLEAN, default \in Defaults : Start(reset, default)
  \/ Shutdown \/ Crash \/ CursorRejected \/ ConnectionFails \/ StreamEnds
  \/ \E t \in Trades : Garbled(t) \/ DedupFails(t)

Next == Loop \/ Environment

Spec == Init /\ [][Next]_vars

\* A process that runs takes its steps.
FairSpec == Spec /\ WF_vars(Loop)

-----------------------------------------------------------------------------
(* Properties                                                                *)

\* "the cursor can never be durably ahead of the window state it depends on":
\* every trade up to the durable token is in the durable windows, unless the
\* stream passed over it (a start at "now", or at a token of the file or the
\* settings, which come without windows; a rejected cursor, a payload it could
\* not read, a trade older than the replay window, a failed look-up) or a
\* historical load has stored it.
CheckpointCovers ==
  ckpt.cursor \notin {None, Now} =>
    \A t \in 1 .. ckpt.cursor :
      ckpt.window[t] > 0 \/ t \in missed \/ t \in keys

\* Crashes, restarts and reconnections replay trades, and yet none is counted
\* twice in a window, durable or not, unless a signal was handled between the
\* two statements that add a trade and advance last_cursor, or a process took
\* its cursor from the file or the settings and it lay behind the windows.
CountedOnce ==
  ~torn /\ ~rewound => \A t \in Trades : window[t] <= 1 /\ ckpt.window[t] <= 1

\* A process that is restarted whenever it ends gets to every trade before the
\* first malformed record, however often connections fail and signals arrive.
TradesReachWindows ==
  []<>(pc # "down") =>
    \A t \in Trades :
      head >= t /\ (\A u \in Malformed : t < u)
        ~> window[t] > 0 \/ t \in missed \/ t \in keys

\* docs/ingestion.md: a crash "does not skip events after the durable token".
TokenSkipsNothing ==
  resumed # Now /\ last # Now =>
    \A t \in resumed + 1 .. last : window[t] > 0
=============================================================================
