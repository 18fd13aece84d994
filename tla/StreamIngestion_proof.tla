------------------------ MODULE StreamIngestion_proof ------------------------
(***************************************************************************)
(* The checkpoint of the stream, for any number of trades, faults, signals *)
(* and restarts: the durable cursor is covered by the durable windows, and *)
(* replays do not count a trade twice.                                     *)
(***************************************************************************)
EXTENDS StreamIngestion, TLAPS

Checkpoints == [cursor : Cursors \cup {None}, window : [Trades -> Nat]]

\* The part of the type invariant the proofs need.
StreamTypes ==
  /\ head \in 0 .. MaxTrades
  /\ ckpt \in Checkpoints
  /\ legacy \in Cursors \cup {None}
  /\ pc \in {"down", "connect", "stream", "yielded", "scored", "advanced"}
  /\ cursor \in Cursors
  /\ pos \in 0 .. MaxTrades
  /\ last \in Cursors
  /\ window \in [Trades -> Nat]
  /\ pc \in {"yielded", "scored", "advanced"} => cursor \in 1 .. head

\* Trades up to n are in the windows w, or known to have been passed over.
Accounted(n, w) == \A t \in 1 .. n : w[t] > 0 \/ t \in missed \/ t \in keys

CoverInv ==
  /\ CheckpointCovers
  /\ last # Now => Accounted(last, window)
  /\ pc \in {"connect", "stream", "scored", "advanced"} /\ cursor # Now
       => Accounted(cursor, window)
  /\ pc = "stream" => Accounted(pos, window)
  /\ pc = "yielded" => Accounted(cursor - 1, window)

\* Trades after n are not in the windows w.
Fresh(n, w) == \A t \in Trades : t > n => w[t] = 0

\* No signal tore a trade from its cursor, no token lay behind the windows.
Orderly == ~torn /\ ~rewound

OnceInv ==
  Orderly =>
    /\ \A t \in Trades : window[t] <= 1 /\ ckpt.window[t] <= 1
    /\ Fresh(head, window) /\ Fresh(head, ckpt.window)
    /\ ckpt.cursor \notin {None, Now} => Fresh(ckpt.cursor, ckpt.window)
    /\ last # Now /\ pc # "scored" => Fresh(last, window)
    /\ pc \in {"connect", "stream", "scored", "advanced"} /\ cursor # Now
         => Fresh(cursor, window)
    /\ pc = "stream" => Fresh(pos, window)
    /\ pc = "yielded" => Fresh(cursor - 1, window)

StreamInv == StreamTypes /\ CoverInv /\ OnceInv

-----------------------------------------------------------------------------
(* What the actions share                                                    *)

LEMMA EmptyWindows ==
  /\ NoTrades \in [Trades -> Nat] /\ \A t \in Trades : NoTrades[t] = 0
  /\ \A n : Fresh(n, NoTrades)
  BY DEF NoTrades, Fresh

\* A flush stores the windows with the token, or nothing.
LEMMA FlushFacts ==
  ASSUME StreamTypes, NEW token \in Cursors, Flush(token)
  PROVE  /\ ckpt' \in Checkpoints
         /\ \/ ckpt' = ckpt
            \/ ckpt'.cursor = token /\ ckpt'.window = window
  BY DEF Flush, StreamTypes, Checkpoints

\* The process is gone: its part of the invariant says nothing any more.
LEMMA GoneStep ==
  ASSUME StreamInv, Gone, UNCHANGED <<head, keys, legacy, torn, rewound>>, missed \subseteq missed',
         \/ ckpt' = ckpt
         \/ Flush(last) /\ pc # "scored"
  PROVE  StreamInv'
  <1> USE StreamAssumption DEF StreamInv
  <1>1. /\ pc' = "down" /\ cursor' = Now /\ pos' = 0 /\ last' = Now /\ window' = NoTrades
    BY DEF Gone
  <1>2. /\ ckpt' \in Checkpoints
        /\ \/ ckpt' = ckpt
           \/ pc # "scored" /\ ckpt'.cursor = last /\ ckpt'.window = window
    BY FlushFacts DEF StreamTypes
  <1>3. StreamTypes'
    BY <1>1, <1>2, EmptyWindows DEF StreamTypes, Cursors
  <1>4. CoverInv'
    BY <1>1, <1>2 DEF CoverInv, CheckpointCovers, Accounted
  <1>5. OnceInv'
    BY <1>1, <1>2, EmptyWindows DEF OnceInv, Orderly, Fresh
  <1> QED
    BY <1>3, <1>4, <1>5

\* A new connection at a cursor that is accounted for.
LEMMA RetryStep ==
  ASSUME StreamInv, NEW c \in Cursors, Retry(c), pc # "scored",
         c # Now => \A t \in 1 .. c : window[t] > 0 \/ t \in missed' \/ t \in keys,
         Orderly /\ c # Now => Fresh(c, window),
         UNCHANGED <<head, keys, legacy, torn, rewound>>, missed \subseteq missed',
         ckpt' = ckpt \/ Flush(last)
  PROVE  StreamInv'
  <1> USE StreamAssumption DEF StreamInv
  <1>1. pc' = "connect" /\ cursor' = c /\ UNCHANGED <<pos, last, window>>
    BY DEF Retry
  <1>2. /\ ckpt' \in Checkpoints
        /\ ckpt' = ckpt \/ (ckpt'.cursor = last /\ ckpt'.window = window)
    BY FlushFacts DEF StreamTypes
  <1>3. StreamTypes'
    BY <1>1, <1>2 DEF StreamTypes
  <1>4. CoverInv'
    BY <1>1, <1>2 DEF CoverInv, CheckpointCovers, Accounted
  <1>5. OnceInv'
    BY <1>1, <1>2 DEF OnceInv, Orderly, Fresh
  <1> QED
    BY <1>3, <1>4, <1>5

LEMMA FailStep ==
  ASSUME StreamInv, NEW c \in Cursors, Fail(c), pc # "scored",
         c # Now => \A t \in 1 .. c : window[t] > 0 \/ t \in missed' \/ t \in keys,
         Orderly /\ c # Now => Fresh(c, window),
         UNCHANGED <<head, keys, legacy, ckpt, torn, rewound>>, missed \subseteq missed'
  PROVE  StreamInv'
  BY RetryStep, GoneStep DEF Fail

-----------------------------------------------------------------------------
(* One lemma per part of the next-state relation                             *)

LEMMA WorldStep ==
  ASSUME StreamInv,
         \/ TradeOccurs \/ TradeAges \/ \E t \in Backfilled : Backfill(t)
         \/ UNCHANGED vars
  PROVE  StreamInv'
  <1> USE StreamAssumption DEF StreamInv
  <1>1. /\ head' = head \/ (head < MaxTrades /\ head' = head + 1)
        /\ keys \subseteq keys'
        /\ UNCHANGED <<ckpt, legacy, pc, cursor, pos, last, window, missed, torn, rewound>>
    BY DEF TradeOccurs, TradeAges, Backfill, vars, process, ghosts, StreamTypes
  <1>2. StreamTypes'
    BY <1>1 DEF StreamTypes
  <1>3. CoverInv'
    BY <1>1 DEF CoverInv, CheckpointCovers, Accounted
  <1>4. OnceInv'
    BY <1>1 DEF OnceInv, Orderly, Fresh, StreamTypes, Trades
  <1> QED
    BY <1>2, <1>3, <1>4

\* Where a start finds its cursor.
LEMMA LoadFacts ==
  ASSUME NEW row \in Cursors \cup {None}, NEW file \in Cursors \cup {None},
         NEW default \in Defaults
  PROVE  /\ LoadCursor(row, file, default) \in Cursors
         /\ row # None => LoadCursor(row, file, default) = row
  BY StreamAssumption DEF LoadCursor, Cursors

LEMMA StartStep ==
  ASSUME StreamInv, NEW reset \in BOOLEAN, NEW default \in Defaults, Start(reset, default)
  PROVE  StreamInv'
  <1> USE StreamAssumption DEF StreamInv
  <1>1. /\ pc' = "connect" /\ window' = ckpt.window /\ last' = cursor'
        /\ cursor' = LoadCursor(ckpt'.cursor, legacy', default)
        /\ UNCHANGED <<head, keys, pos, torn>> /\ SeedHistory
    BY DEF Start
  <1>2. /\ ckpt' \in Checkpoints /\ ckpt'.window = ckpt.window /\ legacy' \in Cursors \cup {None}
        /\ ckpt'.cursor = None \/ ckpt'.cursor = ckpt.cursor
    BY DEF Start, ResetCursor, StreamTypes, Checkpoints
  <1>3. /\ cursor' \in Cursors
        /\ ckpt'.cursor # None => cursor' = ckpt'.cursor
    <2>1. ckpt'.cursor \in Cursors \cup {None}
      BY <1>2 DEF Checkpoints
    <2> QED
      BY <1>1, <1>2, <2>1, LoadFacts
  <1>4. StreamTypes'
    BY <1>1, <1>2, <1>3 DEF StreamTypes, Checkpoints
  <1>5. /\ missed \subseteq missed'
        /\ cursor' # Now => \A t \in 1 .. cursor' : \/ ckpt.window[t] > 0
                                                   \/ t \in missed' \/ t \in keys
    <2>1. CASE ckpt'.cursor # None \/ cursor' = Now
      BY <1>1, <1>2, <1>3, <2>1 DEF SeedHistory, CoverInv, CheckpointCovers
    <2>2. CASE ~(ckpt'.cursor # None \/ cursor' = Now)
      <3>1. /\ missed' = missed \cup {t \in 1 .. cursor' : ckpt.window[t] = 0}
            /\ cursor' \in 0 .. MaxTrades /\ ckpt.window \in [Trades -> Nat]
        BY <1>1, <1>3, <2>2 DEF SeedHistory, StreamTypes, Checkpoints, Cursors
      <3> QED
        BY <3>1 DEF Trades
    <2> QED
      BY <2>1, <2>2
  <1>6. CoverInv'
    BY <1>1, <1>2, <1>5 DEF CoverInv, CheckpointCovers, Accounted
  <1>7. Orderly' => Orderly /\ (cursor' # Now => Fresh(cursor', ckpt.window))
    <2>1. CASE ckpt'.cursor # None \/ cursor' = Now
      BY <1>1, <1>2, <1>3, <2>1 DEF SeedHistory, Orderly, OnceInv
    <2>2. CASE ~(ckpt'.cursor # None \/ cursor' = Now)
      <3>1. rewound' = (rewound \/ \E t \in Trades : t > cursor' /\ ckpt.window[t] > 0)
        BY <1>1, <2>2 DEF SeedHistory
      <3>2. ~rewound' => ~rewound /\ \A t \in Trades : t > cursor' => ~(ckpt.window[t] > 0)
        BY <3>1, Zenon
      <3>3. ckpt.window \in [Trades -> Nat]
        BY DEF StreamTypes, Checkpoints
      <3> QED
        BY <1>1, <3>2, <3>3 DEF Orderly, Fresh
    <2> QED
      BY <2>1, <2>2
  <1>8. OnceInv'
    BY <1>1, <1>2, <1>7 DEF OnceInv, Fresh
  <1> QED
    BY <1>4, <1>6, <1>8

LEMMA SignalStep ==
  ASSUME StreamInv, Shutdown
  PROVE  StreamInv'
  <1> USE StreamAssumption DEF StreamInv
  <1>1. /\ UNCHANGED <<head, keys, legacy, pc, cursor, pos, last, window, missed>>
        /\ Flush(last)
    BY DEF Shutdown
  <1>2. Orderly' => Orderly /\ pc # "scored"
    BY Zenon DEF Shutdown, Orderly
  <1>3. /\ ckpt' \in Checkpoints
        /\ ckpt' = ckpt \/ (ckpt'.cursor = last /\ ckpt'.window = window)
    BY <1>1, FlushFacts DEF StreamTypes
  <1>4. StreamTypes'
    BY <1>1, <1>3 DEF StreamTypes
  <1>5. CoverInv'
    BY <1>1, <1>3 DEF CoverInv, CheckpointCovers, Accounted
  <1>6. OnceInv'
    BY <1>1, <1>2, <1>3 DEF OnceInv, Orderly, Fresh
  <1> QED
    BY <1>4, <1>5, <1>6

LEMMA ConnectStep ==
  ASSUME StreamInv, Connect \/ CursorRejected
  PROVE  StreamInv'
  <1> USE StreamAssumption DEF StreamInv
  <1>1. CASE Connect
    <2>1. /\ pc = "connect" /\ pc' = "stream" /\ pos' = (IF cursor = Now THEN head ELSE cursor)
          /\ missed' = (IF cursor = Now THEN missed \cup {t \in 1 .. head : window[t] = 0}
                                        ELSE missed)
          /\ UNCHANGED <<head, keys, legacy, ckpt, cursor, last, window, torn, rewound>>
      BY <1>1 DEF Connect
    <2>2. StreamTypes'
      BY <2>1 DEF StreamTypes, Cursors
    <2>3. CoverInv'
      <3>1. missed \subseteq missed'
        BY <2>1
      <3>2. Accounted(pos, window)'
        BY <2>1 DEF Accounted, CoverInv, StreamTypes, Trades
      <3> QED
        BY <2>1, <3>1, <3>2 DEF CoverInv, CheckpointCovers, Accounted
    <2>4. OnceInv'
      BY <2>1 DEF OnceInv, Orderly, Fresh
    <2> QED
      BY <2>2, <2>3, <2>4
  <1>2. CASE CursorRejected
    <2>1. /\ pc = "connect" /\ cursor' = Now /\ legacy' = None
          /\ UNCHANGED <<head, keys, ckpt, pc, pos, last, window, missed, torn, rewound>>
      BY <1>2 DEF CursorRejected, ghosts
    <2>2. StreamTypes'
      BY <2>1 DEF StreamTypes, Cursors
    <2>3. CoverInv'
      BY <2>1 DEF CoverInv, CheckpointCovers, Accounted
    <2>4. OnceInv'
      BY <2>1 DEF OnceInv, Orderly, Fresh
    <2> QED
      BY <2>2, <2>3, <2>4
  <1> QED
    BY <1>1, <1>2

\* Ends of the process and of its connection.
LEMMA EndStep ==
  ASSUME StreamInv, Crash \/ ConnectionFails \/ StreamEnds
  PROVE  StreamInv'
  <1>1. CASE Crash
    BY <1>1, GoneStep DEF Crash, ghosts
  <1>2. CASE ConnectionFails
    <2>1. /\ pc \in {"connect", "stream"} /\ Fail(cursor)
          /\ UNCHANGED <<head, keys, legacy, ckpt, missed, torn, rewound>>
      BY <1>2 DEF ConnectionFails, ghosts
    <2> QED
      BY <2>1, FailStep DEF StreamInv, StreamTypes, CoverInv, OnceInv, Orderly, Accounted
  <1>3. CASE StreamEnds
    BY <1>3, GoneStep DEF StreamEnds, ghosts
  <1> QED
    BY <1>1, <1>2, <1>3

\* The next event is the one after pos.
LEMMA EventFacts ==
  ASSUME StreamInv, NEW t \in Trades, Event(t)
  PROVE  /\ pc = "stream" /\ t \in 1 .. head /\ t = pos + 1 /\ t \in Cursors /\ t # Now
         /\ Accounted(t - 1, window)
         /\ Orderly => Fresh(t - 1, window) /\ Fresh(t, window)
  <1>1. pc = "stream" /\ t = pos + 1 /\ t <= head /\ pos \in Nat /\ head \in Nat /\ t \in Nat
    BY StreamAssumption DEF Event, StreamInv, StreamTypes, Trades
  <1>2. t \in Cursors /\ t # Now
    BY StreamAssumption, <1>1 DEF Cursors, Trades
  <1>3. t - 1 = pos
    BY <1>1
  <1>4. Accounted(t - 1, window)
    BY <1>1, <1>3 DEF StreamInv, CoverInv
  <1>5. Orderly => Fresh(pos, window)
    BY <1>1 DEF StreamInv, OnceInv, Orderly
  <1>6. Fresh(pos, window) => Fresh(t, window)
    BY <1>1, StreamAssumption DEF Fresh, Trades
  <1> QED
    BY <1>1, <1>2, <1>3, <1>4, <1>5, <1>6

LEMMA EventStep ==
  ASSUME StreamInv, NEW t \in Trades,
         Garbled(t) \/ ParseFails(t) \/ DedupFails(t) \/ SkipTrade(t)
  PROVE  StreamInv'
  <1> USE StreamAssumption
  <1>0. /\ pc = "stream" /\ t \in 1 .. head /\ t \in Cursors /\ t # Now /\ t = pos + 1
        /\ Accounted(t - 1, window)
        /\ Orderly => Fresh(t, window)
    BY EventFacts DEF Garbled, ParseFails, DedupFails, SkipTrade
  <1>t. head \in 0 .. MaxTrades /\ pos \in 0 .. MaxTrades /\ t \in Nat
    BY DEF StreamInv, StreamTypes, Trades
  <1>1. CASE Garbled(t)
    <2>1. /\ pos' = t /\ missed' = (IF window[t] = 0 THEN missed \cup {t} ELSE missed)
          /\ UNCHANGED <<head, keys, legacy, ckpt, pc, cursor, last, window, torn, rewound>>
      BY <1>1 DEF Garbled
    <2>2. StreamTypes'
      BY <1>0, <1>t, <2>1 DEF StreamInv, StreamTypes, Trades
    <2>3. missed \subseteq missed' /\ Accounted(pos, window)'
      BY <1>0, <1>t, <2>1 DEF Accounted, StreamInv, StreamTypes, Trades
    <2>4. CoverInv'
      BY <1>0, <2>1, <2>3 DEF StreamInv, CoverInv, CheckpointCovers, Accounted
    <2>5. OnceInv'
      BY <1>0, <2>1 DEF StreamInv, OnceInv, Orderly, Fresh
    <2> QED
      BY <2>2, <2>4, <2>5 DEF StreamInv
  <1>2. CASE ParseFails(t)
    <2>1. Fail(cursor) /\ UNCHANGED <<head, keys, legacy, ckpt, missed, torn, rewound>>
      BY <1>2 DEF ParseFails, ghosts
    <2> QED
      BY <1>0, <2>1, FailStep DEF StreamInv, StreamTypes, CoverInv, OnceInv, Orderly, Accounted
  <1>3. CASE DedupFails(t)
    <2>1. /\ Fail(t) /\ missed' = (IF window[t] = 0 THEN missed \cup {t} ELSE missed)
          /\ UNCHANGED <<head, keys, legacy, ckpt, torn, rewound>>
      BY <1>3 DEF DedupFails
    <2>2. \A u \in 1 .. t : window[u] > 0 \/ u \in missed' \/ u \in keys
      BY <1>0, <1>t, <2>1 DEF Accounted, StreamInv, StreamTypes, Trades
    <2>3. missed \subseteq missed'
      BY <2>1
    <2> QED
      BY <1>0, <2>1, <2>2, <2>3, FailStep
  <1>4. CASE SkipTrade(t)
    <2>1. /\ pos' = t /\ cursor' = t /\ Skipped(t)
          /\ missed' = (IF t <= aged /\ window[t] = 0 THEN missed \cup {t} ELSE missed)
          /\ UNCHANGED <<head, keys, legacy, ckpt, pc, last, window, torn, rewound>>
      BY <1>4 DEF SkipTrade
    <2>2. StreamTypes'
      BY <1>0, <1>t, <2>1 DEF StreamInv, StreamTypes, Trades
    <2>3. missed \subseteq missed' /\ Accounted(pos, window)'
      BY <1>0, <1>t, <2>1 DEF Accounted, Skipped, StreamInv, StreamTypes, Trades
    <2>4. CoverInv'
      BY <1>0, <2>1, <2>3 DEF StreamInv, CoverInv, CheckpointCovers, Accounted
    <2>5. OnceInv'
      BY <1>0, <2>1 DEF StreamInv, OnceInv, Orderly, Fresh
    <2> QED
      BY <2>2, <2>4, <2>5 DEF StreamInv
  <1> QED
    BY <1>1, <1>2, <1>3, <1>4

\* A trade is handed to the loop, or left for the next process.
LEMMA YieldStep ==
  ASSUME StreamInv, NEW t \in Trades, Yield(t)
  PROVE  StreamInv'
  <1> USE StreamAssumption
  <1>0. /\ pc = "stream" /\ t \in 1 .. head /\ t \in Cursors /\ t # Now /\ t = pos + 1
        /\ Accounted(t - 1, window)
        /\ Orderly => Fresh(t - 1, window)
    BY EventFacts DEF Yield
  <1>1. CASE stop
    BY <1>0, <1>1, GoneStep DEF Yield, ghosts
  <1>2. CASE ~stop
    <2>1. /\ pc' = "yielded" /\ pos' = t /\ cursor' = t
          /\ UNCHANGED <<head, keys, legacy, ckpt, last, window, missed, torn, rewound>>
      BY <1>2 DEF Yield, ghosts
    <2>2. StreamTypes'
      BY <1>0, <2>1 DEF StreamInv, StreamTypes, Trades
    <2>3. CoverInv'
      BY <1>0, <2>1 DEF StreamInv, CoverInv, CheckpointCovers, Accounted
    <2>4. OnceInv'
      BY <1>0, <2>1 DEF StreamInv, OnceInv, Orderly, Fresh
    <2> QED
      BY <2>2, <2>3, <2>4 DEF StreamInv
  <1> QED
    BY <1>1, <1>2

\* The loop's body.
LEMMA BodyStep ==
  ASSUME StreamInv, Score \/ Advance \/ \E due \in BOOLEAN : Checkpoint(due)
  PROVE  StreamInv'
  <1> USE StreamAssumption
  <1>1. CASE Score
    <2>1. /\ pc = "yielded" /\ pc' = "scored" /\ window' = [window EXCEPT ![cursor] = @ + 1]
          /\ UNCHANGED <<head, keys, legacy, ckpt, cursor, pos, last, missed, torn, rewound>>
      BY <1>1 DEF Score, ghosts
    <2>2. /\ cursor \in Trades /\ cursor \in 1 .. head /\ window \in [Trades -> Nat]
          /\ head \in Nat /\ cursor # Now /\ Trades = 1 .. MaxTrades
      BY <2>1 DEF StreamInv, StreamTypes, Trades
    <2>3. StreamTypes'
      BY <2>1, <2>2 DEF StreamInv, StreamTypes
    <2>4. /\ \A u \in Trades : window'[u] >= window[u]
          /\ window'[cursor] > 0
          /\ \A u \in Trades : u # cursor => window'[u] = window[u]
      BY <2>1, <2>2
    <2>5. CoverInv'
      <3>1. CheckpointCovers'
        BY <2>1 DEF StreamInv, CoverInv, CheckpointCovers
      <3>2. last # Now => Accounted(last, window)'
        BY <2>1, <2>2, <2>4 DEF StreamInv, StreamTypes, CoverInv, Accounted, Cursors
      <3>3. Accounted(cursor, window)'
        BY <2>1, <2>2, <2>4 DEF StreamInv, CoverInv, Accounted
      <3> QED
        BY <2>1, <3>1, <3>2, <3>3 DEF CoverInv
    <2>6. OnceInv'
      <3>1. Orderly => window[cursor] = 0 /\ Fresh(cursor - 1, window)
        BY <2>1, <2>2 DEF StreamInv, OnceInv, Fresh
      <3>2. Orderly => Fresh(cursor, window') /\ Fresh(head, window')
        BY <2>2, <2>4, <3>1 DEF Fresh
      <3>3. Orderly => \A u \in Trades : window'[u] <= 1
        BY <2>1, <2>2, <3>1 DEF StreamInv, OnceInv, Orderly
      <3> QED
        BY <2>1, <3>2, <3>3 DEF StreamInv, OnceInv, Orderly, Fresh
    <2> QED
      BY <2>3, <2>5, <2>6 DEF StreamInv
  <1>2. CASE Advance
    <2>1. /\ pc = "scored" /\ pc' = "advanced" /\ last' = cursor
          /\ UNCHANGED <<head, keys, legacy, ckpt, cursor, pos, window, missed, torn, rewound>>
      BY <1>2 DEF Advance, ghosts
    <2>2. StreamTypes'
      BY <2>1 DEF StreamInv, StreamTypes
    <2>3. CoverInv'
      BY <2>1 DEF StreamInv, CoverInv, CheckpointCovers, Accounted
    <2>4. OnceInv'
      BY <2>1 DEF StreamInv, OnceInv, Orderly, Fresh
    <2> QED
      BY <2>2, <2>3, <2>4 DEF StreamInv
  <1>3. ASSUME NEW due \in BOOLEAN, Checkpoint(due)  PROVE StreamInv'
    <2>1. /\ pc = "advanced" /\ Retry(cursor) /\ (ckpt' = ckpt \/ Flush(last))
          /\ UNCHANGED <<head, keys, legacy, missed, torn, rewound>>
      BY <1>3 DEF Checkpoint, ghosts
    <2> QED
      BY <2>1, RetryStep DEF StreamInv, StreamTypes, CoverInv, OnceInv, Orderly, Accounted
  <1> QED
    BY <1>1, <1>2, <1>3

LEMMA StreamInvInit ==
  ASSUME Init
  PROVE  StreamInv
  <1> USE StreamAssumption
  <1>1. PICK w \in OldWindows : ckpt = [cursor |-> None, window |-> w]
    BY DEF Init
  <1>2. /\ w \in [Trades -> {0, 1}] /\ \A t \in Trades : t > OldTrades => w[t] = 0
        /\ ckpt.cursor = None /\ ckpt.window = w
    BY <1>1 DEF OldWindows
  <1>3. StreamTypes
    BY <1>1, <1>2, EmptyWindows DEF Init, StreamTypes, Checkpoints, Cursors
  <1>4. CoverInv
    BY <1>2 DEF Init, CoverInv, CheckpointCovers
  <1>5. OnceInv
    <2>1. Fresh(head, ckpt.window)
      BY <1>2 DEF Init, Fresh
    <2>2. \A t \in Trades : window[t] = 0 /\ ckpt.window[t] <= 1
      BY <1>2, EmptyWindows DEF Init
    <2> QED
      BY <1>2, <2>1, <2>2, EmptyWindows DEF Init, OnceInv, Fresh
  <1> QED
    BY <1>3, <1>4, <1>5 DEF StreamInv

-----------------------------------------------------------------------------
(* The theorems                                                              *)

\* The inductive invariant of the stream.
THEOREM StreamInvariant == Spec => []StreamInv
  <1>1. ASSUME StreamInv, [Next]_vars  PROVE StreamInv'
    BY <1>1, WorldStep, StartStep, SignalStep, ConnectStep, EndStep, EventStep, YieldStep,
       BodyStep
    DEF Next, Loop, Environment
  <1> QED
    BY <1>1, StreamInvInit, PTL DEF Spec

\* flush saves cursor and windows in one transaction: at no crash, signal,
\* reconnection, reset or start at a token of the file or the settings does the
\* durable cursor pass a trade that the durable windows lack, the stream did not
\* pass over and no historical load has stored.
THEOREM CheckpointCovered == Spec => []CheckpointCovers
  <1>1. StreamInv => CheckpointCovers
    BY DEF StreamInv, CoverInv
  <1> QED
    BY <1>1, StreamInvariant, PTL

\* Replays after crashes and reconnections count no trade twice, unless a signal
\* was handled between scoring a trade and advancing last_cursor, or a process
\* was started at a token of the file or the settings behind the windows.
THEOREM TradesCountedOnce == Spec => []CountedOnce
  <1>1. StreamInv => CountedOnce
    BY DEF StreamInv, OnceInv, Orderly, CountedOnce
  <1> QED
    BY <1>1, StreamInvariant, PTL
=============================================================================
