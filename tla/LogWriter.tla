------------------------------ MODULE LogWriter ------------------------------
(***************************************************************************)
(* The batching usage-log writer (services/log_writer.py): requests put    *)
(* rows on a bounded queue, a loop collects them into batches and flushes  *)
(* each with retries, and stop() drains what is left within a time limit.  *)
(* Every row is to be counted, as written or as dropped, whatever the      *)
(* database does to it.                                                    *)
(*                                                                         *)
(* The loop and stop() never flush at once, since stop() waits for the     *)
(* loop first: one batch is in hand at any time.                           *)
(***************************************************************************)
EXTENDS Integers, Sequences, SequencesExt, FiniteSets

CONSTANTS
  Rows,       \* the usage rows requests settle with
  Refused,    \* the rows the database refuses for what they hold
  MaxQueue,   \* max_queue
  MaxBatch,   \* max_batch
  Retries,    \* retries
  Faults      \* what may go wrong, a subset of FaultKinds

\* down:    a write fails and nothing is written
\* lie:     a commit lands and reports a failure
\* break:   a write raises an error that is none of DATABASE_ERRORS
\* timeout: stop() takes longer than stop_timeout
FaultKinds == {"down", "lie", "break", "timeout"}

ASSUME RowsAssumption ==
  IsFiniteSet(Rows) /\ Refused \subseteq Rows /\ Faults \subseteq FaultKinds
ASSUME SizesAssumption ==
  MaxQueue \in Nat \ {0} /\ MaxBatch \in Nat \ {0} /\ Retries \in Nat

VARIABLES
  weather,   \* which of the faults this life of the process meets
  queue,     \* _queue
  loop,      \* where the loop task is
  stop,      \* where stop() is
  batch,     \* the batch in hand, or what is left of it to salvage
  attempt,   \* failed attempts to write it
  rest,      \* rows _flush_all took and did not flush yet
  taken,     \* _taken
  db,        \* the usage_logs table
  written,   \* the counter of rows written
  dropped,   \* the counter of rows dropped
  \* history
  given,     \* rows handed to put()
  timed,     \* whether stop_timeout passed
  done,      \* rows of the batch in hand that are counted already
  twice      \* rows of salvages that were cut short after they were counted

vars == <<weather, queue, loop, stop, batch, attempt, rest, taken, db, written, dropped,
          given, timed, done, twice>>

-----------------------------------------------------------------------------
LoopPlaces == {"wait", "flush", "salvage", "ended"}
StopPlaces == {"no", "drain", "rest", "next", "flush", "salvage", "count", "stopped", "raised"}
Over == {"stopped", "raised"}

Init ==
  /\ weather \in SUBSET Faults
  /\ queue = <<>> /\ loop = "wait" /\ stop = "no"
  /\ batch = <<>> /\ attempt = 0 /\ rest = <<>> /\ taken = 0
  /\ db = {} /\ written = 0 /\ dropped = 0
  /\ given = {} /\ timed = FALSE /\ done = 0 /\ twice = 0

\* The first rows of s that make up a batch, and the others.
Chunk(s) == SubSeq(s, 1, IF Len(s) <= MaxBatch THEN Len(s) ELSE MaxBatch)
Beyond(s) == SubSeq(s, Len(Chunk(s)) + 1, Len(s))

\* A batch is in hand, of the loop or of stop().
Flushing   == loop = "flush" \/ stop = "flush"
Salvaging  == loop = "salvage" \/ stop = "salvage"

\* put_nowait finds room.
Fits == Len(queue) < MaxQueue

\* A full queue drops the row rather than block the request.
Put(r) ==
  /\ r \notin given /\ stop \notin Over
  /\ given' = given \cup {r}
  /\ IF Fits THEN queue' = Append(queue, r) /\ UNCHANGED dropped
             ELSE dropped' = dropped + 1 /\ UNCHANGED queue
  /\ UNCHANGED <<weather, loop, stop, batch, attempt, rest, taken, db, written,
                 timed, done, twice>>

\* _collect_batch returns rows; they are off the queue and in hand.
Collect ==
  /\ loop = "wait" /\ queue # <<>>
  /\ batch' = Chunk(queue) /\ queue' = Beyond(queue)
  /\ taken' = taken + Len(batch')
  /\ attempt' = 0 /\ loop' = "flush"
  /\ UNCHANGED <<weather, stop, rest, db, written, dropped, given, timed, done, twice>>

-----------------------------------------------------------------------------
(* Flushing a batch: _flush and _salvage.                                  *)

\* The database refuses to insert s: for what a row holds, or because the key
\* of a row is there already.
Refuses(s) == ToSet(s) \cap (Refused \cup db) # {}

\* Mutant of AfterFlush: the loop does not look at _stopping.
AfterFlushOn == IF loop = "ended" THEN stop' = "next" /\ UNCHANGED loop
                ELSE loop' = "wait" /\ UNCHANGED stop

\* Whoever flushed goes on: the loop unless it was told to stop, in which case
\* stop() is done waiting for it, or the next chunk of _flush_all.
AfterFlush ==
  IF loop = "ended" THEN stop' = "next" /\ UNCHANGED loop
  ELSE IF stop = "no" THEN loop' = "wait" /\ UNCHANGED stop
  ELSE loop' = "ended" /\ stop' = "rest"

\* A flush returns: its n rows are no longer in hand.
Finish(n) ==
  /\ taken' = taken - n
  /\ batch' = <<>> /\ attempt' = 0 /\ done' = 0
  /\ AfterFlush

Write ==
  /\ Flushing /\ ~Refuses(batch)
  /\ db' = db \cup ToSet(batch)
  /\ written' = written + Len(batch)
  /\ Finish(Len(batch))
  /\ UNCHANGED <<weather, queue, rest, dropped, given, timed, twice>>

\* Mutant of Refuse: the batch is dropped with its refused row.
RefuseDrops ==
  /\ Flushing /\ Refuses(batch)
  /\ dropped' = dropped + Len(batch)
  /\ Finish(Len(batch))
  /\ UNCHANGED <<weather, queue, rest, db, written, given, timed, twice>>

\* Refused as a whole, the batch is written row by row.
Refuse ==
  /\ Flushing /\ Refuses(batch)
  /\ IF loop = "flush" THEN loop' = "salvage" /\ UNCHANGED stop
                       ELSE stop' = "salvage" /\ UNCHANGED loop
  /\ UNCHANGED <<weather, queue, batch, attempt, rest, taken, db, written,
                 dropped, given, timed, done, twice>>

\* What a failed commit of s leaves: nothing, or all of it.
Fails(s) ==
  \/ "down" \in weather /\ UNCHANGED db
  \/ "lie" \in weather /\ ~Refuses(s) /\ db' = db \cup ToSet(s)

\* A failed write is tried again, up to Retries times.
WriteFails ==
  /\ Flushing /\ Fails(batch)
  /\ \/ /\ attempt < Retries
        /\ attempt' = attempt + 1
        /\ UNCHANGED <<loop, stop, batch, taken, dropped, done>>
     \/ /\ attempt = Retries
        /\ dropped' = dropped + Len(batch)
        /\ Finish(Len(batch))
  /\ UNCHANGED <<weather, queue, rest, written, given, timed, twice>>

\* The counter moves for one row.
CountWritten == written' = written + 1 /\ UNCHANGED dropped

\* Mutant of CountDropped: the row is counted as written however it went.
CountDroppedWritten == written' = written + 1 /\ UNCHANGED dropped

CountDropped == dropped' = dropped + 1 /\ UNCHANGED written

\* The next row of a refused batch is written, refused, or fails. _taken still
\* counts the whole batch.
Salvage ==
  /\ Salvaging
  /\ \/ /\ ~Refuses(<<Head(batch)>>)
        /\ db' = db \cup {Head(batch)}
        /\ CountWritten
     \/ /\ \/ Refuses(<<Head(batch)>>) /\ UNCHANGED db
           \/ Fails(<<Head(batch)>>)
        /\ CountDropped
  /\ \/ /\ Len(batch) > 1
        /\ batch' = Tail(batch) /\ done' = done + 1
        /\ UNCHANGED <<loop, stop, attempt, taken>>
     \/ Len(batch) = 1 /\ Finish(done + 1)
  /\ UNCHANGED <<weather, queue, rest, given, timed, twice>>

\* A flush ends by an exception: _taken goes on counting the whole batch.
CutShort == /\ batch' = <<>> /\ attempt' = 0
            /\ done' = 0 /\ twice' = twice + done

\* An error that _flush does not catch: the loop logs it and goes on without
\* the batch, stop() raises it.
Break ==
  /\ "break" \in weather /\ (Flushing \/ Salvaging)
  /\ CutShort
  /\ IF loop = "ended" THEN stop' = "raised" /\ UNCHANGED loop ELSE AfterFlush
  /\ UNCHANGED <<weather, queue, rest, taken, db, written, dropped, given, timed>>

-----------------------------------------------------------------------------
(* stop().                                                                 *)

\* An idle loop is cancelled, a flush in progress is waited for.
Stop ==
  /\ stop = "no"
  /\ \/ loop = "wait" /\ loop' = "ended" /\ stop' = "rest"
     \/ loop \in {"flush", "salvage"} /\ stop' = "drain" /\ UNCHANGED loop
  /\ UNCHANGED <<weather, queue, batch, attempt, rest, taken, db, written,
                 dropped, given, timed, done, twice>>

\* _flush_all takes all that is queued.
TakeRest ==
  /\ stop = "rest"
  /\ rest' = queue /\ queue' = <<>>
  /\ taken' = taken + Len(queue)
  /\ stop' = "next"
  /\ UNCHANGED <<weather, loop, batch, attempt, db, written, dropped, given,
                 timed, done, twice>>

NextChunk ==
  /\ stop = "next"
  /\ IF rest = <<>> THEN stop' = "count" /\ UNCHANGED <<batch, rest>>
     ELSE batch' = Chunk(rest) /\ rest' = Beyond(rest) /\ stop' = "flush"
  /\ UNCHANGED <<weather, queue, loop, attempt, taken, db, written, dropped,
                 given, timed, done, twice>>

\* Mutant of Lost: only what is still queued.
LostQueued == Len(queue)

\* What stop() counts as dropped.
Lost == Len(queue) + taken

CountLost ==
  /\ stop = "count"
  /\ dropped' = dropped + Lost
  /\ taken' = 0 /\ stop' = "stopped"
  /\ UNCHANGED <<weather, queue, loop, batch, attempt, rest, db, written,
                 given, timed, done, twice>>

\* stop_timeout passes. A flush of the loop is cancelled, and the wait for it
\* ends as if it had finished: the drain goes on. A flush of the drain itself
\* is cancelled and ends the drain. The commit in progress may land.
Timeout ==
  /\ "timeout" \in weather /\ ~timed
  /\ \/ stop = "drain" /\ loop' = "ended" /\ stop' = "rest"
     \/ stop \in {"flush", "salvage"} /\ stop' = "count" /\ UNCHANGED loop
  /\ timed' = TRUE
  /\ \/ UNCHANGED db
     \/ /\ Flushing /\ ~Refuses(batch)
        /\ db' = db \cup ToSet(batch)
     \/ /\ Salvaging /\ ~Refuses(<<Head(batch)>>)
        /\ db' = db \cup {Head(batch)}
  /\ CutShort
  /\ UNCHANGED <<weather, queue, rest, taken, written, dropped, given>>

Flush == Write \/ Refuse \/ WriteFails \/ Salvage \/ Break

Next ==
  \/ \E r \in Rows : Put(r)
  \/ Collect \/ Flush
  \/ Stop \/ TakeRest \/ NextChunk \/ CountLost \/ Timeout

Spec == Init /\ [][Next]_vars

\* Every call of the database returns, and a task that can go on does.
FairSpec ==
  /\ Spec
  /\ WF_vars(Collect) /\ WF_vars(Flush)
  /\ WF_vars(TakeRest) /\ WF_vars(NextChunk) /\ WF_vars(CountLost)

-----------------------------------------------------------------------------
(* Properties.                                                             *)

\* Every variable has its type and the queue its bound.
TypeOK ==
  /\ weather \subseteq Faults
  /\ queue \in Seq(Rows) /\ Len(queue) <= MaxQueue
  /\ loop \in LoopPlaces /\ stop \in StopPlaces
  /\ batch \in Seq(Rows) /\ rest \in Seq(Rows)
  /\ attempt \in 0..Retries /\ taken \in Nat
  /\ db \subseteq Rows /\ written \in Nat /\ dropped \in Nat
  /\ given \subseteq Rows /\ timed \in BOOLEAN
  /\ done \in Nat /\ twice \in Nat

\* When stop() returns, every row a request ever settled with is counted, as
\* written or as dropped, and counted once: whether the queue was full, a flush
\* failed, was refused or broke off, or the time ran out. The exception are the
\* rows of a salvage that was cut short, which are counted a second time.
Accounted ==
  stop = "stopped" => written + dropped = Cardinality(given) + twice

\* The counter of written rows never claims a row the table does not have, also
\* when a commit that landed was reported as failed and is tried again.
WrittenTrue == written <= Cardinality(db)

\* stop() ends, whatever the database does and however many rows arrive.
StopEnds == stop # "no" ~> stop \in Over

\* "When the database refused a row for its contents, the batch is then written
\* row by row, so that row does not take the rest with it" (BatchLogWriter):
\* while the database answers, every row it accepts that is queued before stop()
\* takes the rest is written, with or without a stop.
RowsKept ==
  \A r \in Rows \ Refused :
      weather = {} /\ r \in ToSet(queue) /\ stop \in {"no", "drain", "rest"} ~> r \in db
=============================================================================
