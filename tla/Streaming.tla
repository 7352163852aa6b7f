---------------------------- MODULE Streaming ----------------------------
(***************************************************************************)
(* streaming_generator (streaming.py): one streamed response, from the     *)
(* chunks the provider sends to the events the client reads, and the one   *)
(* settlement callback that closes the request.                            *)
(*                                                                         *)
(* Three parties take steps: the upstream, whose next read is a task of    *)
(* its own; the generator, which runs between two suspensions; and the     *)
(* client, which may leave whenever the generator is suspended at a yield  *)
(* or at an await that is not shielded.  A chunk is known by its number;   *)
(* its kind says what the generator asks of it.                            *)
(***************************************************************************)
EXTENDS Integers, Sequences, SequencesExt

CONSTANTS
    Kinds,       \* set of chunk kinds, each a subset of Marks
    MaxChunks,   \* chunks an upstream sends at most
    MaxBuffer,   \* _MAX_TERMINAL_BUFFER_CHUNKS
    Modes        \* the settings a stream may run with: whether keepalives are on,
                 \* the format has a completes_stream, and it yields the done
                 \* marker after an error

\* A chunk reports usage, may carry the cost, completes the stream so far, or
\* cannot be formatted.
Marks == {"usage", "carrier", "completes", "bad"}

ASSUME StreamAssumption ==
    /\ Kinds \subseteq SUBSET Marks
    /\ MaxChunks \in Nat
    /\ MaxBuffer \in Nat \ {0}
    /\ Modes \subseteq [keepalive : BOOLEAN, checked : BOOLEAN, doneOnError : BOOLEAN]

VARIABLES
    mode,     \* the settings of this stream
    pc,       \* where the generator is
    came,     \* kinds of the chunks the upstream has delivered
    ended,    \* "no", "end" or "fail": how the upstream ended
    taken,    \* how many chunks the generator has taken
    buffer,   \* terminal_buffer
    carrier,  \* number of the cost_carrier, 0 for None
    holding,  \* buffering_terminal
    queue,    \* events of the burst being yielded
    why,      \* which burst that is
    sent,     \* events the client was sent, keepalives aside
    settled,  \* settled
    task,     \* "none", "running" or "done": the settlement callback
    attached, \* number of the chunk the cost was attached to, 0 for none
    calls,    \* callbacks run
    gone      \* whether the client left

vars == <<mode, pc, came, ended, taken, buffer, carrier, holding, queue, why, sent,
          settled, task, attached, calls, gone>>

\* The events that are not chunks; a chunk's event is its number.
Done == -1
Error == -2

\* Points at which leaving reaches the generator.
Suspended == {"reading", "keepalive", "yielded", "settleidle"}

Init ==
    /\ mode \in Modes
    /\ pc = "unread"
    /\ came = <<>> /\ ended = "no" /\ taken = 0
    /\ buffer = <<>> /\ carrier = 0 /\ holding = FALSE
    /\ queue = <<>> /\ why = "plain" /\ sent = <<>>
    /\ settled = FALSE /\ task = "none" /\ attached = 0
    /\ calls = <<>> /\ gone = FALSE

Has(i, mark) == mark \in came[i]
HasUsage == \E i \in 1..taken : Has(i, "usage")
Completed == mode.checked => taken > 0 /\ Has(taken, "completes")
-----------------------------------------------------------------------------
(* The upstream, and the reads of _chunks_or_keepalive. *)

Start ==
    /\ pc = "unread"
    /\ pc' = "reading"
    /\ UNCHANGED <<came, ended, taken, buffer, carrier, holding, queue, why, sent,
                   settled, task, attached, calls, gone, mode>>

\* The pending read ends, whether or not the generator is awaiting it.
Upstream ==
    /\ pc \in {"reading", "keepalive"} /\ taken = Len(came) /\ ended = "no"
    /\ \/ /\ Len(came) < MaxChunks
          /\ \E k \in Kinds : came' = Append(came, k)
          /\ UNCHANGED ended
       \/ ended' \in {"end", "fail"} /\ UNCHANGED came
    /\ UNCHANGED <<pc, taken, buffer, carrier, holding, queue, why, sent, settled,
                   task, attached, calls, gone, mode>>

\* The interval passed: a keepalive is yielded and the read stays pending.
Idle ==
    /\ mode.keepalive /\ pc = "reading" /\ taken = Len(came) /\ ended = "no"
    /\ pc' = "keepalive"
    /\ UNCHANGED <<came, ended, taken, buffer, carrier, holding, queue, why, sent,
                   settled, task, attached, calls, gone, mode>>

\* Mutant of Awake: the read was awaited under the timeout and begun again.
AwakeAgain ==
    /\ pc = "keepalive"
    /\ pc' = "reading"
    /\ taken' = Len(came)
    /\ UNCHANGED <<came, ended, buffer, carrier, holding, queue, why, sent,
                   settled, task, attached, calls, gone, mode>>

Awake ==
    /\ pc = "keepalive"
    /\ pc' = "reading"
    /\ UNCHANGED <<came, ended, taken, buffer, carrier, holding, queue, why, sent,
                   settled, task, attached, calls, gone, mode>>
-----------------------------------------------------------------------------
(* Yielding. *)

\* Starts yielding a burst of events.
Burst(events, reason) ==
    /\ queue' = events
    /\ why' = reason
    /\ pc' = "emit"

\* What the error path yields: the chunks still buffered, then the error.
Failure == buffer \o <<Error>> \o (IF mode.doneOnError THEN <<Done>> ELSE <<>>)

\* An exception: the error path, or, raised within it, out of the generator.
Raise ==
    IF why = "error" THEN pc' = "closing" /\ UNCHANGED <<queue, why>>
                     ELSE Burst(Failure, "error")

Formats(event) == event > 0 => ~Has(event, "bad")

\* Formats and yields the next event of a burst.  The buffer is cleared once
\* its last chunk was yielded, so a chunk that cannot be formatted leaves it
\* as it is.
Emit ==
    /\ pc = "emit"
    /\ IF Formats(Head(queue))
       THEN /\ sent' = Append(sent, Head(queue))
            /\ queue' = Tail(queue)
            /\ buffer' = IF buffer # <<>> /\ Head(queue) = Last(buffer) THEN <<>> ELSE buffer
            /\ pc' = "yielded"
            /\ UNCHANGED why
       ELSE Raise /\ UNCHANGED <<sent, buffer>>
    /\ UNCHANGED <<came, ended, taken, carrier, holding, settled, task, attached,
                   calls, gone, mode>>

\* The carrier that was just taken is held.
Hold ==
    /\ buffer' = <<taken>>
    /\ carrier' = taken
    /\ holding' = TRUE

\* The burst ended: a new carrier is held, a carrier that was not terminal is
\* given up, or the generator goes on.
Resume ==
    /\ pc = "yielded"
    /\ \/ /\ queue # <<>>
          /\ pc' = "emit"
          /\ UNCHANGED <<buffer, carrier, holding, settled>>
       \/ /\ queue = <<>> /\ why = "carrier"
          /\ pc' = "reading" /\ Hold
          /\ UNCHANGED settled
       \/ /\ queue = <<>> /\ why = "plain"
          /\ pc' = "reading"
          /\ UNCHANGED <<buffer, carrier, holding, settled>>
       \/ /\ queue = <<>> /\ why = "terminal"
          /\ pc' = "closing"
          /\ UNCHANGED <<buffer, carrier, holding, settled>>
       \/ /\ queue = <<>> /\ why = "error"
          /\ pc' = "failing" /\ settled' = TRUE
          /\ UNCHANGED <<buffer, carrier, holding>>
    /\ UNCHANGED <<came, ended, taken, queue, why, sent, task, attached, calls, gone, mode>>
-----------------------------------------------------------------------------
(* Taking chunks. *)

\* Mutant of TakeHeld: a carrier that proved not to be terminal stays the one
\* the cost goes on.
TakeHeldKeeping(k) ==
    IF Len(buffer) >= MaxBuffer
    THEN /\ Burst(Append(buffer, k), "plain")
         /\ holding' = FALSE
         /\ UNCHANGED <<carrier, buffer>>
    ELSE /\ buffer' = Append(buffer, k)
         /\ UNCHANGED <<pc, queue, why, carrier, holding>>

\* A chunk behind a carrier is held too, up to the bound.  Past it everything
\* is let go, and the cost has no carrier until another one comes.
TakeHeld(k) ==
    IF Len(buffer) >= MaxBuffer
    THEN /\ Burst(Append(buffer, k), "plain")
         /\ carrier' = 0
         /\ holding' = FALSE
         /\ UNCHANGED buffer
    ELSE /\ buffer' = Append(buffer, k)
         /\ UNCHANGED <<pc, queue, why, carrier, holding>>

\* A later carrier supersedes the one held: what was held is let go first.
TakeCarrier ==
    IF buffer # <<>>
    THEN Burst(buffer, "carrier") /\ UNCHANGED <<buffer, carrier, holding>>
    ELSE /\ buffer' = <<taken + 1>>
         /\ carrier' = taken + 1 /\ holding' = TRUE
         /\ UNCHANGED <<pc, queue, why>>

Take ==
    /\ pc = "reading" /\ taken < Len(came)
    /\ LET k == taken + 1
       IN /\ taken' = k
          /\ \/ Has(k, "carrier") /\ TakeCarrier
             \/ ~Has(k, "carrier") /\ holding /\ TakeHeld(k)
             \/ /\ ~Has(k, "carrier") /\ ~holding
                /\ Burst(<<k>>, "plain")
                /\ UNCHANGED <<buffer, carrier, holding>>
    /\ UNCHANGED <<came, ended, sent, settled, task, attached, calls, gone, mode>>

\* Mutant of TakeEnd: an upstream that ended incomplete is settled.
TakeEndBlind ==
    /\ pc = "reading" /\ taken = Len(came) /\ ended # "no"
    /\ IF ended = "fail"
       THEN Raise /\ UNCHANGED <<settled, task>>
       ELSE /\ settled' = TRUE
            /\ task' = "running"
            /\ pc' = "settling"
            /\ UNCHANGED <<queue, why>>
    /\ UNCHANGED <<came, ended, taken, buffer, carrier, holding, sent, attached,
                   calls, gone, mode>>

\* The upstream ended.  A complete stream counts as settled from here on and
\* its callback begins; any other raises.
TakeEnd ==
    /\ pc = "reading" /\ taken = Len(came) /\ ended # "no"
    /\ IF ended = "fail" \/ ~Completed
       THEN Raise /\ UNCHANGED <<settled, task>>
       ELSE /\ settled' = TRUE
            /\ task' = "running"
            /\ pc' = "settling"
            /\ UNCHANGED <<queue, why>>
    /\ UNCHANGED <<came, ended, taken, buffer, carrier, holding, sent, attached,
                   calls, gone, mode>>
-----------------------------------------------------------------------------
(* Settling. *)

Run(callback) == calls' = Append(calls, callback)

\* The settlement of a complete stream runs to its end, in a task of its own
\* when keepalives are on, shielded otherwise.
Settle ==
    /\ task = "running"
    /\ task' = "done"
    /\ Run(IF HasUsage THEN "complete" ELSE "no_usage")
    /\ UNCHANGED <<pc, came, ended, taken, buffer, carrier, holding, queue, why,
                   sent, settled, attached, gone, mode>>

\* Only on_complete is waited for with keepalives.
Waits == mode.keepalive /\ HasUsage

SettleIdle ==
    /\ Waits /\ pc = "settling" /\ task = "running"
    /\ pc' = "settleidle"
    /\ UNCHANGED <<came, ended, taken, buffer, carrier, holding, queue, why, sent,
                   settled, task, attached, calls, gone, mode>>

SettleAwake ==
    /\ pc = "settleidle"
    /\ pc' = "settling"
    /\ UNCHANGED <<came, ended, taken, buffer, carrier, holding, queue, why, sent,
                   settled, task, attached, calls, gone, mode>>

\* Mutant of Deliver: the done marker does not wait for the settlement.
DeliverEarly ==
    /\ pc = "settling"
    /\ Burst(Append(buffer, Done), "terminal")
    /\ attached' = IF HasUsage THEN carrier ELSE 0
    /\ UNCHANGED <<came, ended, taken, buffer, carrier, holding, sent, settled,
                   task, calls, gone, mode>>

\* The settlement ended.  Its cost is attached to the carrier, unless there is
\* none or the callback failed, which is swallowed; then the buffered suffix
\* and the done marker go out.
Deliver ==
    /\ pc = "settling" /\ task = "done"
    /\ Burst(Append(buffer, Done), "terminal")
    /\ \/ attached' = IF HasUsage THEN carrier ELSE 0
       \/ UNCHANGED attached
    /\ UNCHANGED <<came, ended, taken, buffer, carrier, holding, sent, settled,
                   task, calls, gone, mode>>

\* on_error, shielded.
Fail ==
    /\ pc = "failing"
    /\ Run("error")
    /\ pc' = "closing"
    /\ UNCHANGED <<came, ended, taken, buffer, carrier, holding, queue, why, sent,
                   settled, task, attached, gone, mode>>

\* Mutant of Close: a settlement that was never begun is waited for too.
CloseWaiting ==
    /\ pc = "closing" /\ task = "done"
    /\ UNCHANGED calls
    /\ pc' = "closed"
    /\ UNCHANGED <<came, ended, taken, buffer, carrier, holding, queue, why, sent,
                   settled, task, attached, gone, mode>>

\* The finally of the generator, shielded: a settlement in progress is
\* awaited, a stream not settled is closed by on_incomplete, the upstream is
\* closed.
Close ==
    /\ pc = "closing" /\ task # "running"
    /\ IF settled THEN UNCHANGED calls ELSE Run("incomplete")
    /\ pc' = "closed"
    /\ UNCHANGED <<came, ended, taken, buffer, carrier, holding, queue, why, sent,
                   settled, task, attached, gone, mode>>

\* The client leaves: the generator is closed at the yield it is suspended
\* at, or canceled at an await that is not shielded.
Disconnect ==
    /\ pc \in Suspended \/ (pc = "settling" /\ Waits)
    /\ pc' = "closing" /\ gone' = TRUE
    /\ UNCHANGED <<came, ended, taken, buffer, carrier, holding, queue, why, sent,
                   settled, task, attached, calls, mode>>

\* The client left before the response read anything: a generator that was
\* never started is dropped without running any of its body.
Drop ==
    /\ pc = "unread"
    /\ pc' = "dropped" /\ gone' = TRUE
    /\ UNCHANGED <<came, ended, taken, buffer, carrier, holding, queue, why, sent,
                   settled, task, attached, calls, mode>>

Generator == \/ Start \/ Awake \/ Emit \/ Resume \/ Take \/ TakeEnd
             \/ SettleAwake \/ Deliver \/ Fail \/ Close

Next == Generator \/ Settle \/ Upstream \/ Idle \/ SettleIdle \/ Disconnect \/ Drop

\* The server drives the generator, a settlement is a task of the event loop,
\* and a provider's client ends every read, at the latest by its timeout.
Spec == Init /\ [][Next]_vars
        /\ WF_vars(Generator) /\ WF_vars(Settle) /\ WF_vars(Upstream)
-----------------------------------------------------------------------------
(* Properties. *)

Bursts == {"plain", "carrier", "terminal", "error"}
Events == Nat \union {Done, Error}
Callbacks == {"complete", "no_usage", "error", "incomplete"}

\* Every variable has its type; no more chunks than the bound are held.
TypeOK ==
    /\ mode \in Modes
    /\ pc \in Suspended \union {"unread", "dropped", "emit", "settling", "failing",
                                "closing", "closed"}
    /\ came \in Seq(Kinds) /\ ended \in {"no", "end", "fail"} /\ taken \in 0..Len(came)
    /\ buffer \in Seq(Nat) /\ Len(buffer) <= MaxBuffer
    /\ carrier \in Nat /\ holding \in BOOLEAN
    /\ queue \in Seq(Events) /\ why \in Bursts /\ sent \in Seq(Events)
    /\ settled \in BOOLEAN /\ task \in {"none", "running", "done"}
    /\ attached \in Nat /\ calls \in Seq(Callbacks) /\ gone \in BOOLEAN

Sound == \A i \in 1..Len(came) : ~Has(i, "bad")

\* Unless a chunk cannot be formatted, the client reads the provider's chunks
\* in their order, none twice and none left out, whatever was held behind a
\* carrier or read across a keepalive; all that came precede the done marker
\* and the error event.
Delivered ==
    Sound => \E n \in 0..Len(sent) :
        /\ \A i \in 1..Len(sent) : IF i <= n THEN sent[i] = i ELSE sent[i] < 0
        /\ n < Len(sent) => n = Len(came)

\* What is held, read and sent fits together: chunks wait within their bound and
\* reach the client in order.
Consistent == TypeOK /\ Delivered

\* The request is closed by one callback, however the stream ended and
\* whenever the client left, and never by two.
ClosedOnce ==
    /\ Len(calls) <= 1
    /\ pc = "closed" => Len(calls) = 1

\* The callback is the one that tells what happened: a stream settles as
\* complete only if every chunk of a complete upstream was taken, and a
\* stream nobody left and no chunk of which fails is never put down as
\* abandoned.
OutcomeTrue ==
    calls # <<>> =>
        /\ calls[1] \in {"complete", "no_usage"} =>
              ended = "end" /\ taken = Len(came) /\ Completed
        /\ calls[1] = "complete" <=> HasUsage /\ calls[1] \in {"complete", "no_usage"}
        /\ calls[1] = "incomplete" => gone \/ ~Sound
        /\ calls[1] = "error" => ended = "fail" \/ ~Completed \/ ~Sound

\* The request is closed by one callback, the one that tells what happened.
ClosedTrue == ClosedOnce /\ OutcomeTrue

\* The client is told that a stream is done only when it has been settled.
DoneSettled ==
    Contains(sent, Done) /\ ~Contains(sent, Error) =>
        calls # <<>> /\ calls[1] \in {"complete", "no_usage"}

LastCarrier == Max({0} \union {i \in 1..taken : Has(i, "carrier")})

\* The cost goes on the last carrier of the stream, before that chunk is sent,
\* and never on a chunk the client already has.
CostInTime ==
    [][attached' # attached => /\ attached' = LastCarrier
                               /\ ~Contains(sent, attached')]_vars

\* A stream that was started is closed in the end.
StreamEnds == pc = "reading" ~> pc = "closed"
=============================================================================
