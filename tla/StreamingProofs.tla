-------------------------- MODULE StreamingProofs --------------------------
(***************************************************************************)
(* One streamed response is delivered in order, priced in time and closed   *)
(* once, for any number of chunks, any bound on what is held and any         *)
(* settings.                                                                *)
(*                                                                         *)
(* The argument: what the client has read and what is held or being yielded *)
(* are one run of events, the chunks from the first on and then the marks of *)
(* the burst (Follows, in ShapeInv), and the place of the generator tells    *)
(* which callback ran or is still owed (CallInv) and why (CauseInv).  The    *)
(* one way to a second callback, an error after the settlement, is closed    *)
(* because the chunk that raised it is still held and raises again (Doomed). *)
(***************************************************************************)
EXTENDS Streaming, SequenceTheorems, FiniteSetTheorems, TLAPS

Waiting  == pc \in {"reading", "keepalive"}
Settling == pc \in {"settling", "settleidle"}
Yielding == pc \in {"emit", "yielded"}

\* The i-th event a client is to read when t chunks were taken: the chunks in
\* their order, then the marks of the burst w.
Due(w, t, i) == IF i <= t THEN i
                ELSE IF w = "error" /\ i = t + 1 THEN Error ELSE Done

\* The client read a, b is what comes next, and with it m events are read.
Follows(w, t, a, b, m) ==
    /\ Len(a) + Len(b) = m
    /\ \A i \in 1..Len(a) : a[i] = Due(w, t, i)
    /\ \A i \in 1..Len(b) : b[i] = Due(w, t, Len(a) + i)

\* s is a run of chunks up to the n-th.
Upto(s, n) == \A i \in 1..Len(s) : s[i] = n - Len(s) + i

\* Something is to be yielded.
Filled == pc = "emit" => queue # <<>>

\* A chunk that cannot be formatted is still to be yielded.
Doomed == \E i \in 1..Len(queue) : queue[i] \in 1..Len(came) /\ Has(queue[i], "bad")
Broken == ended = "fail" \/ ~Completed \/ ~Sound
Sent(e) == \E i \in 1..Len(sent) : sent[i] = e

\* Which callback ran.
CallInv ==
    /\ task = "done" => calls = <<IF HasUsage THEN "complete" ELSE "no_usage">>
    /\ task = "running" => calls = <<>> /\ pc # "closed"
    /\ task = "none" =>
         \/ calls = <<>> /\ pc # "closed"
         \/ calls = <<"error">> /\ pc \in {"closing", "closed"}
         \/ calls = <<"incomplete">> /\ pc = "closed"
    /\ settled <=> \/ task # "none"
                   \/ pc = "failing"
                   \/ calls = <<"error">>

\* Why the generator is where it is.
CauseInv ==
    /\ task # "none" => /\ ended = "end" /\ taken = Len(came) /\ Completed
                        /\ Settling \/ Yielding \/ pc \in {"closing", "closed"}
    /\ Settling => task # "none"
    /\ pc = "unread" \/ Waiting \/ Settling => why \in {"plain", "carrier"}
    /\ Yielding /\ why \in {"plain", "carrier"} => task = "none"
    /\ Yielding /\ why = "terminal" => task = "done"
    /\ Yielding /\ why = "error" => Broken /\ (task # "none" => Doomed)
    /\ pc = "failing" \/ calls = <<"error">> => Broken
    /\ pc = "closing" /\ ~settled => gone \/ ~Sound
    /\ calls = <<"incomplete">> => gone \/ ~Sound

\* Chunks are held from the last carrier on.
HeldInv ==
    /\ Follows(why, taken, sent, buffer, taken)
    /\ holding <=> buffer # <<>>
    /\ carrier # 0 <=> buffer # <<>>
    /\ buffer # <<>> => /\ carrier = buffer[1]
                        /\ Has(carrier, "carrier")
                        /\ \A j \in (carrier+1)..taken : ~Has(j, "carrier")

\* A burst of chunks, more than one of them after an overflow.
PlainInv ==
    /\ Follows(why, taken, sent, queue, taken)
    /\ ~holding /\ carrier = 0
    /\ buffer # <<>> => Upto(buffer, taken - 1) /\ Len(queue) >= 2

\* What was held goes out ahead of the carrier just taken.
CarrierInv ==
    /\ taken > 0 /\ Has(taken, "carrier")
    /\ Follows(why, taken, sent, queue, taken - 1)
    /\ Upto(buffer, taken - 1)
    /\ buffer # <<>> <=> queue # <<>>

\* What was held goes out ahead of the done marker.
TerminalInv ==
    /\ Follows(why, taken, sent, queue, taken + 1)
    /\ Upto(buffer, taken)
    /\ buffer # <<>> <=> Len(queue) >= 2
    /\ Len(queue) <= Len(buffer) + 1

\* What was held goes out ahead of the error.
ErrorInv ==
    /\ Sound => /\ taken = Len(came)
                /\ \E m \in Nat : Follows(why, taken, sent, queue, m)
    /\ \A i \in 1..Len(queue) :
          queue[i] = Done => Sent(Error) \/ \E j \in 1..(i-1) : queue[j] = Error

\* What was read, what is held and what is being yielded are one run.
ShapeInv ==
    /\ pc = "unread" \/ Waiting \/ Settling => HeldInv
    /\ Yielding /\ why = "plain" => PlainInv
    /\ Yielding /\ why = "carrier" => CarrierInv
    /\ Yielding /\ why = "terminal" => TerminalInv
    /\ Yielding /\ why = "error" => ErrorInv

\* Only chunks that were taken are held or yielded.
RangeInv ==
    /\ \A i \in 1..Len(buffer) : buffer[i] \in 1..taken
    /\ Yielding => \A i \in 1..Len(queue) : queue[i] <= taken

\* The done marker waits for the settlement, and the cost is attached after it.
MarkInv ==
    /\ Sent(Done) => Sent(Error) \/ task = "done"
    /\ attached # 0 => task = "done" /\ ~Settling

\* The generator may still yield something.
Active == pc = "unread" \/ Waiting \/ Settling \/ Yielding

Inv == /\ TypeOK /\ Filled /\ CallInv /\ CauseInv
       /\ ShapeInv /\ RangeInv /\ MarkInv /\ (~Active => Delivered)
-----------------------------------------------------------------------------
(* Sequences of events, and types.                                         *)

\* A sequence of one event.
LEMMA Single ==
  ASSUME NEW S, NEW x \in S
  PROVE  <<x>> \in Seq(S) /\ Len(<<x>>) = 1 /\ <<x>>[1] = x /\ <<x>> # <<>>
  OBVIOUS

\* The marks are events, and no chunks.
LEMMA EventMarks == Done \in Events /\ Error \in Events /\ Done = 0 - 1 /\ Error = 0 - 2
  BY DEF Events, Done, Error

\* Chunks are events.
LEMMA ChunksAreEvents ==
  ASSUME NEW s \in Seq(Nat)
  PROVE  s \in Seq(Events)
  BY SeqMonotonic DEF Events

\* An event appended to a sequence is its last, and the others stay.
LEMMA Append1 ==
  ASSUME NEW S, NEW s \in Seq(S), NEW x \in S
  PROVE  /\ Append(s, x) \in Seq(S) /\ Append(s, x) # <<>>
         /\ Len(Append(s, x)) = Len(s) + 1
         /\ Append(s, x)[Len(s) + 1] = x
         /\ \A i \in 1..Len(s) : Append(s, x)[i] = s[i]
  OBVIOUS

\* What the error path yields: what is held, the error, and maybe the done marker.
LEMMA FailureIs ==
  ASSUME buffer \in Seq(Nat)
  PROVE  /\ Failure \in Seq(Events) /\ Failure # <<>>
         /\ Len(Failure) = Len(buffer) + IF mode.doneOnError THEN 2 ELSE 1
         /\ \A i \in 1..Len(buffer) : Failure[i] = buffer[i]
         /\ Failure[Len(buffer) + 1] = Error
         /\ mode.doneOnError => Failure[Len(buffer) + 2] = Done
  <1> DEFINE F == buffer \o <<Error>>
             m == IF mode.doneOnError THEN <<Done>> ELSE <<>>
  <1>1. buffer \in Seq(Events) /\ Len(buffer) \in Nat
    BY ChunksAreEvents
  <1>2. /\ <<Error>> \in Seq(Events) /\ Len(<<Error>>) = 1 /\ <<Error>>[1] = Error
        /\ <<Done>> \in Seq(Events) /\ Len(<<Done>>) = 1 /\ <<Done>>[1] = Done
    BY EventMarks, Single
  <1>3. /\ F \in Seq(Events) /\ Len(F) = Len(buffer) + 1
        /\ \A i \in 1..Len(buffer)+1 : F[i] = IF i <= Len(buffer) THEN buffer[i] ELSE <<Error>>[i - Len(buffer)]
    BY <1>1, <1>2, ConcatProperties
  <1>4. m \in Seq(Events) /\ (IF mode.doneOnError THEN Len(m) = 1 /\ m[1] = Done ELSE Len(m) = 0)
    BY <1>2, EmptySeq
  <1> HIDE DEF F, m
  <1>5. /\ F \o m \in Seq(Events) /\ Len(F \o m) = Len(F) + Len(m)
        /\ \A i \in 1..Len(F)+Len(m) : (F \o m)[i] = IF i <= Len(F) THEN F[i] ELSE m[i - Len(F)]
    BY <1>3, <1>4, ConcatProperties
  <1>6. Failure = F \o m
    BY DEF Failure, F, m
  <1>7. Len(Failure) = Len(buffer) + IF mode.doneOnError THEN 2 ELSE 1
    BY <1>1, <1>3, <1>4, <1>5, <1>6
  <1>8. \A i \in 1..Len(buffer) : Failure[i] = buffer[i]
    BY <1>1, <1>3, <1>4, <1>5, <1>6
  <1>9. Failure[Len(buffer) + 1] = Error
    <2>1. Len(buffer) + 1 \in 1..Len(F) + Len(m) /\ Len(buffer) + 1 <= Len(F)
      BY <1>1, <1>3, <1>4
    <2>2. Failure[Len(buffer) + 1] = F[Len(buffer) + 1]
      BY <1>5, <1>6, <2>1
    <2> QED BY <1>1, <1>2, <1>3, <2>2
  <1>10. mode.doneOnError => Failure[Len(buffer) + 2] = Done
    <2> HAVE mode.doneOnError
    <2>0. Len(m) = 1 /\ m[1] = Done
      BY <1>4
    <2>1. /\ Len(buffer) + 2 \in 1..Len(F) + Len(m) /\ ~(Len(buffer) + 2 <= Len(F))
          /\ Len(buffer) + 2 - Len(F) = 1
      BY <1>1, <1>3, <2>0
    <2> QED BY <1>5, <1>6, <2>0, <2>1
  <1>11. Failure \in Seq(Events)
    BY <1>5, <1>6
  <1>12. Failure # <<>>
    BY <1>1, <1>7, EmptySeq
  <1> QED BY <1>7, <1>8, <1>9, <1>10, <1>11, <1>12

\* A stream begins with the types.
LEMMA TypeInit == Init => TypeOK
  <1>1. /\ <<>> \in Seq(Kinds) /\ <<>> \in Seq(Nat) /\ <<>> \in Seq(Events)
        /\ <<>> \in Seq(Callbacks) /\ Len(<<>>) = 0
    OBVIOUS
  <1> SUFFICES ASSUME Init PROVE TypeOK
    OBVIOUS
  <1>2. taken \in 0..Len(came) /\ Len(buffer) <= MaxBuffer
    BY <1>1, StreamAssumption DEF Init
  <1>3. came \in Seq(Kinds) /\ buffer \in Seq(Nat) /\ queue \in Seq(Events)
    BY <1>1 DEF Init
  <1>4. sent \in Seq(Events) /\ calls \in Seq(Callbacks)
    BY <1>1 DEF Init
  <1> QED BY <1>2, <1>3, <1>4 DEF Init, TypeOK, Suspended, Bursts

\* The five things taking a chunk can do.
TakeFirst == /\ Has(taken + 1, "carrier") /\ buffer = <<>>
             /\ buffer' = <<taken + 1>> /\ carrier' = taken + 1 /\ holding' = TRUE
             /\ UNCHANGED <<pc, queue, why>>
TakeNext  == /\ Has(taken + 1, "carrier") /\ buffer # <<>>
             /\ Burst(buffer, "carrier")
             /\ UNCHANGED <<buffer, carrier, holding>>
TakeOver  == /\ ~Has(taken + 1, "carrier") /\ holding /\ Len(buffer) >= MaxBuffer
             /\ Burst(Append(buffer, taken + 1), "plain")
             /\ carrier' = 0 /\ holding' = FALSE /\ UNCHANGED buffer
TakeMore  == /\ ~Has(taken + 1, "carrier") /\ holding /\ ~(Len(buffer) >= MaxBuffer)
             /\ buffer' = Append(buffer, taken + 1)
             /\ UNCHANGED <<pc, queue, why, carrier, holding>>
TakePlain == /\ ~Has(taken + 1, "carrier") /\ ~holding
             /\ Burst(<<taken + 1>>, "plain")
             /\ UNCHANGED <<buffer, carrier, holding>>

\* The five things the loop does with a chunk.
LEMMA TakeCases ==
  ASSUME Take
  PROVE  /\ pc = "reading" /\ taken < Len(came) /\ taken' = taken + 1
         /\ UNCHANGED <<came, ended, sent, settled, task, attached, calls, gone, mode>>
         /\ TakeFirst \/ TakeNext \/ TakeOver \/ TakeMore \/ TakePlain
  BY DEF Take, TakeCarrier, TakeHeld, TakeFirst, TakeNext, TakeOver, TakeMore, TakePlain

\* An exception leads to the error burst, or straight to the end.
LEMMA RaiseType ==
  ASSUME TypeOK, Raise
  PROVE  /\ queue' \in Seq(Events) /\ why' \in Bursts /\ pc' \in {"closing", "emit"}
         /\ Filled'
  <1>1. Failure \in Seq(Events) /\ Failure # <<>>
    BY FailureIs DEF TypeOK
  <1> HIDE DEF Failure
  <1>2. CASE why = "error"
    BY <1>2 DEF TypeOK, Raise, Filled
  <1>3. CASE why # "error"
    BY <1>1, <1>3 DEF Raise, Burst, Bursts, Filled
  <1> QED BY <1>2, <1>3

\* Every step keeps the types, and a burst is never empty.
LEMMA TypeStep ==
  ASSUME TypeOK, Filled, [Next]_vars
  PROVE  TypeOK' /\ Filled'
  <1> USE StreamAssumption
  <1>1. CASE Start \/ Awake \/ Idle \/ SettleIdle \/ SettleAwake \/ Disconnect \/ Drop
    BY <1>1 DEF TypeOK, Start, Awake, Idle, SettleIdle, SettleAwake, Disconnect, Drop, Suspended, Filled
  <1>2. CASE Upstream
    <2>1. CASE UNCHANGED came
      BY <1>2, <2>1 DEF TypeOK, Upstream, Suspended, Filled
    <2>2. ASSUME NEW k \in Kinds, came' = Append(came, k) PROVE TypeOK' /\ Filled'
      <3>1. came' \in Seq(Kinds) /\ Len(came') = Len(came) + 1
        BY <2>2 DEF TypeOK
      <3>2. taken' \in 0..Len(came')
        BY <1>2, <3>1 DEF TypeOK, Upstream
      <3> QED BY <1>2, <3>1, <3>2 DEF TypeOK, Upstream, Suspended, Filled
    <2> QED BY <1>2, <2>1, <2>2 DEF Upstream
  <1>3. CASE Emit
    <2>0. Head(queue) \in Events /\ Tail(queue) \in Seq(Events)
      BY <1>3 DEF TypeOK, Filled, Emit
    <2>1. CASE ~Formats(Head(queue))
      BY <1>3, <2>1, RaiseType DEF TypeOK, Emit, Suspended
    <2>2. CASE Formats(Head(queue))
      <3>1. Append(sent, Head(queue)) \in Seq(Events)
        BY <2>0, Append1 DEF TypeOK
      <3>2. <<>> \in Seq(Nat) /\ Len(<<>>) <= MaxBuffer
        BY EmptySeq
      <3>3. sent' \in Seq(Events) /\ queue' \in Seq(Events) /\ pc' = "yielded" /\ why' = why
        BY <1>3, <2>0, <2>2, <3>1 DEF Emit
      <3>4. buffer' \in Seq(Nat) /\ Len(buffer') <= MaxBuffer
        BY <1>3, <2>2, <3>2 DEF Emit, TypeOK
      <3> QED BY <1>3, <3>3, <3>4 DEF TypeOK, Emit, Suspended, Filled
    <2> QED BY <2>1, <2>2
  <1>4. CASE Resume
    <2>0. taken \in Nat /\ <<taken>> \in Seq(Nat) /\ Len(<<taken>>) = 1
      BY Single DEF TypeOK
    <2>1. CASE Hold
      <3>1. buffer' \in Seq(Nat) /\ Len(buffer') <= MaxBuffer /\ carrier' \in Nat /\ holding' \in BOOLEAN
        BY <2>0, <2>1 DEF Hold
      <3> QED BY <1>4, <3>1 DEF TypeOK, Resume, Suspended, Filled
    <2>2. CASE UNCHANGED <<buffer, carrier, holding>>
      BY <1>4, <2>2 DEF TypeOK, Resume, Suspended, Filled
    <2> QED BY <1>4, <2>1, <2>2 DEF Resume
  <1>5. CASE Take
    <2>1. taken' \in 0..Len(came) /\ taken + 1 \in Nat /\ taken + 1 \in Events
      BY <1>5 DEF TypeOK, Take, Events
    <2>2. buffer \in Seq(Nat) /\ buffer \in Seq(Events) /\ Len(buffer) \in Nat
      BY ChunksAreEvents DEF TypeOK
    <2>3. /\ Append(buffer, taken + 1) \in Seq(Nat)
          /\ Len(Append(buffer, taken + 1)) = Len(buffer) + 1
      BY <2>1, <2>2, Append1
    <2>4. Append(buffer, taken + 1) \in Seq(Events) /\ Append(buffer, taken + 1) # <<>>
      BY <2>1, <2>2, Append1
    <2>5. /\ <<taken + 1>> \in Seq(Nat) /\ <<taken + 1>> \in Seq(Events)
          /\ Len(<<taken + 1>>) = 1 /\ <<taken + 1>> # <<>>
      BY <2>1, Single
    <2>6. /\ buffer' \in Seq(Nat) /\ Len(buffer') <= MaxBuffer /\ carrier' \in Nat
          /\ queue' \in Seq(Events) /\ why' \in Bursts /\ pc' \in {"reading", "emit"}
          /\ pc' = "emit" => queue' # <<>>
      <3>1. CASE TakeFirst
        BY <2>1, <2>5, <3>1, TakeCases, <1>5 DEF TypeOK, TakeFirst
      <3>2. CASE TakeNext
        BY <2>2, <3>2 DEF TypeOK, TakeNext, Burst, Bursts
      <3>3. CASE TakeOver
        BY <2>4, <3>3 DEF TypeOK, TakeOver, Burst, Bursts
      <3>4. CASE TakeMore
        BY <2>2, <2>3, <3>4, TakeCases, <1>5 DEF TypeOK, TakeMore
      <3>5. CASE TakePlain
        BY <2>5, <3>5 DEF TypeOK, TakePlain, Burst, Bursts
      <3> QED BY <1>5, <3>1, <3>2, <3>3, <3>4, <3>5, TakeCases
    <2>7. holding' \in BOOLEAN
      BY <1>5, TakeCases DEF TypeOK, TakeFirst, TakeNext, TakeOver, TakeMore, TakePlain
    <2> QED BY <1>5, <2>1, <2>6, <2>7 DEF TypeOK, Take, Suspended, Filled
  <1>6. CASE TakeEnd
    BY <1>6, RaiseType DEF TypeOK, TakeEnd, Suspended, Filled
  <1>7. CASE Settle
    BY <1>7 DEF TypeOK, Settle, Run, Callbacks, Filled
  <1>8. CASE Deliver
    <2>1. buffer \in Seq(Events) /\ Done \in Events
      BY EventMarks, ChunksAreEvents DEF TypeOK
    <2>2. Append(buffer, Done) \in Seq(Events) /\ Append(buffer, Done) # <<>>
      BY <2>1, Append1
    <2> HIDE DEF Done
    <2>3. attached' \in Nat
      BY <1>8 DEF TypeOK, Deliver
    <2>4. queue' \in Seq(Events) /\ queue' # <<>> /\ why' = "terminal" /\ pc' = "emit"
      BY <1>8, <2>2 DEF Deliver, Burst
    <2> QED BY <1>8, <2>3, <2>4 DEF TypeOK, Deliver, Bursts, Suspended, Filled
  <1>9. CASE Fail \/ Close
    <2>1. Append(calls, "error") \in Seq(Callbacks) /\ Append(calls, "incomplete") \in Seq(Callbacks)
      BY Append1 DEF TypeOK, Callbacks
    <2>2. calls' \in Seq(Callbacks)
      BY <1>9, <2>1 DEF TypeOK, Fail, Close, Run
    <2> QED BY <1>9, <2>2 DEF TypeOK, Fail, Close, Filled
  <1>10. CASE UNCHANGED vars
    BY <1>10 DEF TypeOK, vars, Filled
  <1> QED BY <1>1, <1>2, <1>3, <1>4, <1>5, <1>6, <1>7, <1>8, <1>9, <1>10 DEF Next, Generator
-----------------------------------------------------------------------------
(* Callbacks.                                                              *)

\* What was taken does not change by itself.
LEMMA Kept ==
  ASSUME UNCHANGED <<came, taken, mode, ended>>
  PROVE  /\ HasUsage' <=> HasUsage
         /\ Completed' <=> Completed
         /\ Sound' <=> Sound
         /\ Broken' <=> Broken
         /\ queue' = queue => (Doomed' <=> Doomed)
  BY DEF HasUsage, Completed, Sound, Broken, Doomed, Has

\* Whether usage was reported depends on the chunks taken.
LEMMA KeptIs ==
  ASSUME UNCHANGED <<came, taken>>
  PROVE  HasUsage' = HasUsage
  BY DEF HasUsage, Has

\* An event that cannot be formatted is a chunk that cannot be.
LEMMA BadChunk ==
  ASSUME TypeOK, Filled, RangeInv, pc = "emit", ~Formats(Head(queue))
  PROVE  /\ Head(queue) = queue[1] /\ 1 \in 1..Len(queue)
         /\ Head(queue) \in 1..Len(came) /\ Head(queue) <= taken
         /\ Has(Head(queue), "bad") /\ ~Sound
  <1>1. Head(queue) = queue[1] /\ 1 \in 1..Len(queue) /\ queue[1] \in Events
    BY DEF TypeOK, Filled
  <1>2. Head(queue) > 0 /\ Has(Head(queue), "bad")
    BY DEF Formats
  <1>3. Head(queue) <= taken
    BY <1>1 DEF RangeInv, Yielding
  <1>4. Head(queue) \in 1..Len(came)
    BY <1>1, <1>2, <1>3, EventMarks DEF TypeOK, Events
  <1> QED BY <1>1, <1>2, <1>3, <1>4 DEF Sound

\* Nothing was called before the stream begins.
LEMMA CallInit == Init => CallInv /\ CauseInv
  BY DEF Init, CallInv, CauseInv, Waiting, Settling, Yielding

\* One callback is made, once, at the end of the path it belongs to.
LEMMA CallStep ==
  ASSUME TypeOK, CallInv, CauseInv, [Next]_vars
  PROVE  CallInv'
  <1> USE DEF CallInv
  <1>1. CASE Start \/ Awake \/ Idle \/ SettleIdle \/ SettleAwake \/ Disconnect \/ Drop
    <2>1. UNCHANGED <<came, taken, task, calls, settled>>
      BY <1>1 DEF Start, Awake, Idle, SettleIdle, SettleAwake, Disconnect, Drop
    <2>2. /\ pc' # "closed" /\ pc' # "failing" /\ pc # "closed" /\ pc # "failing" /\ pc # "closing"
      BY <1>1 DEF Start, Awake, Idle, SettleIdle, SettleAwake, Disconnect, Drop, Suspended
    <2> QED BY <2>1, <2>2, KeptIs
  <1>2. CASE Upstream
    <2>1. task = "none" /\ UNCHANGED <<task, pc, calls, settled>>
      BY <1>2 DEF CauseInv, Upstream, Settling, Yielding, TypeOK
    <2> QED BY <2>1
  <1>3. CASE Emit
    <2>1. UNCHANGED <<came, taken, task, calls, settled>> /\ pc = "emit"
          /\ pc' \in {"emit", "yielded", "closing"}
      BY <1>3 DEF Emit, Raise, Burst
    <2> QED BY <2>1, KeptIs
  <1>4. CASE Resume
    <2>1. UNCHANGED <<came, taken, task, calls>> /\ pc = "yielded"
      BY <1>4 DEF Resume
    <2>2. \/ pc' \in {"emit", "reading", "closing"} /\ settled' = settled
          \/ pc' = "failing" /\ settled' = TRUE
      BY <1>4 DEF Resume
    <2>3. task = "none" => calls = <<>>
      BY <2>1
    <2>4. pc' \in {"emit", "reading", "closing", "failing"}
      BY <2>2
    <2>5. CASE pc' = "failing" /\ settled' = TRUE
      BY <2>1, <2>3, <2>5, KeptIs
    <2>6. CASE pc' \in {"emit", "reading", "closing"} /\ settled' = settled
      BY <2>1, <2>3, <2>6, KeptIs
    <2> QED BY <2>2, <2>5, <2>6
  <1>5. CASE Take
    <2>1. task = "none" /\ UNCHANGED <<task, calls, settled>> /\ pc = "reading"
      BY <1>5, TakeCases DEF CauseInv, Settling, Yielding, TypeOK
    <2>2. pc' \in {"reading", "emit"}
      BY <1>5, TakeCases DEF TakeFirst, TakeNext, TakeOver, TakeMore, TakePlain, Burst
    <2> QED BY <2>1, <2>2
  <1>6. CASE TakeEnd
    <2>1. task = "none" /\ UNCHANGED <<came, taken, calls>> /\ pc = "reading" /\ calls = <<>>
      BY <1>6 DEF CauseInv, Settling, Yielding, TypeOK, TakeEnd
    <2>2. \/ settled' = settled /\ task' = task /\ pc' \in {"emit", "closing"}
          \/ settled' = TRUE /\ task' = "running" /\ pc' = "settling"
      BY <1>6 DEF TakeEnd, Raise, Burst
    <2> QED BY <2>1, <2>2
  <1>7. CASE Settle
    <2>1. UNCHANGED <<came, taken, settled, pc>> /\ task = "running" /\ task' = "done"
          /\ calls = <<>> /\ calls' = Append(calls, IF HasUsage THEN "complete" ELSE "no_usage")
      BY <1>7 DEF Settle, Run
    <2>2. calls' = <<IF HasUsage THEN "complete" ELSE "no_usage">>
      BY <2>1
    <2> QED BY <2>1, <2>2, KeptIs
  <1>8. CASE Deliver
    <2>1. UNCHANGED <<came, taken, task, calls, settled>> /\ pc = "settling" /\ pc' = "emit"
      BY <1>8 DEF Deliver, Burst
    <2> QED BY <2>1, KeptIs
  <1>9. CASE Fail
    <2>1. task = "none" /\ calls = <<>> /\ settled
      BY <1>9 DEF Fail, CauseInv, Settling, Yielding, TypeOK
    <2>2. calls' = <<"error">> /\ pc' = "closing" /\ UNCHANGED <<task, settled>>
      BY <1>9, <2>1 DEF Fail, Run
    <2> QED BY <2>1, <2>2
  <1>10. CASE Close
    <2>1. UNCHANGED <<came, taken, task, settled>> /\ pc = "closing" /\ pc' = "closed"
          /\ task # "running"
      BY <1>10 DEF Close
    <2>2. CASE settled
      BY <1>10, <2>1, <2>2, KeptIs DEF Close, TypeOK
    <2>3. CASE ~settled
      <3>1. task = "none" /\ calls = <<>>
        BY <2>1, <2>3 DEF TypeOK
      <3>2. calls' = <<"incomplete">>
        BY <1>10, <2>3, <3>1 DEF Close, Run
      <3> QED BY <2>1, <2>3, <3>1, <3>2
    <2> QED BY <2>2, <2>3
  <1>11. CASE UNCHANGED vars
    BY <1>11, KeptIs DEF vars
  <1> QED BY <1>1, <1>2, <1>3, <1>4, <1>5, <1>6, <1>7, <1>8, <1>9, <1>10, <1>11 DEF Next, Generator

\* A chunk that raises while the settled suffix goes out is still held, so the
\* error path comes upon it again.
LEMMA StillHeld ==
  ASSUME TypeOK, TerminalInv, queue # <<>>, Head(queue) > 0
  PROVE  \E i \in 1..Len(buffer) : buffer[i] = Head(queue)
  <1> DEFINE b == Len(buffer)
             n == Len(queue)
  <1>1. /\ b \in Nat /\ n \in Nat /\ n > 0 /\ Len(sent) \in Nat /\ taken \in Nat
        /\ Len(sent) + n = taken + 1
        /\ Head(queue) = Due(why, taken, Len(sent) + 1)
    BY DEF TypeOK, TerminalInv, Follows
  <1>2. Len(sent) + 1 <= taken /\ Head(queue) = Len(sent) + 1
    BY <1>1, EventMarks DEF Due
  <1>3. n >= 2 /\ n <= b + 1
    BY <1>1, <1>2 DEF TerminalInv
  <1>4. b + 2 - n \in 1..b
    BY <1>1, <1>3
  <1>5. buffer[b + 2 - n] = taken - b + (b + 2 - n)
    BY <1>4 DEF TerminalInv, Upto
  <1> QED BY <1>1, <1>2, <1>4, <1>5

\* What is doomed stays so until the chunk raises.
LEMMA DoomedOn ==
  ASSUME TypeOK, queue # <<>>, Formats(Head(queue)), Doomed,
         queue' = Tail(queue), UNCHANGED came
  PROVE  Doomed'
  <1>1. PICK i \in 1..Len(queue) : queue[i] \in 1..Len(came) /\ Has(queue[i], "bad")
    BY DEF Doomed
  <1>2. Head(queue) = queue[1] /\ Len(queue') = Len(queue) - 1 /\ Len(queue) \in Nat
        /\ \A j \in 1..Len(queue') : queue'[j] = queue[j + 1]
    BY HeadTailProperties DEF TypeOK
  <1>3. i # 1
    BY <1>1, <1>2 DEF Formats
  <1>4. i - 1 \in 1..Len(queue') /\ queue'[i - 1] = queue[i]
    BY <1>2, <1>3
  <1> QED BY <1>1, <1>4 DEF Doomed, Has

\* The error path of a stream that was already settled is doomed.
LEMMA DoomedFirst ==
  ASSUME TypeOK, Filled, RangeInv, TerminalInv, pc = "emit",
         ~Formats(Head(queue)), queue' = Failure, UNCHANGED came
  PROVE  Doomed'
  <1>1. Head(queue) \in 1..Len(came) /\ Has(Head(queue), "bad")
    BY BadChunk
  <1>2. queue # <<>> /\ Head(queue) > 0
    BY <1>1 DEF Filled, TypeOK
  <1>3. PICK i \in 1..Len(buffer) : buffer[i] = Head(queue)
    BY <1>2, StillHeld
  <1>4. i \in 1..Len(Failure) /\ Failure[i] = buffer[i]
    BY FailureIs DEF TypeOK
  <1> QED BY <1>1, <1>3, <1>4 DEF Doomed, Has

\* Where the generator is says why it sends what it sends.
LEMMA CauseStep ==
  ASSUME TypeOK, Filled, CallInv, CauseInv, ShapeInv, RangeInv, [Next]_vars
  PROVE  CauseInv'
  <1> USE DEF CauseInv, Waiting, Settling, Yielding
  <1>1. CASE Start \/ Awake \/ Idle \/ SettleIdle \/ SettleAwake \/ Disconnect \/ Drop
    <2>1. UNCHANGED <<came, taken, mode, ended, task, calls, settled, why, queue>>
      BY <1>1 DEF Start, Awake, Idle, SettleIdle, SettleAwake, Disconnect, Drop
    <2>2. CASE Start \/ Awake \/ Idle
      BY <2>1, <2>2, Kept DEF Start, Awake, Idle, CallInv
    <2>3. CASE SettleIdle \/ SettleAwake
      BY <2>1, <2>3, Kept DEF SettleIdle, SettleAwake, CallInv
    <2>4. CASE Disconnect \/ Drop
      BY <2>1, <2>4, Kept DEF Disconnect, Drop, CallInv, Suspended
    <2> QED BY <1>1, <2>2, <2>3, <2>4
  <1>2. CASE Upstream
    <2>1. task = "none" /\ UNCHANGED <<task, pc, calls, settled, why>> /\ Waiting
      BY <1>2 DEF Upstream, TypeOK
    <2>2. calls = <<>>
      BY <2>1 DEF CallInv
    <2> QED BY <2>1, <2>2
  <1>3. CASE Emit
    <2>0. /\ UNCHANGED <<came, taken, mode, ended, task, calls, settled, gone>> /\ pc = "emit"
          /\ queue # <<>>
      BY <1>3 DEF Emit, Filled
    <2>1. CASE Formats(Head(queue))
      <3>1. pc' = "yielded" /\ why' = why /\ queue' = Tail(queue)
        BY <1>3, <2>1 DEF Emit
      <3>2. why = "error" /\ task # "none" => Doomed'
        BY <2>0, <2>1, <3>1, DoomedOn
      <3> QED BY <2>0, <3>1, <3>2, Kept
    <2>2. CASE ~Formats(Head(queue))
      <3>1. ~Sound
        BY <2>0, <2>2, BadChunk
      <3>2. CASE why = "error"
        BY <1>3, <2>0, <2>2, <3>1, <3>2, Kept DEF Emit, Raise, TypeOK
      <3>3. CASE why # "error"
        <4>1. queue' = Failure /\ why' = "error" /\ pc' = "emit"
          BY <1>3, <2>2, <3>3 DEF Emit, Raise, Burst
        <4>2. task # "none" => Doomed'
          BY <2>0, <2>2, <3>3, <4>1, DoomedFirst DEF ShapeInv, TypeOK, Bursts
        <4>3. Broken'
          BY <2>0, <3>1, Kept DEF Broken
        <4> QED BY <2>0, <4>1, <4>2, <4>3, Kept
      <3> QED BY <3>2, <3>3
    <2> QED BY <2>1, <2>2
  <1>4. CASE Resume
    <2>0. UNCHANGED <<came, taken, mode, ended, task, calls, gone, queue, why>> /\ pc = "yielded"
      BY <1>4 DEF Resume
    <2>1. CASE queue # <<>>
      BY <1>4, <2>0, <2>1, Kept DEF Resume
    <2>2. CASE queue = <<>> /\ why \in {"plain", "carrier"}
      BY <1>4, <2>0, <2>2, Kept DEF Resume
    <2>3. CASE queue = <<>> /\ why = "terminal"
      BY <1>4, <2>0, <2>3, Kept DEF Resume, CallInv
    <2>4. CASE queue = <<>> /\ why = "error"
      <3>1. ~Doomed
        BY <2>4, EmptySeq DEF Doomed
      <3> QED BY <1>4, <2>0, <2>4, <3>1, Kept DEF Resume
    <2> QED BY <2>1, <2>2, <2>3, <2>4 DEF TypeOK, Bursts
  <1>5. CASE Take
    <2>1. task = "none" /\ UNCHANGED <<task, calls, settled>> /\ pc = "reading"
      BY <1>5, TakeCases DEF TypeOK
    <2>2. calls = <<>>
      BY <2>1 DEF CallInv
    <2>3. (pc' = "reading" /\ why' = why) \/ (pc' = "emit" /\ why' \in {"plain", "carrier"})
      BY <1>5, TakeCases DEF TakeFirst, TakeNext, TakeOver, TakeMore, TakePlain, Burst
    <2> QED BY <2>1, <2>2, <2>3
  <1>6. CASE TakeEnd
    <2>1. task = "none" /\ UNCHANGED <<came, taken, mode, ended, calls>> /\ pc = "reading" /\ calls = <<>>
      BY <1>6 DEF TakeEnd, TypeOK, CallInv
    <2>2. CASE ended = "fail" \/ ~Completed
      <3>1. why # "error" /\ pc' = "emit" /\ why' = "error" /\ task' = task
        BY <1>6, <2>1, <2>2 DEF TakeEnd, Raise, Burst
      <3>2. Broken'
        BY <2>1, <2>2, Kept DEF Broken
      <3> QED BY <2>1, <3>1, <3>2
    <2>3. CASE ~(ended = "fail" \/ ~Completed)
      <3>1. ended = "end" /\ taken = Len(came) /\ Completed /\ pc' = "settling" /\ why' = why
            /\ task' = "running"
        BY <1>6, <2>3 DEF TakeEnd, TypeOK
      <3> QED BY <2>1, <3>1, Kept
    <2> QED BY <2>2, <2>3
  <1>7. CASE Settle
    <2>1. UNCHANGED <<came, taken, mode, ended, settled, pc, gone, queue, why>>
          /\ task = "running" /\ task' = "done"
          /\ calls = <<>> /\ calls' = Append(calls, IF HasUsage THEN "complete" ELSE "no_usage")
      BY <1>7 DEF Settle, Run, CallInv
    <2>2. calls' # <<"error">> /\ calls' # <<"incomplete">>
      BY <2>1
    <2> QED BY <2>1, <2>2, Kept
  <1>8. CASE Deliver
    <2>1. UNCHANGED <<came, taken, mode, ended, task, calls, settled>> /\ pc = "settling" /\ pc' = "emit"
          /\ why' = "terminal" /\ task = "done"
      BY <1>8 DEF Deliver, Burst
    <2> QED BY <2>1, Kept DEF CallInv
  <1>9. CASE Fail
    <2>1. task = "none" /\ calls = <<>> /\ settled /\ Broken
      BY <1>9 DEF Fail, TypeOK, CallInv
    <2>2. calls' = <<"error">> /\ pc' = "closing" /\ UNCHANGED <<came, taken, mode, ended, task, settled>>
      BY <1>9, <2>1 DEF Fail, Run
    <2> QED BY <2>1, <2>2, Kept
  <1>10. CASE Close
    <2>1. /\ UNCHANGED <<came, taken, mode, ended, task, settled, gone>> /\ pc = "closing" /\ pc' = "closed"
      BY <1>10 DEF Close
    <2>2. CASE settled
      BY <1>10, <2>1, <2>2, Kept DEF Close
    <2>3. CASE ~settled
      <3>1. task = "none" /\ calls = <<>>
        BY <2>1, <2>3 DEF TypeOK, CallInv
      <3>2. calls' = <<"incomplete">> /\ calls' # <<"error">>
        BY <1>10, <2>3, <3>1 DEF Close, Run
      <3> QED BY <2>1, <2>3, <3>1, <3>2, Kept
    <2> QED BY <2>2, <2>3
  <1>11. CASE UNCHANGED vars
    BY <1>11, Kept DEF vars
  <1> QED BY <1>1, <1>2, <1>3, <1>4, <1>5, <1>6, <1>7, <1>8, <1>9, <1>10, <1>11 DEF Next, Generator
-----------------------------------------------------------------------------
(* Runs of events.                                                         *)

\* Sending the first event of a burst keeps the order.
LEMMA FollowsNext ==
  ASSUME NEW w, NEW t \in Nat, NEW m \in Int, NEW a \in Seq(Events), NEW b \in Seq(Events),
         b # <<>>, Follows(w, t, a, b, m)
  PROVE  /\ Head(b) = Due(w, t, Len(a) + 1)
         /\ Follows(w, t, Append(a, Head(b)), Tail(b), m)
  <1> HIDE DEF Due
  <1> DEFINE c == Append(a, Head(b))
             d == Tail(b)
  <1>1. /\ Head(b) = b[1] /\ Head(b) \in Events /\ d \in Seq(Events) /\ Len(d) = Len(b) - 1
        /\ \A i \in 1..Len(d) : d[i] = b[i + 1]
        /\ Len(a) \in Nat /\ Len(b) \in Nat /\ Len(b) > 0
    BY HeadTailProperties
  <1>2. /\ Len(c) = Len(a) + 1 /\ c[Len(a) + 1] = Head(b)
        /\ \A i \in 1..Len(a) : c[i] = a[i]
    BY <1>1, Append1
  <1> HIDE DEF c, d
  <1>3. Head(b) = Due(w, t, Len(a) + 1)
    BY <1>1 DEF Follows
  <1>4. Len(c) + Len(d) = m
    <2>1. Len(a) + Len(b) = m
      BY DEF Follows
    <2>2. Len(a) \in Nat /\ Len(b) \in Nat /\ Len(c) = Len(a) + 1 /\ Len(d) = Len(b) - 1
      BY <1>1, <1>2
    <2> QED BY <2>1, <2>2
  <1>5. \A i \in 1..Len(c) : c[i] = Due(w, t, i)
    <2> TAKE i \in 1..Len(c)
    <2>1. CASE i = Len(a) + 1
      BY <1>2, <1>3, <2>1
    <2>2. CASE i # Len(a) + 1
      BY <1>1, <1>2, <2>2 DEF Follows
    <2> QED BY <2>1, <2>2
  <1>6. \A i \in 1..Len(d) : d[i] = Due(w, t, Len(c) + i)
    <2> TAKE i \in 1..Len(d)
    <2>1. i + 1 \in 1..Len(b) /\ d[i] = b[i + 1] /\ Len(a) + (i + 1) = Len(c) + i
      BY <1>1, <1>2
    <2> QED BY <2>1 DEF Follows
  <1> QED BY <1>3, <1>4, <1>5, <1>6 DEF Follows, c, d

\* A run of nothing but chunks is one whatever marks would follow.
LEMMA FollowsChunks ==
  ASSUME NEW w, NEW t \in Nat, NEW m \in Int, NEW a \in Seq(Events), NEW b \in Seq(Events),
         m <= t, Follows(w, t, a, b, m)
  PROVE  /\ Len(a) + Len(b) = m
         /\ \A i \in 1..Len(a) : a[i] = i
         /\ \A i \in 1..Len(b) : b[i] = Len(a) + i
         /\ Upto(b, m)
  <1>1. Len(a) \in Nat /\ Len(b) \in Nat /\ Len(a) + Len(b) = m
    BY DEF Follows
  <1>2. \A i \in 1..Len(a) : a[i] = i
    BY <1>1 DEF Follows, Due
  <1>3. \A i \in 1..Len(b) : b[i] = Len(a) + i
    BY <1>1 DEF Follows, Due
  <1>4. Upto(b, m)
    <2>1. m - Len(b) = Len(a)
      BY <1>1
    <2> QED BY <1>3, <2>1 DEF Upto
  <1> QED BY <1>1, <1>2, <1>3, <1>4

\* What is in order up to m stays so when more was taken.
LEMMA FollowsShift ==
  ASSUME NEW w, NEW t \in Nat, NEW m \in Int, NEW a \in Seq(Events), NEW b \in Seq(Events),
         m <= t, Follows(w, t, a, b, m), NEW w2, NEW t2 \in Nat, m <= t2
  PROVE  Follows(w2, t2, a, b, m)
  <1>1. Len(a) \in Nat /\ Len(b) \in Nat /\ Len(a) + Len(b) = m
    BY DEF Follows
  <1>2. \A i \in 1..Len(a) : a[i] = i
    BY FollowsChunks
  <1>3. \A i \in 1..Len(b) : b[i] = Len(a) + i
    BY FollowsChunks
  <1> QED BY <1>1, <1>2, <1>3 DEF Follows, Due

\* A new chunk goes behind those held.
LEMMA FollowsAppend ==
  ASSUME NEW w, NEW t \in Nat, NEW a \in Seq(Events), NEW b \in Seq(Events),
         Follows(w, t, a, b, t),
         NEW w2, NEW t2 \in Nat, t <= t2,
         NEW k \in Nat, k = t + 1, NEW x \in Events, x = Due(w2, t2, k)
  PROVE  Follows(w2, t2, a, Append(b, x), k)
  <1>0. t \in Int /\ t <= t
    OBVIOUS
  <1>1. Follows(w2, t2, a, b, t) /\ Len(a) + Len(b) = t /\ Len(a) \in Nat /\ Len(b) \in Nat
    <2>1. Follows(w2, t2, a, b, t)
      BY <1>0, FollowsShift
    <2> QED BY <2>1 DEF Follows
  <1> DEFINE c == Append(b, x)
  <1>2. /\ Len(c) = Len(b) + 1 /\ c[Len(b) + 1] = x
        /\ \A i \in 1..Len(b) : c[i] = b[i]
    BY Append1
  <1> HIDE DEF c, Due
  <1>3. \A i \in 1..Len(c) : c[i] = Due(w2, t2, Len(a) + i)
    <2> TAKE i \in 1..Len(c)
    <2>1. CASE i = Len(b) + 1
      BY <1>1, <1>2, <2>1
    <2>2. CASE i # Len(b) + 1
      BY <1>1, <1>2, <2>2 DEF Follows
    <2> QED BY <2>1, <2>2
  <1>4. Len(a) + Len(c) = k
    BY <1>1, <1>2
  <1>5. Follows(w2, t2, a, c, k)
    BY <1>1, <1>3, <1>4 DEF Follows
  <1> QED BY <1>5 DEF c

\* A new chunk goes out alone when none is held.
LEMMA FollowsOne ==
  ASSUME NEW w, NEW t \in Nat, NEW a \in Seq(Events), NEW m \in Int,
         Follows(w, t, a, <<>>, m), m <= t,
         NEW w2, NEW t2 \in Nat, NEW k \in Nat, k = m + 1, k <= t2
  PROVE  Follows(w2, t2, a, <<k>>, k)
  <1>1. Len(<<>>) = 0
    BY EmptySeq
  <1>2. Len(a) = m /\ \A i \in 1..Len(a) : a[i] = i
    <2>1. Len(a) + Len(<<>>) = m /\ \A i \in 1..Len(a) : a[i] = Due(w, t, i)
      BY DEF Follows
    <2>2. Len(a) = m
      BY <1>1, <2>1
    <2> QED BY <2>1, <2>2 DEF Due
  <1>3. Len(<<k>>) = 1 /\ <<k>>[1] = k
    OBVIOUS
  <1> QED BY <1>2, <1>3 DEF Follows, Due

\* The error event, and the done marker if any, come behind the chunks held.
LEMMA FollowsFailure ==
  ASSUME TypeOK, NEW w, Follows(w, taken, sent, buffer, taken)
  PROVE  Follows("error", taken, sent, Failure, taken + IF mode.doneOnError THEN 2 ELSE 1)
  <1> DEFINE b == Len(buffer)
  <1>0. buffer \in Seq(Events) /\ buffer \in Seq(Nat) /\ sent \in Seq(Events) /\ taken \in Nat
        /\ b \in Nat /\ Len(sent) \in Nat
    BY ChunksAreEvents DEF TypeOK
  <1>1. /\ Len(sent) + b = taken
        /\ \A i \in 1..Len(sent) : sent[i] = i
        /\ \A i \in 1..b : buffer[i] = Len(sent) + i
    BY <1>0, FollowsChunks
  <1>2. /\ Len(Failure) = b + IF mode.doneOnError THEN 2 ELSE 1
        /\ \A i \in 1..b : Failure[i] = buffer[i]
        /\ Failure[b + 1] = Error
        /\ mode.doneOnError => Failure[b + 2] = Done
    BY <1>0, FailureIs
  <1> HIDE DEF Failure, b
  <1>3. \A i \in 1..Len(Failure) : Failure[i] = Due("error", taken, Len(sent) + i)
    <2> TAKE i \in 1..Len(Failure)
    <2>1. CASE i <= b
      BY <1>0, <1>1, <1>2, <2>1 DEF Due
    <2>2. CASE i = b + 1
      <3>1. Len(sent) + i = taken + 1 /\ Failure[i] = Error
        BY <1>0, <1>1, <1>2, <2>2
      <3> QED BY <1>0, <3>1 DEF Due
    <2>3. CASE i > b + 1
      <3>1. mode.doneOnError /\ i = b + 2
        BY <1>0, <1>2, <2>3
      <3> QED BY <1>0, <1>1, <1>2, <3>1 DEF Due
    <2> QED BY <1>0, <2>1, <2>2, <2>3
  <1>4. \A i \in 1..Len(sent) : sent[i] = Due("error", taken, i)
    BY <1>0, <1>1 DEF Due
  <1> QED BY <1>0, <1>1, <1>2, <1>3, <1>4 DEF Follows

\* A run that ends with what came is what a client is to read.
LEMMA DeliveredBy ==
  ASSUME TypeOK, NEW b \in Seq(Events), NEW m \in Int, Follows(why, taken, sent, b, m),
         m > taken => taken = Len(came)
  PROVE  Delivered
  <1>1. /\ Len(sent) \in Nat /\ Len(b) \in Nat /\ taken \in Nat /\ Len(sent) <= m
        /\ \A i \in 1..Len(sent) : sent[i] = Due(why, taken, i)
    BY DEF TypeOK, Follows
  <1>2. CASE Len(sent) <= taken
    <2>1. \A i \in 1..Len(sent) : sent[i] = i
      BY <1>1, <1>2 DEF Due
    <2> QED BY <1>1, <2>1 DEF Delivered
  <1>3. CASE Len(sent) > taken
    <2>1. taken = Len(came)
      BY <1>1, <1>3
    <2>2. \A i \in 1..Len(sent) : IF i <= taken THEN sent[i] = i ELSE sent[i] < 0
      BY <1>1, EventMarks DEF Due
    <2> QED BY <1>1, <1>3, <2>1, <2>2 DEF Delivered
  <1> QED BY <1>1, <1>2, <1>3

\* While the generator runs, what was sent is in order.
LEMMA ActiveDelivered ==
  ASSUME TypeOK, CauseInv, ShapeInv, Active
  PROVE  Delivered
  <1>0. buffer \in Seq(Events) /\ queue \in Seq(Events) /\ taken \in Nat
    BY ChunksAreEvents DEF TypeOK
  <1>1. CASE pc = "unread" \/ Waiting \/ Settling
    BY <1>0, <1>1, DeliveredBy DEF ShapeInv, HeldInv
  <1>2. CASE Yielding /\ why = "plain"
    BY <1>0, <1>2, DeliveredBy DEF ShapeInv, PlainInv
  <1>3. CASE Yielding /\ why = "carrier"
    BY <1>0, <1>3, DeliveredBy DEF ShapeInv, CarrierInv
  <1>4. CASE Yielding /\ why = "terminal"
    <2>1. taken = Len(came)
      BY <1>4 DEF CauseInv
    <2> QED BY <1>0, <1>4, <2>1, DeliveredBy DEF ShapeInv, TerminalInv
  <1>5. CASE Yielding /\ why = "error"
    <2>1. CASE Sound
      BY <1>0, <1>5, <2>1, DeliveredBy DEF ShapeInv, ErrorInv
    <2>2. CASE ~Sound
      BY <2>2 DEF Delivered
    <2> QED BY <2>1, <2>2
  <1> QED BY <1>1, <1>2, <1>3, <1>4, <1>5 DEF Active, TypeOK, Bursts
-----------------------------------------------------------------------------
(* The steps.                                                              *)

\* Nothing was sent before the stream begins.
LEMMA ShapeInit == Init => ShapeInv /\ RangeInv /\ MarkInv /\ Active
  <1> SUFFICES ASSUME Init PROVE ShapeInv /\ RangeInv /\ MarkInv /\ Active
    OBVIOUS
  <1>1. pc = "unread" /\ sent = <<>> /\ buffer = <<>> /\ taken = 0 /\ carrier = 0 /\ holding = FALSE
        /\ attached = 0 /\ Len(<<>>) = 0
    BY DEF Init
  <1>2. Follows(why, taken, sent, buffer, taken)
    BY <1>1 DEF Follows
  <1>3. ShapeInv
    BY <1>1, <1>2 DEF ShapeInv, HeldInv, Yielding
  <1>4. RangeInv /\ MarkInv /\ Active
    BY <1>1 DEF RangeInv, MarkInv, Sent, Yielding, Active
  <1> QED BY <1>3, <1>4

\* Carrier and buffer stay within the chunks taken.
LEMMA RangeStep ==
  ASSUME TypeOK, Filled, ShapeInv, RangeInv, [Next]_vars
  PROVE  RangeInv'
  <1> USE DEF Yielding
  <1>1. CASE Emit /\ Formats(Head(queue))
    <2>1. queue # <<>> /\ pc = "emit" /\ queue' = Tail(queue) /\ taken' = taken
          /\ (buffer' = buffer \/ buffer' = <<>>)
      BY <1>1 DEF Emit, Filled
    <2>2. Len(Tail(queue)) = Len(queue) - 1 /\ Len(queue) \in Nat
          /\ \A i \in 1..Len(Tail(queue)) : Tail(queue)[i] = queue[i + 1]
      BY <2>1, HeadTailProperties DEF TypeOK
    <2>3. \A i \in 1..Len(queue') : queue'[i] <= taken
      BY <2>1, <2>2 DEF RangeInv
    <2>4. \A i \in 1..Len(buffer') : buffer'[i] \in 1..taken
      BY <2>1, EmptySeq DEF RangeInv
    <2> QED BY <2>1, <2>3, <2>4 DEF RangeInv
  <1>2. ASSUME Raise, UNCHANGED <<buffer, taken>> PROVE RangeInv'
    <2>1. CASE why = "error"
      BY <1>2, <2>1 DEF Raise, RangeInv
    <2>2. CASE why # "error"
      <3>1. queue' = Failure
        BY <1>2, <2>2 DEF Raise, Burst
      <3>2. /\ Len(Failure) = Len(buffer) + IF mode.doneOnError THEN 2 ELSE 1
            /\ \A i \in 1..Len(buffer) : Failure[i] = buffer[i]
            /\ Failure[Len(buffer) + 1] = Error
            /\ mode.doneOnError => Failure[Len(buffer) + 2] = Done
            /\ Len(buffer) \in Nat /\ taken \in Nat
        BY FailureIs DEF TypeOK
      <3> HIDE DEF Failure
      <3>3. ASSUME NEW i \in 1..Len(Failure) PROVE Failure[i] <= taken
        <4>1. CASE i <= Len(buffer)
          BY <3>2, <4>1 DEF RangeInv
        <4>2. CASE i = Len(buffer) + 1
          BY <3>2, <4>2, EventMarks
        <4>3. CASE i > Len(buffer) + 1
          <5>1. mode.doneOnError /\ i = Len(buffer) + 2
            BY <3>2, <4>3
          <5> QED BY <3>2, <5>1, EventMarks
        <4> QED BY <3>2, <4>1, <4>2, <4>3
      <3> QED BY <1>2, <3>1, <3>3 DEF RangeInv
    <2> QED BY <2>1, <2>2
  <1>3. CASE Emit /\ ~Formats(Head(queue))
    BY <1>2, <1>3 DEF Emit
  <1>4. CASE Resume
    <2>1. CASE queue = <<>> /\ why = "carrier"
      <3>1. buffer' = <<taken>> /\ taken' = taken /\ taken \in Nat /\ pc' = "reading"
        BY <1>4, <2>1 DEF Resume, Hold, TypeOK
      <3>2. taken > 0
        BY <1>4, <2>1 DEF Resume, ShapeInv, CarrierInv
      <3>3. \A i \in 1..Len(buffer') : buffer'[i] \in 1..taken'
        BY <3>1, <3>2
      <3> QED BY <3>1, <3>3 DEF RangeInv
    <2>2. CASE UNCHANGED buffer
      BY <1>4, <2>2 DEF Resume, RangeInv
    <2> QED BY <1>4, <2>1, <2>2 DEF Resume
  <1>5. CASE Take
    <2>0. /\ taken' = taken + 1 /\ taken \in Nat /\ buffer \in Seq(Nat) /\ Len(buffer) \in Nat
          /\ taken + 1 \in Nat /\ pc = "reading"
      BY <1>5, TakeCases DEF TypeOK
    <2>1. /\ Len(<<taken + 1>>) = 1 /\ <<taken + 1>>[1] = taken + 1
          /\ Len(Append(buffer, taken + 1)) = Len(buffer) + 1
          /\ Append(buffer, taken + 1)[Len(buffer) + 1] = taken + 1
          /\ \A i \in 1..Len(buffer) : Append(buffer, taken + 1)[i] = buffer[i]
      BY <2>0, Append1
    <2>2. \A i \in 1..Len(buffer) : buffer[i] \in 1..taken'
      BY <2>0 DEF RangeInv
    <2>3. \A i \in 1..Len(Append(buffer, taken + 1)) : Append(buffer, taken + 1)[i] \in 1..taken'
      BY <2>0, <2>1, <2>2
    <2>4. \A i \in 1..Len(<<taken + 1>>) : <<taken + 1>>[i] \in 1..taken'
      BY <2>0, <2>1
    <2>5. \A i \in 1..Len(buffer') : buffer'[i] \in 1..taken'
      BY <1>5, <2>2, <2>3, <2>4, TakeCases DEF TakeFirst, TakeNext, TakeOver, TakeMore, TakePlain
    <2>6. pc' = "emit" => queue' = buffer \/ queue' = Append(buffer, taken + 1) \/ queue' = <<taken + 1>>
      BY <1>5, <2>0, TakeCases DEF TakeFirst, TakeNext, TakeOver, TakeMore, TakePlain, Burst
    <2>7. pc' # "yielded"
      BY <1>5, <2>0, TakeCases DEF TakeFirst, TakeNext, TakeOver, TakeMore, TakePlain, Burst
    <2>8. pc' = "emit" => \A i \in 1..Len(queue') : queue'[i] <= taken'
      <3>1. CASE queue' = buffer
        BY <2>0, <2>2, <3>1
      <3>2. CASE queue' = Append(buffer, taken + 1)
        BY <2>0, <2>3, <3>2
      <3>3. CASE queue' = <<taken + 1>>
        BY <2>0, <2>1, <3>3
      <3> QED BY <2>6, <3>1, <3>2, <3>3
    <2> QED BY <2>5, <2>7, <2>8 DEF RangeInv
  <1>6. CASE TakeEnd
    BY <1>2, <1>6 DEF TakeEnd, RangeInv
  <1>7. CASE Deliver
    <2>0. /\ UNCHANGED <<taken, buffer>> /\ queue' = Append(buffer, Done) /\ buffer \in Seq(Events)
          /\ taken \in Nat /\ Done \in Events /\ Done <= taken /\ Len(buffer) \in Nat
      BY <1>7, ChunksAreEvents, EventMarks DEF Deliver, Burst, TypeOK
    <2>1. /\ Len(Append(buffer, Done)) = Len(buffer) + 1
          /\ Append(buffer, Done)[Len(buffer) + 1] = Done
          /\ \A i \in 1..Len(buffer) : Append(buffer, Done)[i] = buffer[i]
      BY <2>0, Append1
    <2> HIDE DEF Done
    <2>2. \A i \in 1..Len(queue') : queue'[i] <= taken
      BY <2>0, <2>1 DEF RangeInv
    <2> QED BY <2>0, <2>2 DEF RangeInv
  <1>8. CASE \/ Start \/ Awake \/ Idle \/ SettleIdle \/ SettleAwake \/ Disconnect \/ Drop
             \/ Upstream \/ Settle \/ Fail \/ Close \/ UNCHANGED vars
    BY <1>8 DEF RangeInv, Start, Awake, Idle, SettleIdle, SettleAwake, Disconnect, Drop, Upstream,
                Settle, Fail, Close, vars
  <1> QED BY <1>1, <1>3, <1>4, <1>5, <1>6, <1>7, <1>8 DEF Next, Generator

\* Sending an event changes what was sent by that event.
LEMMA SentNow ==
  ASSUME TypeOK, NEW h \in Events, sent' = Append(sent, h), NEW e
  PROVE  Sent(e)' <=> Sent(e) \/ e = h
  <1>1. /\ Len(sent') = Len(sent) + 1 /\ sent'[Len(sent) + 1] = h /\ Len(sent) \in Nat
        /\ \A i \in 1..Len(sent) : sent'[i] = sent[i]
    BY Append1 DEF TypeOK
  <1>2. ASSUME Sent(e) PROVE Sent(e)'
    BY <1>1, <1>2 DEF Sent
  <1>3. ASSUME e = h PROVE Sent(e)'
    <2>1. Len(sent) + 1 \in 1..Len(sent')
      BY <1>1
    <2> QED BY <1>1, <1>3, <2>1 DEF Sent
  <1>4. ASSUME Sent(e)', e # h PROVE Sent(e)
    <2>1. PICK i \in 1..Len(sent') : sent'[i] = e
      BY <1>4 DEF Sent
    <2>2. i \in 1..Len(sent)
      BY <1>1, <1>4, <2>1
    <2> QED BY <1>1, <2>1, <2>2 DEF Sent
  <1> QED BY <1>2, <1>3, <1>4

\* The done marker comes after the settlement or behind an error.
LEMMA MarkStep ==
  ASSUME TypeOK, Filled, CauseInv, ShapeInv, MarkInv, [Next]_vars
  PROVE  MarkInv'
  <1> USE DEF Settling
  <1>1. CASE Emit /\ Formats(Head(queue))
    <2>0. /\ pc = "emit" /\ pc' = "yielded" /\ UNCHANGED <<task, attached>>
          /\ sent' = Append(sent, Head(queue)) /\ queue # <<>>
          /\ queue \in Seq(Events) /\ sent \in Seq(Events) /\ taken \in Nat
      BY <1>1 DEF Emit, Filled, TypeOK
    <2>1. Head(queue) \in Events /\ Len(sent) \in Nat /\ Head(queue) = queue[1] /\ 1 \in 1..Len(queue)
      BY <2>0
    <2>2. Head(queue) = Done => Sent(Error) \/ task = "done"
      <3>1. CASE why = "plain"
        <4>1. Follows(why, taken, sent, queue, taken)
          BY <2>0, <3>1 DEF ShapeInv, PlainInv, Yielding
        <4>2. queue[1] = Len(sent) + 1
          BY <2>0, <2>1, <4>1, FollowsChunks
        <4> QED BY <2>1, <4>2, EventMarks
      <3>2. CASE why = "carrier"
        <4>1. Follows(why, taken, sent, queue, taken - 1)
          BY <2>0, <3>2 DEF ShapeInv, CarrierInv, Yielding
        <4>2. queue[1] = Due(why, taken, Len(sent) + 1) /\ Len(sent) + Len(queue) = taken - 1
          BY <2>1, <4>1 DEF Follows
        <4>3. queue[1] = Len(sent) + 1
          BY <2>0, <2>1, <4>2 DEF Due
        <4> QED BY <2>1, <4>3, EventMarks
      <3>3. CASE why = "terminal"
        BY <2>0, <3>3 DEF CauseInv, Yielding
      <3>4. CASE why = "error"
        BY <2>0, <2>1, <3>4 DEF ShapeInv, ErrorInv, Yielding
      <3> QED BY <3>1, <3>2, <3>3, <3>4 DEF TypeOK, Bursts
    <2>3. (Sent(Error) => Sent(Error)') /\ (Sent(Done)' => Sent(Done) \/ Head(queue) = Done)
      BY <2>0, <2>1, SentNow
    <2>4. Sent(Done)' => Sent(Error)' \/ task' = "done"
      BY <2>0, <2>2, <2>3 DEF MarkInv
    <2> QED BY <2>0, <2>4 DEF MarkInv
  <1>2. CASE \/ Start \/ Awake \/ Idle \/ SettleIdle \/ SettleAwake \/ Disconnect \/ Drop
             \/ Upstream \/ Settle \/ Fail \/ Close \/ UNCHANGED vars
             \/ Resume \/ Take \/ TakeEnd \/ Deliver \/ (Emit /\ ~Formats(Head(queue)))
    <2>1. UNCHANGED sent
      BY <1>2 DEF Start, Awake, Idle, SettleIdle, SettleAwake, Disconnect, Drop, Upstream, Settle, Fail,
                  Close, vars, Resume, Take, TakeEnd, Deliver, Emit
    <2>2. task = "done" => task' = "done"
      BY <1>2 DEF Start, Awake, Idle, SettleIdle, SettleAwake, Disconnect, Drop, Upstream, Settle, Fail,
                  Close, vars, Resume, Take, TakeEnd, Deliver, Emit, CauseInv, Waiting, Yielding
    <2>3. attached' # 0 => task' = "done" /\ ~Settling'
      BY <1>2, <2>2 DEF MarkInv, Start, Awake, Idle, SettleIdle, SettleAwake, Disconnect, Drop, Upstream,
                  Settle, Fail, Close, vars, Resume, Take, TakeEnd, Deliver, Emit, Burst, Raise,
                  CauseInv, Waiting, Yielding, TakeCarrier, TakeHeld
    <2> QED BY <2>1, <2>2, <2>3 DEF MarkInv, Sent
  <1> QED BY <1>1, <1>2 DEF Next, Generator

\* A chunk that was taken is due at its own number.
LEMMA DueChunk ==
  ASSUME NEW w, NEW t \in Nat, NEW i \in Nat
  PROVE  i + 1 <= t => Due(w, t, i + 1) = i + 1
  BY DEF Due

\* One event of a burst goes out: each kind of burst keeps its shape.
LEMMA EmitShape ==
  ASSUME TypeOK, Filled, CauseInv, ShapeInv, Emit, Formats(Head(queue))
  PROVE  ShapeInv'
  <1> DEFINE h == Head(queue)
             n == Len(queue)
             b == Len(buffer)
             s == Len(sent)
  <1>0. /\ pc = "emit" /\ pc' = "yielded" /\ UNCHANGED <<task, why, taken, came, mode, carrier, holding>>
        /\ sent' = Append(sent, h) /\ queue' = Tail(queue)
        /\ buffer' = IF buffer # <<>> /\ h = Last(buffer) THEN <<>> ELSE buffer
    BY DEF Emit
  <1>1. /\ queue # <<>> /\ queue \in Seq(Events) /\ sent \in Seq(Events) /\ taken \in Nat
        /\ buffer \in Seq(Nat) /\ n \in Nat /\ n > 0 /\ b \in Nat /\ s \in Nat
    BY <1>0 DEF Filled, TypeOK
  <1>2. h \in Events /\ h = queue[1] /\ Len(queue') = n - 1 /\ \A i \in 1..Len(queue') : queue'[i] = queue[i + 1]
    BY <1>0, <1>1, HeadTailProperties
  <1>3. ASSUME NEW m \in Int, Follows(why, taken, sent, queue, m)
        PROVE  /\ Follows(why', taken', sent', queue', m)
               /\ h = Due(why, taken, s + 1) /\ s + n = m
    <2>1. Follows(why, taken, Append(sent, Head(queue)), Tail(queue), m) /\ h = Due(why, taken, s + 1)
      BY <1>1, <1>3, FollowsNext
    <2>2. s + n = m
      BY <1>3 DEF Follows
    <2> QED BY <1>0, <2>1, <2>2
  <1>4. ASSUME NEW m \in Int, Upto(buffer, m)
        PROVE  Upto(buffer', m) /\ (buffer # <<>> => b > 0 /\ Last(buffer) = m)
    <2>0. Upto(<<>>, m) /\ (buffer' = buffer \/ buffer' = <<>>)
      BY <1>0 DEF Upto
    <2>1. Upto(buffer', m)
      BY <1>4, <2>0
    <2>2. ASSUME buffer # <<>> PROVE b > 0 /\ Last(buffer) = m
      <3>1. b > 0 /\ b \in 1..Len(buffer) /\ Last(buffer) = buffer[b]
        BY <1>1, <2>2 DEF Last
      <3>2. buffer[b] = m - b + b
        BY <1>4, <3>1 DEF Upto
      <3> QED BY <1>1, <3>1, <3>2
    <2> QED BY <2>1, <2>2
  <1>5. queue' # <<>> <=> n > 1
    <2>1. queue' \in Seq(Events)
      BY <1>0, <1>1, HeadTailProperties
    <2>2. queue' = <<>> <=> Len(queue') = 0
      BY <2>1, EmptySeq
    <2> QED BY <1>1, <1>2, <2>2
  <1> HIDE DEF h, n, b, s
  <1>6. CASE why = "plain"
    <2>1. PlainInv
      BY <1>0, <1>6 DEF ShapeInv, Yielding
    <2>2. Follows(why', taken', sent', queue', taken) /\ h = Due(why, taken, s + 1) /\ s + n = taken
      BY <1>1, <1>3, <2>1 DEF PlainInv
    <2>3. h = s + 1
      <3>1. s + 1 <= taken
        BY <1>1, <2>2
      <3> QED BY <1>1, <2>2, <3>1, DueChunk
    <2>4. ASSUME buffer' # <<>> PROVE Upto(buffer', taken - 1) /\ Len(queue') >= 2
      <3>1. buffer # <<>> /\ h # Last(buffer) /\ Upto(buffer, taken - 1) /\ n >= 2
        BY <1>0, <2>1, <2>4 DEF PlainInv, n
      <3>2. taken - 1 \in Int
        BY <1>1
      <3>3. Upto(buffer', taken - 1) /\ Last(buffer) = taken - 1
        BY <1>4, <3>1, <3>2
      <3>4. n # 2
        BY <1>1, <2>2, <2>3, <3>1, <3>3
      <3> QED BY <1>1, <1>2, <3>1, <3>3, <3>4
    <2>5. PlainInv'
      BY <1>0, <2>1, <2>2, <2>4 DEF PlainInv
    <2> QED BY <1>0, <1>6, <2>5 DEF ShapeInv, Waiting, Settling
  <1>7. CASE why = "carrier"
    <2>1. CarrierInv /\ taken - 1 \in Int
      BY <1>0, <1>1, <1>7 DEF ShapeInv, Yielding
    <2>2. Follows(why', taken', sent', queue', taken - 1) /\ h = Due(why, taken, s + 1) /\ s + n = taken - 1
      BY <1>1, <1>3, <2>1 DEF CarrierInv
    <2>3. h = s + 1
      <3>1. s + 1 <= taken
        BY <1>1, <2>2
      <3> QED BY <1>1, <2>2, <3>1, DueChunk
    <2>4. buffer # <<>> /\ Upto(buffer', taken - 1) /\ Last(buffer) = taken - 1
      BY <1>1, <1>4, <2>1 DEF CarrierInv
    <2>5. h = Last(buffer) <=> n = 1
      BY <1>1, <2>2, <2>3, <2>4
    <2>6. buffer' # <<>> <=> queue' # <<>>
      BY <1>0, <1>1, <1>5, <2>4, <2>5
    <2>7. CarrierInv'
      BY <1>0, <2>1, <2>2, <2>4, <2>6 DEF CarrierInv, Has
    <2> QED BY <1>0, <1>7, <2>7 DEF ShapeInv, Waiting, Settling
  <1>8. CASE why = "terminal"
    <2>1. TerminalInv /\ taken + 1 \in Int
      BY <1>0, <1>1, <1>8 DEF ShapeInv, Yielding
    <2>2. Follows(why', taken', sent', queue', taken + 1) /\ h = Due(why, taken, s + 1) /\ s + n = taken + 1
      BY <1>1, <1>3, <2>1 DEF TerminalInv
    <2>3. /\ Upto(buffer', taken) /\ (buffer # <<>> => Last(buffer) = taken)
          /\ (buffer # <<>> <=> n >= 2) /\ n <= b + 1
      BY <1>1, <1>4, <2>1 DEF TerminalInv, n, b
    <2>4. CASE n = 1
      <3>1. buffer = <<>> /\ buffer' = <<>> /\ Len(queue') = 0
        BY <1>0, <1>1, <1>2, <2>3, <2>4
      <3>2. TerminalInv'
        BY <1>0, <2>2, <2>3, <3>1, EmptySeq DEF TerminalInv
      <3> QED BY <1>0, <1>8, <3>2 DEF ShapeInv, Waiting, Settling
    <2>5. CASE n = 2
      <3>1. buffer # <<>> /\ h = taken
        BY <1>1, <2>2, <2>3, <2>5 DEF Due
      <3>2. buffer' = <<>> /\ Len(queue') = 1 /\ Len(buffer') = 0
        BY <1>0, <1>2, <2>3, <2>5, <3>1
      <3>3. ~(Len(queue') >= 2) /\ Len(queue') <= Len(buffer') + 1
        BY <3>2
      <3>4. Follows(why', taken', sent', queue', taken' + 1) /\ Upto(buffer', taken')
        BY <1>0, <2>2, <2>3
      <3>5. TerminalInv'
        BY <3>2, <3>3, <3>4 DEF TerminalInv
      <3> QED BY <1>0, <1>8, <3>5 DEF ShapeInv, Waiting, Settling
    <2>6. CASE n > 2
      <3>0. s + 1 <= taken /\ s + 1 # taken
        BY <1>1, <2>2, <2>6
      <3>1. buffer # <<>> /\ h = s + 1 /\ h # taken
        BY <1>1, <2>2, <2>3, <2>6, <3>0, DueChunk
      <3>2. buffer' = buffer
        BY <1>0, <2>3, <3>1
      <3>3. Len(queue') >= 2 /\ Len(queue') <= Len(buffer') + 1
        BY <1>1, <1>2, <2>3, <2>6, <3>2 DEF b
      <3>4. TerminalInv'
        BY <1>0, <2>2, <2>3, <3>1, <3>2, <3>3 DEF TerminalInv
      <3> QED BY <1>0, <1>8, <3>4 DEF ShapeInv, Waiting, Settling
    <2> QED BY <1>1, <2>4, <2>5, <2>6
  <1>9. CASE why = "error"
    <2>1. ErrorInv
      BY <1>0, <1>9 DEF ShapeInv, Yielding
    <2>2. Sound' => taken' = Len(came') /\ \E m \in Nat : Follows(why', taken', sent', queue', m)
      BY <1>0, <1>3, <2>1 DEF ErrorInv, Sound, Has
    <2>3. ASSUME NEW i \in 1..Len(queue'), queue'[i] = Done
          PROVE  Sent(Error)' \/ \E j \in 1..(i-1) : queue'[j] = Error
      <3>1. i + 1 \in 1..Len(queue) /\ queue[i + 1] = Done
        BY <1>1, <1>2, <2>3 DEF n
      <3>2. Sent(Error) \/ \E j \in 1..i : queue[j] = Error
        BY <2>1, <3>1 DEF ErrorInv
      <3>3. Sent(Error)' <=> Sent(Error) \/ Error = h
        BY <1>0, <1>2, SentNow
      <3>4. ASSUME NEW j \in 1..i, queue[j] = Error, j # 1
            PROVE  \E l \in 1..(i-1) : queue'[l] = Error
        <4>1. j - 1 \in 1..(i-1) /\ queue'[j - 1] = queue[j]
          BY <1>1, <1>2, <2>3, <3>4
        <4> QED BY <3>4, <4>1
      <3> QED BY <1>2, <3>2, <3>3, <3>4
    <2>4. ErrorInv'
      BY <2>2, <2>3 DEF ErrorInv
    <2> QED BY <1>0, <1>9, <2>4 DEF ShapeInv, Waiting, Settling
  <1> QED BY <1>6, <1>7, <1>8, <1>9 DEF TypeOK, Bursts

\* The error path begins: from a whole run only, unless a chunk raised.
LEMMA RaiseShape ==
  ASSUME TypeOK, Raise, UNCHANGED <<sent, buffer, taken, came, mode>>,
         Sound => why # "error" /\ taken = Len(came) /\ Follows(why, taken, sent, buffer, taken)
  PROVE  ShapeInv'
  <1>1. CASE why = "error"
    BY <1>1 DEF Raise, ShapeInv, Waiting, Settling, Yielding
  <1>2. CASE why # "error"
    <2>1. queue' = Failure /\ why' = "error" /\ pc' = "emit"
      BY <1>2 DEF Raise, Burst
    <2>2. Sound' => taken' = Len(came') /\ \E m \in Nat : Follows(why', taken', sent', queue', m)
      <3> SUFFICES ASSUME Sound'
                   PROVE  taken' = Len(came') /\ \E m \in Nat : Follows(why', taken', sent', queue', m)
        OBVIOUS
      <3>1. Sound
        BY DEF Sound, Has
      <3>2. Follows("error", taken, sent, Failure, taken + IF mode.doneOnError THEN 2 ELSE 1)
        BY <3>1, FollowsFailure
      <3>3. (taken + IF mode.doneOnError THEN 2 ELSE 1) \in Nat
        BY DEF TypeOK
      <3>4. \E m \in Nat : Follows("error", taken, sent, Failure, m)
        BY <3>2, <3>3
      <3> QED BY <2>1, <3>1, <3>4
    <2>3. \A i \in 1..Len(queue') :
             queue'[i] = Done => \E j \in 1..(i-1) : queue'[j] = Error
      <3> DEFINE b == Len(buffer)
      <3>1. /\ Len(Failure) = b + IF mode.doneOnError THEN 2 ELSE 1
            /\ \A i \in 1..b : Failure[i] = buffer[i] /\ buffer[i] \in Nat
            /\ Failure[b + 1] = Error
            /\ b \in Nat
        BY FailureIs DEF TypeOK
      <3> HIDE DEF Failure, b
      <3>2. ASSUME NEW i \in 1..Len(Failure), Failure[i] = Done
            PROVE  b + 1 \in 1..(i-1)
        <4>1. ~(i <= b)
          BY <3>1, <3>2, EventMarks
        <4>2. i # b + 1
          BY <3>1, <3>2, EventMarks
        <4> QED BY <3>1, <4>1, <4>2
      <3> QED BY <2>1, <3>1, <3>2
    <2>4. ErrorInv'
      BY <2>2, <2>3 DEF ErrorInv
    <2> QED BY <2>1, <2>4 DEF ShapeInv, Waiting, Settling
  <1> QED BY <1>1, <1>2

\* Going on after a burst keeps the order.
LEMMA ResumeShape ==
  ASSUME TypeOK, CauseInv, ShapeInv, RangeInv, Resume
  PROVE  ShapeInv'
  <1> USE DEF Waiting, Settling, Yielding
  <1>0. /\ pc = "yielded" /\ UNCHANGED <<came, taken, queue, why, sent, mode>>
        /\ sent \in Seq(Events) /\ taken \in Nat /\ why \in Bursts
        /\ buffer \in Seq(Nat) /\ buffer \in Seq(Events)
    BY ChunksAreEvents DEF Resume, TypeOK
  <1>1. CASE queue # <<>>
    <2>1. pc' = "emit" /\ UNCHANGED <<buffer, carrier, holding>>
      BY <1>1 DEF Resume
    <2>2. /\ why = "plain" => PlainInv'
          /\ why = "carrier" => CarrierInv'
          /\ why = "terminal" => TerminalInv'
          /\ why = "error" => ErrorInv'
      BY <1>0, <2>1 DEF ShapeInv, PlainInv, CarrierInv, TerminalInv, ErrorInv, Sent, Sound, Has
    <2> QED BY <1>0, <2>1, <2>2 DEF ShapeInv
  <1>2. CASE queue = <<>> /\ why = "plain"
    <2>1. pc' = "reading" /\ UNCHANGED <<buffer, carrier, holding>>
      BY <1>2 DEF Resume
    <2>2. PlainInv
      BY <1>0, <1>2 DEF ShapeInv
    <2>3. buffer = <<>>
      BY <1>2, <2>2, EmptySeq DEF PlainInv
    <2>4. Follows(why, taken, sent, buffer, taken)
      BY <1>2, <2>2, <2>3 DEF PlainInv
    <2>5. HeldInv'
      BY <1>0, <2>1, <2>2, <2>3, <2>4 DEF HeldInv, PlainInv
    <2> QED BY <2>1, <2>5 DEF ShapeInv
  <1>3. CASE queue = <<>> /\ why = "carrier"
    <2>1. pc' = "reading" /\ buffer' = <<taken>> /\ carrier' = taken /\ holding' = TRUE
      BY <1>3 DEF Resume, Hold
    <2>2. CarrierInv
      BY <1>0, <1>3 DEF ShapeInv
    <2>3. Follows(why, taken, sent, <<>>, taken - 1) /\ taken > 0 /\ taken - 1 \in Nat
      BY <1>0, <1>3, <2>2 DEF CarrierInv
    <2>5. taken - 1 \in Int /\ taken - 1 <= taken /\ taken = (taken - 1) + 1 /\ taken <= taken
      BY <1>0
    <2>4. Follows(why, taken, sent, <<taken>>, taken)
      BY <1>0, <2>3, <2>5, FollowsOne
    <2>6. buffer'[1] = taken /\ buffer' # <<>>
      BY <2>1
    <2>7. \A j \in (taken+1)..taken : ~Has(j, "carrier")
      BY <1>0
    <2>8. Follows(why', taken', sent', buffer', taken')
      BY <1>0, <2>1, <2>4
    <2>9. Has(carrier, "carrier")' /\ carrier' # 0 /\ carrier' = buffer'[1]
      BY <1>0, <2>1, <2>2, <2>3, <2>6 DEF CarrierInv, Has
    <2>10. \A j \in (carrier'+1)..taken' : ~Has(j, "carrier")'
      BY <1>0, <2>1, <2>7 DEF Has
    <2>11. HeldInv'
      BY <2>1, <2>6, <2>8, <2>9, <2>10 DEF HeldInv
    <2> QED BY <2>1, <2>11 DEF ShapeInv
  <1>4. CASE queue = <<>> /\ why \in {"terminal", "error"}
    BY <1>4 DEF Resume, ShapeInv
  <1> QED BY <1>0, <1>1, <1>2, <1>3, <1>4 DEF Bursts

\* Taking a chunk, sent or held, keeps the order.
LEMMA TakeShape ==
  ASSUME TypeOK, CauseInv, ShapeInv, RangeInv, Take
  PROVE  ShapeInv'
  <1> USE DEF Waiting, Settling, Yielding
  <1> DEFINE k == taken + 1
  <1>0. /\ pc = "reading" /\ UNCHANGED <<came, sent>> /\ taken' = k
        /\ sent \in Seq(Events) /\ taken \in Nat /\ k \in Nat /\ k \in Events /\ taken < k
        /\ buffer \in Seq(Nat) /\ buffer \in Seq(Events) /\ Len(buffer) \in Nat
        /\ TakeFirst \/ TakeNext \/ TakeOver \/ TakeMore \/ TakePlain
    BY TakeCases, ChunksAreEvents DEF TypeOK, Events
  <1>1. HeldInv /\ Follows(why, taken, sent, buffer, taken)
    BY <1>0 DEF ShapeInv, HeldInv
  <1>2. /\ Upto(buffer, taken) /\ Len(sent) + Len(buffer) = taken /\ Len(sent) \in Nat
        /\ \A w2 : Follows(w2, k, sent, buffer, taken)
    <2>1. taken \in Int /\ taken <= taken /\ taken <= k /\ Len(sent) \in Nat
      BY <1>0
    <2> HIDE DEF k
    <2>t. taken \in Nat /\ sent \in Seq(Events) /\ buffer \in Seq(Events)
      BY <1>0
    <2>u. Upto(buffer, taken)
      BY <1>1, <2>1, <2>t, FollowsChunks
    <2>2. Upto(buffer, taken) /\ Len(sent) + Len(buffer) = taken
      BY <1>1, <2>u DEF Follows
    <2>3. ASSUME NEW w2 PROVE Follows(w2, k, sent, buffer, taken)
      BY <1>0, <1>1, <2>1, FollowsShift
    <2> QED BY <2>1, <2>2, <2>3
  <1>3. \A w2 : Follows(w2, k, sent, Append(buffer, k), k)
    <2> TAKE w2
    <2>1. k = Due(w2, k, k) /\ taken <= k /\ k = taken + 1
      BY <1>0 DEF Due
    <2> HIDE DEF k
    <2> QED BY <1>0, <1>1, <2>1, FollowsAppend
  <1>4. ASSUME buffer = <<>> PROVE \A w2 : Follows(w2, k, sent, <<k>>, k)
    <2>1. Follows(why, taken, sent, <<>>, taken)
      BY <1>1, <1>4
    <2>2. taken \in Int /\ taken <= taken /\ k = taken + 1 /\ k <= k
      BY <1>0
    <2> HIDE DEF k
    <2> QED BY <1>0, <2>1, <2>2, FollowsOne
  <1>5. buffer # <<>> => carrier \in 1..taken /\ carrier = buffer[1]
    BY <1>0, <1>1 DEF HeldInv, RangeInv
  <1>6. \A i : Has(i, "carrier")' <=> Has(i, "carrier")
    BY <1>0 DEF Has
  <1>a. k - 1 = taken /\ k > 0 /\ k # 0
    BY <1>0
  <1> HIDE DEF k
  <1>7. CASE TakeFirst
    <2>1. pc' = pc /\ why' = why /\ buffer' = <<k>> /\ carrier' = k /\ holding' = TRUE /\ Has(k, "carrier")
      BY <1>7 DEF TakeFirst, k
    <2>2. Follows(why', taken', sent', buffer', taken')
      BY <1>0, <1>4, <1>7, <2>1 DEF TakeFirst
    <2>3. \A j \in (carrier'+1)..taken' : ~Has(j, "carrier")'
      BY <1>0, <2>1
    <2>4. buffer' # <<>> /\ buffer'[1] = k /\ carrier' # 0
      BY <1>a, <2>1
    <2>5. HeldInv'
      BY <1>6, <2>1, <2>2, <2>3, <2>4 DEF HeldInv
    <2> QED BY <1>0, <2>1, <2>5 DEF ShapeInv
  <1>8. CASE TakeNext
    <2>1. /\ pc' = "emit" /\ why' = "carrier" /\ queue' = buffer /\ buffer' = buffer /\ Has(k, "carrier")
          /\ buffer # <<>>
      BY <1>8 DEF TakeNext, Burst, k
    <2>2. Follows(why', taken', sent', queue', taken' - 1) /\ Upto(buffer', taken' - 1)
      BY <1>0, <1>2, <1>a, <2>1
    <2>3. Has(taken, "carrier")' /\ taken' > 0
      BY <1>0, <1>a, <2>1 DEF Has
    <2>4. CarrierInv'
      BY <2>1, <2>2, <2>3 DEF CarrierInv
    <2> QED BY <2>1, <2>4 DEF ShapeInv
  <1>9. CASE TakeOver
    <2>1. /\ pc' = "emit" /\ why' = "plain" /\ queue' = Append(buffer, k) /\ buffer' = buffer
          /\ carrier' = 0 /\ holding' = FALSE
      BY <1>9 DEF TakeOver, Burst, k
    <2>2. Follows(why', taken', sent', queue', taken') /\ Upto(buffer', taken' - 1)
      BY <1>0, <1>2, <1>3, <1>a, <2>1
    <2>3. buffer # <<>> => Len(buffer) > 0
      BY <1>0
    <2>4. Len(Append(buffer, k)) = Len(buffer) + 1
      BY <1>0, Append1
    <2>5. buffer' # <<>> => Len(queue') >= 2
      BY <1>0, <2>1, <2>3, <2>4
    <2>6. PlainInv'
      BY <2>1, <2>2, <2>5 DEF PlainInv
    <2> QED BY <2>1, <2>6 DEF ShapeInv
  <1>10. CASE TakeMore
    <2>1. /\ pc' = "reading" /\ why' = why /\ buffer' = Append(buffer, k) /\ ~Has(k, "carrier")
          /\ carrier' = carrier /\ holding' = holding /\ holding
      BY <1>0, <1>10 DEF TakeMore, k
    <2>2. Follows(why', taken', sent', buffer', taken')
      BY <1>0, <1>3, <2>1
    <2>3. buffer # <<>> /\ carrier # 0 /\ Has(carrier, "carrier") /\ carrier \in 1..taken
          /\ \A j \in (carrier+1)..taken : ~Has(j, "carrier")
      BY <1>1, <1>5, <2>1 DEF HeldInv
    <2>4. \A j \in (carrier'+1)..taken' : ~Has(j, "carrier")'
      <3> TAKE j \in (carrier'+1)..taken'
      <3>1. j = k \/ j \in (carrier+1)..taken
        BY <1>0, <2>1, <2>3 DEF k
      <3> QED BY <1>6, <2>1, <2>3, <3>1
    <2>5. buffer' # <<>> /\ buffer'[1] = buffer[1]
      <3>1. 1 \in 1..Len(buffer)
        BY <1>0, <2>3
      <3> QED BY <1>0, <2>1, <3>1, Append1
    <2>6. HeldInv'
      BY <1>5, <1>6, <2>1, <2>2, <2>3, <2>4, <2>5 DEF HeldInv
    <2> QED BY <2>1, <2>6 DEF ShapeInv
  <1>11. CASE TakePlain
    <2>1. /\ pc' = "emit" /\ why' = "plain" /\ queue' = <<k>> /\ buffer' = buffer
          /\ carrier' = carrier /\ holding' = holding /\ ~holding
      BY <1>11 DEF TakePlain, Burst, k
    <2>2. buffer = <<>> /\ carrier = 0
      BY <1>1, <2>1 DEF HeldInv
    <2>3. Follows(why', taken', sent', queue', taken')
      BY <1>0, <1>4, <2>1, <2>2
    <2>4. PlainInv'
      BY <2>1, <2>2, <2>3 DEF PlainInv
    <2> QED BY <2>1, <2>4 DEF ShapeInv
  <1> QED BY <1>0, <1>7, <1>8, <1>9, <1>10, <1>11

\* The terminal burst goes behind what was sent.
LEMMA DeliverShape ==
  ASSUME TypeOK, CauseInv, ShapeInv, RangeInv, Deliver
  PROVE  ShapeInv'
  <1>0. /\ pc = "settling" /\ pc' = "emit" /\ why' = "terminal" /\ queue' = Append(buffer, Done)
        /\ UNCHANGED <<taken, buffer, sent>> /\ sent \in Seq(Events) /\ taken \in Nat
        /\ buffer \in Seq(Events) /\ Len(buffer) \in Nat /\ Done \in Events
    BY EventMarks, ChunksAreEvents DEF Deliver, Burst, TypeOK
  <1>1. Follows(why, taken, sent, buffer, taken)
    BY <1>0 DEF ShapeInv, HeldInv, Settling
  <1> DEFINE k == taken + 1
  <1>2. Done = Due("terminal", taken, k) /\ taken <= taken /\ k \in Nat /\ k = taken + 1
    BY <1>0 DEF Due
  <1> HIDE DEF Done, Due, k
  <1>3. Follows("terminal", taken, sent, Append(buffer, Done), k)
    BY <1>0, <1>1, <1>2, FollowsAppend
  <1>4. Upto(buffer, taken)
    <2>1. taken \in Int /\ taken <= taken
      BY <1>0
    <2> QED BY <1>0, <1>1, <2>1, FollowsChunks
  <1>5. Len(Append(buffer, Done)) = Len(buffer) + 1
    BY <1>0, Append1
  <1>6. buffer # <<>> <=> Len(buffer) > 0
    BY <1>0
  <1>7. (buffer' # <<>> <=> Len(queue') >= 2) /\ Len(queue') <= Len(buffer') + 1
    BY <1>0, <1>5, <1>6
  <1>8. TerminalInv'
    BY <1>0, <1>3, <1>4, <1>7 DEF TerminalInv, k
  <1> QED BY <1>0, <1>8 DEF ShapeInv, Waiting, Settling

\* Every step keeps the order of what was sent, is being sent and is held.
LEMMA ShapeStep ==
  ASSUME TypeOK, Filled, CallInv, CauseInv, ShapeInv, RangeInv, [Next]_vars
  PROVE  ShapeInv'
  <1> USE DEF Waiting, Settling, Yielding
  <1>1. CASE Emit
    <2>1. CASE Formats(Head(queue))
      BY <1>1, <2>1, EmitShape
    <2>2. CASE ~Formats(Head(queue))
      <3>1. ~Sound
        BY <1>1, <2>2, BadChunk DEF Emit
      <3> QED BY <1>1, <2>2, <3>1, RaiseShape DEF Emit
    <2> QED BY <2>1, <2>2
  <1>2. CASE TakeEnd
    <2>0. /\ pc = "reading" /\ why # "error" /\ taken = Len(came)
          /\ Follows(why, taken, sent, buffer, taken) /\ HeldInv
          /\ UNCHANGED <<sent, buffer, carrier, holding, taken, came, mode>>
      BY <1>2 DEF TakeEnd, CauseInv, ShapeInv, HeldInv
    <2>1. CASE Raise
      BY <2>0, <2>1, RaiseShape
    <2>2. CASE pc' = "settling" /\ why' = why
      <3>1. HeldInv'
        BY <2>0, <2>2 DEF HeldInv, Has
      <3> QED BY <2>2, <3>1 DEF ShapeInv
    <2> QED BY <1>2, <2>1, <2>2 DEF TakeEnd
  <1>3. CASE Upstream
    <2>0. /\ UNCHANGED <<pc, taken, buffer, carrier, holding, why, sent>> /\ Waiting /\ HeldInv
          /\ taken = Len(came) /\ taken \in Nat
      BY <1>3 DEF Upstream, ShapeInv, TypeOK
    <2>1. \A i \in 1..taken : came'[i] = came[i]
      <3>1. CASE UNCHANGED came
        BY <3>1
      <3>2. ASSUME NEW l \in Kinds, came' = Append(came, l) PROVE \A i \in 1..taken : came'[i] = came[i]
        BY <2>0, <3>2, Append1 DEF TypeOK
      <3> QED BY <1>3, <3>1, <3>2 DEF Upstream
    <2>2. buffer # <<>> => carrier \in 1..taken
      <3>1. buffer # <<>> => 1 \in 1..Len(buffer)
        BY DEF TypeOK
      <3> QED BY <2>0, <3>1 DEF HeldInv, RangeInv
    <2>3. HeldInv'
      BY <2>0, <2>1, <2>2 DEF HeldInv, Has
    <2> QED BY <2>0, <2>3 DEF ShapeInv
  <1>4. CASE Start \/ Awake \/ Idle \/ SettleIdle \/ SettleAwake
    <2>1. HeldInv /\ UNCHANGED <<came, taken, buffer, carrier, holding, why, sent>>
      BY <1>4 DEF Start, Awake, Idle, SettleIdle, SettleAwake, ShapeInv
    <2>2. HeldInv'
      BY <2>1 DEF HeldInv, Has
    <2>3. pc' \in {"reading", "keepalive", "settling", "settleidle"}
      BY <1>4 DEF Start, Awake, Idle, SettleIdle, SettleAwake
    <2> QED BY <2>2, <2>3 DEF ShapeInv
  <1>5. CASE Disconnect \/ Drop \/ Fail \/ Close
    BY <1>5 DEF Disconnect, Drop, Fail, Close, ShapeInv
  <1>6. CASE Settle \/ UNCHANGED vars
    BY <1>6 DEF Settle, vars, ShapeInv, HeldInv, PlainInv, CarrierInv, TerminalInv, ErrorInv, Sent, Sound, Has
  <1> QED BY <1>1, <1>2, <1>3, <1>4, <1>5, <1>6, ResumeShape, TakeShape, DeliverShape DEF Next, Generator
-----------------------------------------------------------------------------
(* The theorems.                                                           *)

\* The invariant holds at the beginning.
LEMMA InvInit == Init => Inv
  <1> SUFFICES ASSUME Init PROVE Inv
    OBVIOUS
  <1>1. Filled
    BY DEF Init, Filled
  <1> QED BY <1>1, TypeInit, CallInit, ShapeInit DEF Inv

\* In every state of it the client has the chunks in order.
LEMMA InvDelivered == Inv => Delivered
  BY ActiveDelivered DEF Inv

\* Once the generator yields no more, nothing is sent and nothing comes.
LEMMA DeliveredStep ==
  ASSUME Inv, [Next]_vars, ~Active'
  PROVE  Delivered'
  <1>1. UNCHANGED <<sent, came>>
    <2> USE DEF Active, Waiting, Settling, Yielding
    <2>1. CASE Emit
      BY <2>1 DEF Emit
    <2>2. CASE Upstream
      BY <2>2 DEF Upstream
    <2>3. CASE \/ Start \/ Awake \/ Idle \/ SettleIdle \/ SettleAwake \/ Disconnect \/ Drop
               \/ Settle \/ Fail \/ Close \/ UNCHANGED vars \/ Resume \/ Take \/ TakeEnd \/ Deliver
      BY <2>3 DEF Start, Awake, Idle, SettleIdle, SettleAwake, Disconnect, Drop, Settle, Fail,
                  Close, vars, Resume, Take, TakeEnd, Deliver
    <2> QED BY <2>1, <2>2, <2>3 DEF Next, Generator
  <1>2. Delivered
    BY InvDelivered
  <1> QED BY <1>1, <1>2 DEF Delivered, Sound, Has

\* Every step keeps it.
LEMMA InvStep == Inv /\ [Next]_vars => Inv'
  <1> SUFFICES ASSUME Inv, [Next]_vars PROVE Inv'
    OBVIOUS
  <1>1. TypeOK /\ Filled /\ CallInv /\ CauseInv /\ ShapeInv /\ RangeInv /\ MarkInv
    BY DEF Inv
  <1>2. TypeOK' /\ Filled'
    BY <1>1, TypeStep
  <1>3. CallInv' /\ CauseInv'
    BY <1>1, CallStep, CauseStep
  <1>4. ShapeInv' /\ RangeInv' /\ MarkInv'
    BY <1>1, ShapeStep, RangeStep, MarkStep
  <1>5. ~Active' => Delivered'
    BY DeliveredStep
  <1> QED BY <1>2, <1>3, <1>4, <1>5 DEF Inv

\* So it holds in every state.
LEMMA InvAlways == Spec => []Inv
  BY InvInit, InvStep, PTL DEF Spec

\* However many chunks come, whatever is held behind a carrier and whenever the
\* client leaves, streaming_generator keeps its types and the bound on
\* terminal_buffer, and a client reads the provider's chunks in their order,
\* none twice and none left out, before the done marker and the error event.
THEOREM ConsistentCorrect == Spec => []Consistent
  <1>1. Inv => Consistent
    BY InvDelivered DEF Inv, Consistent
  <1> QED BY <1>1, InvAlways, PTL

\* A stream that was read is closed by one settlement callback, the one that
\* tells what happened, whenever the client leaves and whichever chunk raises.
THEOREM ClosedCorrect == Spec => []ClosedTrue
  <1>1. Inv => ClosedTrue
    <2> SUFFICES ASSUME Inv PROVE ClosedTrue
      OBVIOUS
    <2>0. TypeOK /\ CallInv /\ CauseInv
      BY DEF Inv
    <2> DEFINE u == IF HasUsage THEN "complete" ELSE "no_usage"
    <2>1. \/ calls = <<>> /\ pc # "closed"
          \/ calls = <<"error">>
          \/ calls = <<"incomplete">>
          \/ task = "done" /\ calls = <<u>>
      BY <2>0 DEF TypeOK, CallInv
    <2>2. CASE calls = <<>> /\ pc # "closed"
      BY <2>2 DEF ClosedTrue, ClosedOnce, OutcomeTrue
    <2>3. CASE calls = <<"error">>
      <3>1. Broken /\ Len(calls) = 1 /\ calls[1] = "error"
        BY <2>0, <2>3 DEF CauseInv
      <3> QED BY <3>1 DEF ClosedTrue, ClosedOnce, OutcomeTrue, Broken
    <2>4. CASE calls = <<"incomplete">>
      <3>1. (gone \/ ~Sound) /\ Len(calls) = 1 /\ calls[1] = "incomplete"
        BY <2>0, <2>4 DEF CauseInv
      <3> QED BY <3>1 DEF ClosedTrue, ClosedOnce, OutcomeTrue
    <2>5. CASE task = "done" /\ calls = <<u>>
      <3>1. ended = "end" /\ taken = Len(came) /\ Completed
        BY <2>0, <2>5 DEF CauseInv
      <3>2. Len(calls) = 1 /\ calls[1] = u
        BY <2>5
      <3>3. (u = "complete" /\ HasUsage) \/ (u = "no_usage" /\ ~HasUsage)
        OBVIOUS
      <3> QED BY <3>1, <3>2, <3>3 DEF ClosedTrue, ClosedOnce, OutcomeTrue
    <2> QED BY <2>1, <2>2, <2>3, <2>4, <2>5
  <1> QED BY <1>1, InvAlways, PTL

\* The done marker of streaming_generator reaches a client only behind an error
\* event or after the settlement callback ran.
THEOREM DoneCorrect == Spec => []DoneSettled
  <1>1. Inv => DoneSettled
    <2> SUFFICES ASSUME Inv, Contains(sent, Done), ~Contains(sent, Error)
                 PROVE  calls # <<>> /\ calls[1] \in {"complete", "no_usage"}
      BY DEF DoneSettled
    <2>1. Sent(Done) /\ ~Sent(Error)
      BY DEF Contains, Sent
    <2>2. task = "done"
      BY <2>1 DEF Inv, MarkInv
    <2>3. calls = <<IF HasUsage THEN "complete" ELSE "no_usage">>
      BY <2>2 DEF Inv, CallInv
    <2> QED BY <2>3
  <1> QED BY <1>1, InvAlways, PTL

\* The cost of a stream is attached to its last carrier, the cost_carrier that
\* still waits in terminal_buffer, and never to a chunk the client has.
THEOREM CostCorrect == Spec => CostInTime
  <1>1. Inv /\ [Next]_vars =>
          [attached' # attached => attached' = LastCarrier /\ ~Contains(sent, attached')]_vars
    <2> SUFFICES ASSUME Inv, Next, attached' # attached
                 PROVE  attached' = LastCarrier /\ ~Contains(sent, attached')
      BY DEF vars
    <2>1. Deliver
      BY DEF Next, Generator, Start, Awake, Idle, SettleIdle, SettleAwake, Disconnect, Drop, Settle, Fail,
             Close, Resume, Take, TakeEnd, Emit, Upstream
    <2>2. pc = "settling" /\ Settling
      BY <2>1 DEF Deliver, Settling
    <2>3. attached = 0
      BY <2>2 DEF Inv, MarkInv
    <2>4. attached' = carrier /\ carrier # 0
      BY <2>1, <2>3 DEF Deliver
    <2>5. HeldInv /\ TypeOK /\ RangeInv
      BY <2>2 DEF Inv, ShapeInv
    <2>6. buffer # <<>> /\ carrier = buffer[1] /\ Has(carrier, "carrier")
          /\ \A j \in (carrier+1)..taken : ~Has(j, "carrier")
      BY <2>4, <2>5 DEF HeldInv
    <2>7. /\ buffer \in Seq(Events) /\ sent \in Seq(Events) /\ taken \in Nat /\ 1 \in 1..Len(buffer)
          /\ taken \in Int /\ taken <= taken /\ Len(sent) \in Nat
          /\ Follows(why, taken, sent, buffer, taken)
      BY <2>5, <2>6, ChunksAreEvents DEF TypeOK, HeldInv
    <2>8. carrier \in 1..taken
      BY <2>5, <2>6, <2>7 DEF RangeInv
    <2>9. LastCarrier = carrier
      <3> DEFINE S == {0} \union {i \in 1..taken : Has(i, "carrier")}
      <3>1. carrier \in S /\ \A y \in S : carrier >= y
        BY <2>6, <2>7, <2>8
      <3>2. ASSUME NEW x \in S, \A y \in S : x >= y PROVE x = carrier
        <4>1. x >= carrier /\ carrier >= x /\ x \in Int /\ carrier \in Int
          BY <2>7, <2>8, <3>1, <3>2
        <4> QED BY <4>1
      <3> HIDE DEF S
      <3>3. (CHOOSE x \in S : \A y \in S : x >= y) = carrier
        BY <3>1, <3>2
      <3> QED BY <3>3 DEF LastCarrier, Max, S
    <2>10. carrier = Len(sent) + 1
      BY <2>6, <2>7, FollowsChunks
    <2>11. \A i \in 1..Len(sent) : sent[i] = i
      BY <2>7, FollowsChunks
    <2>12. ~Contains(sent, carrier)
      BY <2>7, <2>10, <2>11 DEF Contains
    <2> QED BY <2>4, <2>9, <2>12
  <1> QED BY <1>1, InvAlways, PTL DEF Spec, CostInTime
=============================================================================
