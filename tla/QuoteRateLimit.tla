--------------------------- MODULE QuoteRateLimit ---------------------------
(***************************************************************************)
(* The limit on public quotes of one client address:                       *)
(* consume_quote_rate_limit and the route that calls it.  A request reads  *)
(* the clock, waits for the lock of its address, and in one transaction    *)
(* drops old events, counts the recent ones and stores its own.  The clock *)
(* counts Second-ths of a second, the answer counts whole seconds.         *)
(***************************************************************************)
EXTENDS Integers, FiniteSets

CONSTANTS
  Requests,
  Window,   \* the 60 seconds of the window, in ticks
  Limit,    \* the 10 events a window may hold
  Second,   \* ticks of a second
  MaxLag,   \* the longest a request waits for the lock, in ticks
  MaxTime,
  None

\* Assumed of the constants by the theorems and by every instance.
RateAssumption ==
  /\ {Window, Limit, Second} \subseteq Nat \ {0}
  /\ {MaxLag, MaxTime} \subseteq Nat /\ None \notin Nat

VARIABLES
  now,
  read,      \* the clock as each request read it, None before it arrived
  answer,    \* "waiting", "admitted" or "refused"
  retry,     \* the seconds of Retry-After, 0 without
  events,    \* quote_rate_limit_event: the requests whose event is stored
  oldest,    \* history: the recent events a refused request counted
  before     \* history: the requests that were answered when each one arrived

vars == <<now, read, answer, retry, events, oldest, before>>

\* The route reads the clock before its transaction.
Arrive(r) ==
  /\ read[r] = None
  /\ read' = [read EXCEPT ![r] = now]
  /\ before' = [before EXCEPT ![r] = {q \in Requests : answer[q] # "waiting"}]
  /\ UNCHANGED <<now, answer, retry, events, oldest>>

\* The events a request does not delete.
Kept(r) == {e \in events : read[e] > read[r] - Window}

\* The events it counts, none of them later than its own clock.
Recent(r) == {e \in Kept(r) : read[e] <= read[r]}

\* Faulty variant: an event more.
FullLate(r) == Cardinality(Recent(r)) > Limit

Full(r) == Cardinality(Recent(r)) >= Limit

Ceiling(n) == (n + Second - 1) \div Second
Larger(a, b) == IF a > b THEN a ELSE b
FirstOf(es) == CHOOSE t \in {read[e] : e \in es} : \A e \in es : t <= read[e]

\* Faulty variant: rounded down.
RetryAfterFloor(r) == Larger(1, (FirstOf(Recent(r)) + Window - read[r]) \div Second)

\* Until the oldest counted event leaves the window.
RetryAfter(r) == Larger(1, Ceiling(FirstOf(Recent(r)) + Window - read[r]))

\* The transaction under the advisory lock.  The old events of every address go
\* first; those of another address are not in the state.
Consume(r) ==
  /\ read[r] # None /\ answer[r] = "waiting"
  /\ IF Full(r)
       THEN /\ answer' = [answer EXCEPT ![r] = "refused"]
            /\ retry' = [retry EXCEPT ![r] = RetryAfter(r)]
            /\ oldest' = [oldest EXCEPT ![r] = Recent(r)]
            /\ events' = Kept(r)
       ELSE /\ answer' = [answer EXCEPT ![r] = "admitted"]
            /\ events' = Kept(r) \union {r}
            /\ UNCHANGED <<retry, oldest>>
  /\ UNCHANGED <<now, read, before>>

\* The request of another address, under a lock of its own, deletes what is old by
\* the clock it has read.
OtherAddress ==
  /\ \E t \in 0 .. now : events' = {e \in events : read[e] > t - Window}
  /\ UNCHANGED <<now, read, answer, retry, oldest, before>>

\* Time passes while no request has waited longer than the bound.
Tick ==
  /\ now < MaxTime
  /\ \A r \in Requests : read[r] # None /\ answer[r] = "waiting" => now < read[r] + MaxLag
  /\ now' = now + 1
  /\ UNCHANGED <<read, answer, retry, events, oldest, before>>

Init ==
  /\ now = 0
  /\ read = [r \in Requests |-> None]
  /\ answer = [r \in Requests |-> "waiting"]
  /\ retry = [r \in Requests |-> 0]
  /\ events = {}
  /\ oldest = [r \in Requests |-> {}]
  /\ before = [r \in Requests |-> {}]

Next == Tick \/ OtherAddress \/ \E r \in Requests : Arrive(r) \/ Consume(r)

Spec == Init /\ [][Next]_vars

-----------------------------------------------------------------------------
Admitted == {r \in Requests : answer[r] = "admitted"}

RateTypeOK ==
  /\ read \in [Requests -> (0 .. MaxTime) \union {None}]
  /\ \A r \in Requests :
       /\ answer[r] \in {"waiting", "admitted", "refused"}
       /\ IF answer[r] = "refused" THEN retry[r] \in 1 .. Ceiling(Window) ELSE retry[r] = 0
       /\ r \in events => r \in Admitted

\* The promise of the documents, which the code does not keep: no window of 60
\* seconds, wherever it begins, admits more than the limit
\* (docs/api/catalog-reservations-v1.md:54).
WindowBound ==
  \A first \in Admitted :
    Cardinality({r \in Admitted : read[first] <= read[r] /\ read[r] < read[first] + Window})
      <= Limit

\* What it keeps however long requests wait for the lock, and although those that
\* overtake them delete events: a request that comes when others have had their
\* answers is admitted only if fewer than the limit of them were admitted in the
\* window before it, short of the longest wait (consume_quote_rate_limit).
PacedBound ==
  \A r \in Admitted :
    Cardinality({q \in before[r] \intersect Admitted : read[q] > read[r] - Window + MaxLag})
      < Limit

\* A refused client that waits as long as it is told finds room, if only the
\* requests it was refused for are counted then, and these were no more than the
\* limit: requests that waited for the lock may have overfilled the window.
RetryIsEnough ==
  \A r \in Requests : answer[r] = "refused" /\ Cardinality(oldest[r]) <= Limit =>
    Cardinality({e \in oldest[r] : read[e] > read[r] + retry[r] * Second - Window}) < Limit

\* And it is not told to wait a second more than that.
RetryIsNotTooLong ==
  \A r \in Requests : retry[r] > 1 =>
    Cardinality({e \in oldest[r] : read[e] > read[r] + (retry[r] - 1) * Second - Window})
      >= Limit

\* Requests that follow each other keep to the limit, and Retry-After is the wait
\* it takes.
QuoteRateInvariant ==
  /\ RateTypeOK
  /\ PacedBound
  /\ RetryIsEnough
  /\ RetryIsNotTooLong
=============================================================================
