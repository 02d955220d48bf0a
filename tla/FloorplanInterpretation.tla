---------------------- MODULE FloorplanInterpretation ----------------------
(***************************************************************************)
(* One floor-plan interpretation: the request handler asks the vision      *)
(* provider at most twice, the second time with a correction when the      *)
(* first proposal was rejected, repeats a rate-limited correction once,    *)
(* waits as long as the provider asks for, and answers within the          *)
(* configured timeout whatever the provider does.                          *)
(*                                                                         *)
(* Time is counted in ticks.  The proposal itself is reduced to whether    *)
(* the schema accepts it and to the reason it gives otherwise.             *)
(***************************************************************************)
EXTENDS Integers

CONSTANTS
  Timeout,        \* floorplan timeout of the settings
  MaxRetryAfter,  \* longest Retry-After that is waited for
  RateDelay,      \* wait after a rate limit without a usable header
  RetryDelay,     \* wait after any other retryable failure
  Reasons         \* why a proposal is rejected

\* Assumed of the constants by the theorems and by every instance.
FloorplanTimes ==
  /\ Timeout \in Nat \ {0}
  /\ MaxRetryAfter \in Nat /\ RateDelay \in Nat /\ RetryDelay \in Nat

VARIABLES
  now,         \* ticks since the handler started
  step,        \* "start", "asking", "waiting", "answered"
  attempt,     \* the semantic attempt, 1 or 2
  correction,  \* the reason the prompt corrects, or "none"
  repeated,    \* the correction has been repeated after a rate limit
  wake,        \* when the wait ends
  limit,       \* the last rate limit: when the provider may be asked again
  asked,       \* requests sent: at which time, with which correction
  answer       \* what the caller gets
vars == <<now, step, attempt, correction, repeated, wake, limit, asked, answer>>

Pending == [status |-> "none", retryable |-> FALSE]
Remaining == Timeout - now
\* Faulty variant: the last instant still counts as time left.
TimeIsPast == Remaining < 0
TimeIsOver == Remaining <= 0

Init ==
  /\ now = 0 /\ step = "start" /\ attempt = 1
  /\ correction = "none" /\ repeated = FALSE
  /\ wake = 0 /\ limit = 0 /\ asked = {} /\ answer = Pending

-----------------------------------------------------------------------------
(* Answers of the route. *)

Answer(status, retryable) ==
  /\ step' = "answered"
  /\ answer' = [status |-> status, retryable |-> retryable]
  /\ UNCHANGED <<now, attempt, correction, repeated, wake, asked>>

Unavailable(retryable) == Answer("provider_unavailable", retryable)
Rejected == Answer("needs_review", FALSE)

\* The route refuses what is not an image, before any provider call.
RefuseImage ==
  /\ step = "start"
  /\ Answer("refused", FALSE)
  /\ UNCHANGED limit

\* Without an API key the handler answers at once.
NotConfigured ==
  /\ step = "start"
  /\ Unavailable(FALSE)
  /\ UNCHANGED limit

-----------------------------------------------------------------------------
(* Asking. *)

Ask ==
  /\ \/ step = "start"
     \/ step = "waiting" /\ now >= wake
  /\ Remaining > 0
  /\ step' = "asking"
  /\ asked' = asked \union {[at |-> now, n |-> attempt, fix |-> correction, again |-> repeated,
                             allowed |-> limit]}
  /\ UNCHANGED <<now, attempt, correction, repeated, wake, limit, answer>>

\* No time is left for the next request.
OutOfTime ==
  /\ step = "waiting" /\ now >= wake
  /\ TimeIsOver
  /\ Unavailable(TRUE)
  /\ UNCHANGED limit

\* wait_for gives the provider up at the deadline; a first attempt would wait
\* before its retry, and there is no time left for that.
GiveUp ==
  /\ step = "asking"
  /\ TimeIsOver
  /\ Unavailable(TRUE)
  /\ UNCHANGED limit

Fits(delay) == delay < Remaining

\* Sleep before the next request, or answer when the sleep would not fit.
WaitThen(delay, next, again) ==
  \/ /\ Fits(delay)
     /\ step' = "waiting" /\ wake' = now + delay
     /\ attempt' = next /\ repeated' = again
     /\ UNCHANGED <<now, correction, asked, answer>>
  \/ ~Fits(delay) /\ Unavailable(TRUE)

\* Faulty variant: the repeat is not remembered.
MayRepeatAlways == attempt = 2 /\ correction # "none"
MayRepeat == attempt = 2 /\ correction # "none" /\ ~repeated

\* 429 with a Retry-After of h ticks, or without a usable one (h = -1).
\* Faulty variant: the fallback whatever the header says.
DelayFallback(h) == RateDelay
Delay(h) == IF h = -1 THEN RateDelay ELSE h
RateLimited(h) ==
  /\ step = "asking" /\ Remaining > 0
  /\ h <= MaxRetryAfter
  /\ limit' = now + (IF h = -1 THEN 0 ELSE h)
  /\ \/ attempt = 1 /\ WaitThen(Delay(h), 2, FALSE)
     \/ MayRepeat /\ WaitThen(Delay(h), 2, TRUE)
     \/ attempt = 2 /\ ~MayRepeat /\ Unavailable(TRUE)

\* A Retry-After beyond the maximum is never waited for.
LimitedTooLong ==
  /\ step = "asking" /\ Remaining > 0
  /\ Unavailable(FALSE)
  /\ limit' = Timeout + MaxRetryAfter + 1

\* A 5xx status or a broken connection.
Fails ==
  /\ step = "asking" /\ Remaining > 0
  /\ \/ attempt = 1 /\ WaitThen(RetryDelay, 2, FALSE)
     \/ attempt = 2 /\ Unavailable(TRUE)
  /\ UNCHANGED limit

\* Any other 4xx status.
Refuses ==
  /\ step = "asking" /\ Remaining > 0
  /\ Unavailable(FALSE)
  /\ UNCHANGED limit

\* The proposal parses, normalises and passes the schema and the quality gate.
Proposes ==
  /\ step = "asking" /\ Remaining > 0
  /\ Answer("proposal", FALSE)
  /\ UNCHANGED limit

\* The proposal is rejected: once it is asked for again, with a correction and
\* without a wait.
Misproposes(reason) ==
  /\ step = "asking" /\ Remaining > 0
  /\ \/ /\ attempt = 1
        /\ step' = "waiting" /\ wake' = now
        /\ attempt' = 2 /\ correction' = reason
        /\ UNCHANGED <<now, repeated, asked, answer>>
     \/ attempt = 2 /\ Rejected
  /\ UNCHANGED limit

\* Time passes while the provider works or the handler sleeps, perhaps longer
\* than it asked to.
Tick ==
  /\ step \in {"asking", "waiting"}
  /\ Remaining > 0
  /\ now' = now + 1
  /\ UNCHANGED <<step, attempt, correction, repeated, wake, limit, asked, answer>>

Next ==
  \/ RefuseImage \/ NotConfigured \/ Ask \/ OutOfTime \/ GiveUp
  \/ \E h \in -1 .. MaxRetryAfter : RateLimited(h)
  \/ LimitedTooLong \/ Fails \/ Refuses \/ Proposes
  \/ \E r \in Reasons : Misproposes(r)
  \/ Tick

Spec == Init /\ [][Next]_vars

\* What happens without the provider.
Proceeds == Ask \/ OutOfTime \/ GiveUp \/ NotConfigured

\* Timers fire: the provider may never answer.
FairSpec == Spec /\ WF_vars(Tick) /\ WF_vars(Proceeds)

-----------------------------------------------------------------------------
(* Properties. *)

\* Types, and: nobody is answered, and nothing is asked, after the timeout
\* (interpret's remaining time before each request and each sleep).
FloorplanTypeOK ==
  /\ now \in 0 .. Timeout
  /\ step \in {"start", "asking", "waiting", "answered"}
  /\ attempt \in 1 .. 2
  /\ correction \in Reasons \union {"none"}
  /\ wake \in 0 .. Timeout - 1
  /\ \A r \in asked : r.at < Timeout /\ r.fix \in Reasons \union {"none"}

\* At most three requests, at most two different prompts, and the third only
\* repeats a rate-limited correction (interpret, "at most one repeat with the
\* SAME prompt").
BoundedAsking ==
  /\ \A r, s \in asked : r.n = s.n => r.fix = s.fix
  /\ \A r \in asked : r.again => r.n = 2 /\ r.fix # "none"
  /\ \A r, s \in asked : (r.n = s.n /\ r.again = s.again) => r = s

\* The provider is never asked before the moment it named in Retry-After.
RetryAfterIsKept == \A r \in asked : r.at >= r.allowed

\* A correction is only ever sent for the reason the first proposal was
\* rejected, and the caller is told to retry only when the provider failed.
AnswerIsExplained ==
  /\ correction # "none" => \E r \in asked : r.n = 1 /\ r.fix = "none"
  /\ answer.retryable => answer.status = "provider_unavailable"
  /\ answer.status = "needs_review" => attempt = 2

\* Every interpretation is answered, whatever the provider does.
EventuallyAnswered == (step = "asking") ~> (step = "answered")

\* The provider is asked seldom enough, and every answer has its reason.
InterpretationInvariant ==
  /\ FloorplanTypeOK
  /\ BoundedAsking
  /\ RetryAfterIsKept
  /\ AnswerIsExplained
=============================================================================
