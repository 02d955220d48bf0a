--------------------------- MODULE ExchangeRates ---------------------------
(***************************************************************************)
(* Administered and official exchange rates: an append-only table of rows  *)
(* per currency, written by platform administrators and by the refresh     *)
(* loop of every API process, without a lock between them, and read by     *)
(* quotes, which convert a total through USD.                              *)
(*                                                                         *)
(* A row is stamped with the start of its transaction and seen from its    *)
(* commit on.  Rates are small whole numbers of units per USD; amounts are *)
(* cents.  A Decimal quotient keeps Prec significant digits.               *)
(***************************************************************************)
EXTENDS Integers, FiniteSets, FiniteSetsExt

CONSTANTS
  Processes,     \* API processes, each with a refresh loop
  ManualRates,   \* [currency, units] an administrator may enter
  CoinbaseRates, \* what Coinbase publishes for USDT (already per USD)
  BcbRates,      \* what the BCB mirror publishes for BOB
  Static,        \* ROOMFORGE_OFFICIAL_BOB_RATE
  Amounts,       \* totals a quote converts
  Prec,          \* digits of the Decimal context
  MaxManual,     \* bound: administered rates entered
  MaxMoves,      \* bound: times a source changes or fails
  MaxTime        \* bound: the database clock

\* Every positive number of units a row may carry.
Units ==
  {u \in CoinbaseRates \union BcbRates \union {Static, 1} \union {m.units : m \in ManualRates} :
     u > 0}

\* The context keeps the digits of the amount and of both rates, with room to spare
\* (_precision_for).
ContextHasRoom ==
  \A a \in Amounts, s, t \in Units : 2 * t * (a + s) < 10 ^ (Prec - 1)

\* What the proofs use of the powers of ten.
PowersOfTen ==
  /\ \A e \in 0 .. Prec : 10 ^ e \in Nat \ {0}
  /\ 10 ^ (Prec - 1) <= 10 ^ Prec

\* Assumed of the constants by the theorems and by every instance.
RatesAssumption ==
  /\ CoinbaseRates \union BcbRates \subseteq Nat \ {0}
  /\ Static \in Nat /\ \A m \in ManualRates : m.units \in Int
  /\ Amounts \subseteq Nat /\ Prec \in Nat \ {0}
  /\ {MaxManual, MaxMoves, MaxTime} \subseteq Nat /\ IsFiniteSet(Processes)
  /\ ContextHasRoom /\ PowersOfTen

VARIABLES
  market,    \* what each source answers now, 0 when it fails
  moves,
  rates,     \* committed rows of exchange_rate
  issued,    \* ids handed out
  clock,
  entry,     \* the administrator's open transaction
  refresh,   \* the refresh of each process
  quote      \* the last converted quote
vars == <<market, moves, rates, issued, clock, entry, refresh, quote>>

Official == {"BOB", "USDT"}
Currencies == Official \union {"USD"}
NoRow == [id |-> 0, currency |-> "USD", units |-> 1, source |-> "fixed", at |-> 0]
NoQuote == [amount |-> 0, source |-> "USD", target |-> "USD",
            rates |-> [c \in Currencies |-> 1], total |-> 0]
Asleep == [step |-> "asleep", found |-> {}, rows |-> {}]

Init ==
  /\ market \in [USDT : CoinbaseRates \union {0}, BOB : BcbRates \union {0}]
  /\ moves = 0 /\ rates = {} /\ issued = 0 /\ clock = 0
  /\ entry = NoRow /\ quote = NoQuote
  /\ refresh = [p \in Processes |-> Asleep]

-----------------------------------------------------------------------------
(* Reading the table. *)

\* ORDER BY created_at DESC, id DESC.
Newer(r, q) == r.at > q.at \/ (r.at = q.at /\ r.id > q.id)
RowsOf(c) == {r \in rates : r.currency = c}
Latest(c) ==
  IF RowsOf(c) = {} THEN NoRow
  ELSE CHOOSE r \in RowsOf(c) : \A q \in RowsOf(c) \ {r} : Newer(r, q)
Administered(c) == c = "USD" \/ RowsOf(c) # {}
Current == [c \in Currencies |-> IF c = "USD" THEN 1 ELSE Latest(c).units]

-----------------------------------------------------------------------------
(* Conversion: a Decimal is <<m, e>> for m / 10^e. *)

HalfUp(n, d) == (2 * n + d) \div (2 * d)
HalfEven(n, d) ==
  LET q == n \div d
      r == 2 * (n % d)
  IN  IF r > d \/ (r = d /\ q % 2 = 1) THEN q + 1 ELSE q

\* n / d kept to Prec significant digits, as a Decimal operation does.
Significant(n, d) ==
  IF n = 0 THEN <<0, 0>>
  ELSE LET e == Min({x \in 0 .. Prec : 10 ^ (Prec - 1) * d <= n * 10 ^ x \/ x = Prec})
       IN  <<HalfEven(n * 10 ^ e, d), e>>

\* Faulty variant: rounded to a whole cent at USD already.
ConvertTwice(amount, source, target, units) ==
  IF source = target THEN amount
  ELSE HalfUp(HalfUp(amount, units[source]) * units[target], 1)

\* convert: through USD, then to whole cents.
Convert(amount, source, target, units) ==
  IF source = target THEN amount
  ELSE LET usd == IF source = "USD" THEN <<amount, 0>>
                  ELSE Significant(amount, units[source])
           got == IF target = "USD" THEN usd
                  ELSE Significant(usd[1] * units[target], 10 ^ usd[2])
       IN  HalfUp(got[1], 10 ^ got[2])

-----------------------------------------------------------------------------
(* The sources. *)

\* A source publishes another value, fails or recovers.
SourceMoves ==
  /\ moves < MaxMoves
  /\ moves' = moves + 1
  /\ \E v \in CoinbaseRates \union {0} : \E w \in BcbRates \union {0} :
       market' = [USDT |-> v, BOB |-> w]
  /\ market' # market
  /\ UNCHANGED <<rates, issued, clock, entry, refresh, quote>>

\* Faulty variant: the fallback under the official label.
BobUnlabelled(m) ==
  [currency |-> "BOB", units |-> IF m.BOB # 0 THEN m.BOB ELSE Static, source |-> "bcb"]

\* BOB falls back to the static value; USDT has no fallback.
Bob(m) ==
  IF m.BOB # 0 THEN [currency |-> "BOB", units |-> m.BOB, source |-> "bcb"]
  ELSE [currency |-> "BOB", units |-> Static, source |-> "bcb-static"]
Usdt(m) == [currency |-> "USDT", units |-> m.USDT, source |-> "coinbase"]
Suggested(m) == {Bob(m), Usdt(m)}
Answers(m) == m.USDT # 0 /\ Bob(m).units # 0

-----------------------------------------------------------------------------
(* The refresh of one process: fetch, read and append, commit. *)

\* Any source that fails ends the run with no row.
Fetch(p) ==
  /\ refresh[p].step = "asleep"
  /\ Answers(market)
  /\ refresh' = [refresh EXCEPT ![p] = [step |-> "fetched", found |-> Suggested(market),
                                        rows |-> {}]]
  /\ UNCHANGED <<market, moves, rates, issued, clock, entry, quote>>

\* Faulty variant: compared with the latest official row.
OfficialOf(c) == {r \in RowsOf(c) : r.source # "manual"}
UnchangedOfficially(s) ==
  \E r \in OfficialOf(s.currency) :
    r.units = s.units /\ \A q \in OfficialOf(s.currency) \ {r} : Newer(r, q)
Unchanged(s) == RowsOf(s.currency) # {} /\ Latest(s.currency).units = s.units
Differing(p) == {s \in refresh[p].found : ~Unchanged(s)}

\* The rows that differ are inserted, BOB first, in the run's own transaction.
Row(s, id) == [id |-> id, currency |-> s.currency, units |-> s.units,
               source |-> s.source, at |-> clock]
Inserted(new) ==
  {Row(s, IF s.currency = "USDT" THEN issued + Cardinality(new) ELSE issued + 1) : s \in new}
Append(p) ==
  /\ refresh[p].step = "fetched"
  /\ refresh' = [refresh EXCEPT ![p] = [step |-> "written", found |-> @.found,
                                        rows |-> Inserted(Differing(p))]]
  /\ issued' = issued + Cardinality(Differing(p))
  /\ UNCHANGED <<market, moves, rates, clock, entry, quote>>

Commit(p) ==
  /\ refresh[p].step = "written"
  /\ rates' = rates \union refresh[p].rows
  /\ refresh' = [refresh EXCEPT ![p] = Asleep]
  /\ UNCHANGED <<market, moves, issued, clock, entry, quote>>

\* The process is stopped in the middle of a run: its transaction is rolled back.
Interrupt(p) ==
  /\ refresh[p].step # "asleep"
  /\ moves < MaxMoves
  /\ moves' = moves + 1
  /\ refresh' = [refresh EXCEPT ![p] = Asleep]
  /\ UNCHANGED <<market, rates, issued, clock, entry, quote>>

-----------------------------------------------------------------------------
(* Administrators. *)

Entered == Cardinality({r \in rates : r.source = "manual"})
Accepted(currency, units) == currency \in Official /\ units > 0

CreateRate(currency, units) ==
  /\ entry = NoRow
  /\ Entered < MaxManual
  /\ Accepted(currency, units)
  /\ issued' = issued + 1
  /\ entry' = [id |-> issued', currency |-> currency, units |-> units,
               source |-> "manual", at |-> clock]
  /\ UNCHANGED <<market, moves, rates, clock, refresh, quote>>

CommitRate ==
  /\ entry # NoRow
  /\ rates' = rates \union {entry}
  /\ entry' = NoRow
  /\ UNCHANGED <<market, moves, issued, clock, refresh, quote>>

-----------------------------------------------------------------------------
(* Quotes and time. *)

\* The rates are read once, in the quote's transaction; a missing one refuses it.
Quote(amount, source, target) ==
  /\ source # target
  /\ Administered(source) /\ Administered(target)
  /\ quote' = [amount |-> amount, source |-> source, target |-> target, rates |-> Current,
               total |-> Convert(amount, source, target, Current)]
  /\ UNCHANGED <<market, moves, rates, issued, clock, entry, refresh>>

Tick ==
  /\ clock < MaxTime
  /\ clock' = clock + 1
  /\ UNCHANGED <<market, moves, rates, issued, entry, refresh, quote>>

Next ==
  \/ SourceMoves
  \/ Tick
  \/ CommitRate
  \/ \E m \in ManualRates : CreateRate(m.currency, m.units)
  \/ \E p \in Processes : Fetch(p) \/ Append(p) \/ Commit(p) \/ Interrupt(p)
  \/ \E a \in Amounts, s, t \in Currencies : Quote(a, s, t)

Spec == Init /\ [][Next]_vars

\* The loop sleeps and runs again for ever; an open transaction is committed.
Fairness ==
  /\ \A p \in Processes : WF_vars(Fetch(p)) /\ WF_vars(Append(p)) /\ WF_vars(Commit(p))
  /\ WF_vars(CommitRate)
FairSpec == Spec /\ Fairness

-----------------------------------------------------------------------------
(* Properties. *)

\* Types, and: a row is stored for BOB or USDT only, under an id of its own,
\* stamped no later than now (create_rate, refresh_official_rates).
RatesTypeOK ==
  /\ market \in [USDT : CoinbaseRates \union {0}, BOB : BcbRates \union {0}]
  /\ \A r \in rates \union UNION {refresh[p].rows : p \in Processes} :
       r.currency \in Official /\ r.units > 0 /\ r.id \in 1 .. issued /\ r.at \in 0 .. clock
  /\ \A r, q \in rates : r.id = q.id => r = q
  /\ quote.total \in Nat

\* A stored official value is one its source published: a BOB row says "bcb"
\* only for the API's value and "bcb-static" only for the configured one
\* (rate_source.py: "a rate is never guessed").
LabelsAreHonest ==
  \A r \in rates :
    /\ r.source = "bcb" => r.units \in BcbRates
    /\ r.source = "bcb-static" => r.units = Static
    /\ r.source = "coinbase" => r.units \in CoinbaseRates

\* One process appends at most one row per currency for each value a source
\* takes and for each administered rate it supersedes: an unchanged source
\* never makes the history grow (refresh_official_rates).
HistoryFollowsSources ==
  Cardinality(Processes) = 1 =>
    \A c \in Official : Cardinality(OfficialOf(c)) <= moves + 1 + Entered

\* Once the sources settle and answer, the current rate of every ingested
\* currency becomes what its source says, over administered rates and rows of
\* overlapping runs (refresh_official_rates, docs/api/f02-api-contract.md).
FollowsOfficial == \A s \in Suggested(market) : Latest(s.currency).units = s.units
OfficialIsFollowed == <>[](Answers(market) => FollowsOfficial)

\* The exact cross of a quote's total is a * t / s cents.
Off(q) == q.total * q.rates[q.source] - q.amount * q.rates[q.target]

\* A converted total is never more than half a cent from the exact one (convert).
ConvertedToNearest == 2 * Off(quote) <= quote.rates[quote.source]
                      /\ -2 * Off(quote) <= quote.rates[quote.source]

\* The conversion is exact and rounds once, half up, at the end
\* (docs/api/f02-api-contract.md:80).
RoundsOnceHalfUp ==
  quote.total = HalfUp(quote.amount * quote.rates[quote.target], quote.rates[quote.source])

\* The history is what the sources said, and totals follow from it.
RatesInvariant ==
  /\ RatesTypeOK
  /\ LabelsAreHonest
  /\ HistoryFollowsSources
  /\ ConvertedToNearest
=============================================================================
