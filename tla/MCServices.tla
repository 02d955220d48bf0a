------------------------------ MODULE MCServices ------------------------------
(***************************************************************************)
(* A small instance of the services for TLC.                               *)
(***************************************************************************)
EXTENDS Services

ASSUME ServicesAssumption

Manual(c, u) == [currency |-> c, units |-> u]
MCManualRates == {Manual("BOB", 7), Manual("USDT", 4), Manual("USD", 2)}

\* Contours of three or four corners on a three by three grid that start at the
\* lower left or in the middle of the lower side, of five that start along the
\* lower side, and a corridor so narrow that its long walls count as one.
Grid == (0 .. 2) \X (0 .. 2)
From(origin, sizes) == {s \in UNION {[1 .. n -> Grid] : n \in sizes} : s[1] = origin}
MCContours ==
  From(<<0, 0>>, 3 .. 4) \union From(<<1, 0>>, 3 .. 4)
  \union {s \in From(<<0, 0>>, {5}) : s[2][2] = 0}
  \union {<< <<0, 0>>, <<32, 0>>, <<64, 0>>, <<64, 1>>, <<0, 1>> >>}
MCPlaces == {<<0, 2>>, <<1, 2>>}

\* A quote, which nothing else depends on, ends a behaviour in which no source has
\* moved and no time passed.
Early ==
  part = "rates" =>
    quote' = R!NoQuote \/ (quote = R!NoQuote /\ moves' = 0 /\ clock' = 0)
=============================================================================
