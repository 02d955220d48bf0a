------------------------------ MODULE Services ------------------------------
(***************************************************************************)
(* One floor-plan interpretation, and the other services the catalog leans *)
(* on: the history of exchange rates with the quotes converted by it, and  *)
(* the normalisation of the room an interpretation proposes.  They share   *)
(* nothing, so a behaviour is of one of them: the variables of the others  *)
(* are None, those of the interpretation as it begins.                     *)
(***************************************************************************)
EXTENDS FloorplanInterpretation, FloorplanGeometry

CONSTANTS
  \* rates
  Processes, ManualRates, CoinbaseRates, BcbRates, Static, Amounts, Prec,
  MaxManual, MaxMoves, RateTime,
  None

VARIABLES
  part,
  market, moves, rates, issued, clock, entry, refresh, quote

rateVars == <<market, moves, rates, issued, clock, entry, refresh, quote>>

R == INSTANCE ExchangeRates WITH MaxTime <- RateTime

\* Assumed of the constants by the theorems and by every instance.
ServicesAssumption == FloorplanTimes /\ R!RatesAssumption /\ GeometryAssumption

NoRates ==
  /\ market = None /\ moves = None /\ rates = None /\ issued = None /\ clock = None
  /\ entry = None /\ refresh = None /\ quote = None
NoGeometry == contour = None /\ evidence = None /\ room = None

ServicesInit ==
  /\ Init
  /\ \/ part = "plan" /\ NoRates /\ NoGeometry
     \/ part = "rates" /\ R!Init /\ NoGeometry
     \/ part = "geometry" /\ RoomInit /\ NoRates

ServicesNext ==
  /\ UNCHANGED part
  /\ \/ part = "plan" /\ Next /\ UNCHANGED <<rateVars, roomVars>>
     \/ part = "rates" /\ R!Next /\ UNCHANGED <<vars, roomVars>>
     \/ part = "geometry" /\ RoomNext /\ UNCHANGED <<vars, rateVars>>

ServicesSpec == ServicesInit /\ [][ServicesNext]_<<part, vars, rateVars, roomVars>>

-----------------------------------------------------------------------------

\* A stored rate is one its source published under that name, the history grows
\* with the sources and not with the runs, and a converted total is the nearest
\* cent (exchange_rates/service.py, rate_source.py).
RatesInvariant == part = "rates" => R!RatesInvariant

\* Normalisation accepts the rooms the schema would accept, changes no area, keeps
\* walls and openings at their places, and puts a dimension on the wall that the
\* edge it names became part of, which may be longer than what was measured
\* (floorplan_interpretation/service.py: _simplify_semantic_contour).
GeometryInvariant == part = "geometry" => RoomInvariant
=============================================================================
