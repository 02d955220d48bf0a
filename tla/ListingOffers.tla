---------------------------- MODULE ListingOffers ----------------------------
(***************************************************************************)
(* One listing's offer, the quotes made from it and the reservations made  *)
(* from the quotes: backend/app/modules/catalog/service.py and router.py,  *)
(* with the triggers of migrations 0007, 0009, 0013 and 0016 that advance  *)
(* offer_version.  Edits, quotes and reservations lock the listing's row   *)
(* and are one step each; the public detail page is read without a lock,   *)
(* the listing first and its extras in a later statement.                  *)
(*                                                                         *)
(* An extra is its price, quantity and detail (the descriptive columns,    *)
(* which are not part of the offer's version).  The currency is fixed when *)
(* the listing is created and is left out.                                 *)
(***************************************************************************)
EXTENDS ListingReview, Integers, FiniteSets

CONSTANTS
  Extras,        \* stable identifiers of extras, each inserted at most once
  Prices, Operations, Deposits,
  ExtraValues,   \* records [price, quantity, detail] an editor may enter
  Quotes,        \* quotes the customers may ask for
  MaxVersion,    \* bound of offer_version
  None

\* Assumed of the constants by the theorems and by every instance.
OffersAssumption == IsFiniteSet(Extras) /\ MaxVersion \in Nat

VARIABLES
  offer,       \* [price, operation, deposit] of the listing row
  extras,      \* the stored extras, None where there is no row
  inserted,    \* the identifiers given out so far
  version,     \* listing.offer_version
  submitted,   \* history: the content last submitted for review
  page,        \* what a customer has read of the public detail
  quotes,      \* the rows of quote_snapshot, with what the customer was shown
  lapsed,      \* the quotes whose expires_at has passed
  booked       \* the snapshot each reservation took of its quote

offerVars == <<offer, extras, inserted, version>>
customerVars == <<page, quotes, lapsed, booked>>
vars == <<reviewVars, offerVars, submitted, customerVars>>

Content == [price |-> offer.price, operation |-> offer.operation, extras |-> extras]
Present(set) == {x \in Extras : set[x] # None}

-----------------------------------------------------------------------------
\* The version.

\* Faulty variant: the trigger before migration 0009.
OfferChangedPriceOnly(a, b) == a.price # b.price \/ a.operation # b.operation

\* An insertion, a deletion, or a new price or quantity, but no new detail.
ExtraChanged(a, b) ==
  \/ (a = None) # (b = None)
  \/ a # None /\ b # None /\ <<a.price, a.quantity>> # <<b.price, b.quantity>>

OfferChanged(a, b) ==
  a.price # b.price \/ a.operation # b.operation \/ a.deposit # b.deposit

Advance(offer2, extras2) ==
  (IF OfferChanged(offer, offer2) THEN 1 ELSE 0)
  + Cardinality({x \in Extras : ExtraChanged(extras[x], extras2[x])})

\* Write the row and its extras; the triggers advance the version.
WriteOffer(offer2, extras2) ==
  /\ version + Advance(offer2, extras2) <= MaxVersion
  /\ offer' = offer2
  /\ extras' = extras2
  /\ inserted' = inserted \union Present(extras2)
  /\ version' = version + Advance(offer2, extras2)

\* _apply_extras_diff: known rows keep their identifier, a row without one gets
\* a fresh identifier, the rows left out are deleted.
ExtraDiffs ==
  {set \in [Extras -> ExtraValues \union {None}] :
     \A x \in Extras : set[x] # None => extras[x] # None \/ x \notin inserted}

-----------------------------------------------------------------------------
\* The staff.

\* create_staff_listing starts at version 1 and then inserts the extras.
CreateListing(role) ==
  /\ MayEdit(role)
  /\ CreateDraft(role)
  /\ \E p \in Prices, o \in Operations, set \in ExtraDiffs :
       /\ offer' = [price |-> p, operation |-> o, deposit |-> None]
       /\ extras' = set
       /\ inserted' = Present(set)
       /\ version' = 1 + Cardinality(Present(set))
       /\ version' <= MaxVersion
  /\ UNCHANGED <<submitted, customerVars>>

\* edit_staff_listing, with the extras or without a word of them.
EditListing(role) ==
  /\ MayEdit(role)
  /\ Reopen(role)
  /\ \E p \in Prices, o \in Operations, set \in ExtraDiffs \union {extras} :
       WriteOffer([offer EXCEPT !.price = p, !.operation = o], set)
  /\ UNCHANGED <<submitted, customerVars>>

\* configure_listing_deposit leaves a published listing published.
SetDeposit(role) ==
  /\ MayDecide(role)
  /\ approval # "none"
  /\ \E d \in Deposits : WriteOffer([offer EXCEPT !.deposit = d], extras)
  /\ UNCHANGED <<reviewVars, submitted, customerVars>>

ReviewListing(role) ==
  /\ \E hasPhoto \in BOOLEAN : ApplyTransition(role, hasPhoto)
  /\ submitted' = IF approval' = "pending" THEN Content ELSE submitted
  /\ UNCHANGED <<offerVars, customerVars>>

-----------------------------------------------------------------------------
\* The customers.

LinesOf(base, set, selected) ==
  [base |-> base,
   amounts |-> [x \in selected |-> set[x].price * set[x].quantity]]

\* get_public_listing.
OpenPage ==
  /\ page = None
  /\ IsPublic
  /\ page' = [step |-> "listing", version |-> version,
              base |-> <<offer.price, offer.operation>>, extras |-> <<>>]
  /\ UNCHANGED <<reviewVars, offerVars, submitted, quotes, lapsed, booked>>

\* list_listing_extras, in the same request but in a snapshot of its own.
FinishPage ==
  /\ page # None /\ page.step = "listing"
  /\ page' = [page EXCEPT !.step = "shown", !.extras = extras]
  /\ UNCHANGED <<reviewVars, offerVars, submitted, quotes, lapsed, booked>>

ClosePage ==
  /\ page # None
  /\ page' = None
  /\ UNCHANGED <<reviewVars, offerVars, submitted, quotes, lapsed, booked>>

\* Faulty variant: the version the customer read is not compared.
VersionExpectedAny(v) == v <= version

VersionExpected(v) == v = version

\* create_quote_snapshot, asked for from a page with a selection of its extras.
CreateQuote(q, selected) ==
  /\ quotes[q] = None
  /\ page # None /\ page.step = "shown"
  /\ selected \subseteq Present(page.extras)
  /\ IsPublic
  /\ VersionExpected(page.version)
  /\ selected \subseteq Present(extras)
  /\ quotes' = [quotes EXCEPT ![q] =
       [version |-> version, selected |-> selected,
        lines |-> LinesOf(<<offer.price, offer.operation>>, extras, selected),
        shown |-> LinesOf(page.base, page.extras, selected),
        deposit |-> offer.deposit]]
  /\ UNCHANGED <<reviewVars, offerVars, submitted, page, lapsed, booked>>

\* Fifteen minutes have passed since the quote was made.
ExpireQuote(q) ==
  /\ quotes[q] # None /\ q \notin lapsed
  /\ lapsed' = lapsed \union {q}
  /\ UNCHANGED <<reviewVars, offerVars, submitted, page, quotes, booked>>

\* The quote is in time and of the listing's current version.
QuoteUsable(q) ==
  /\ quotes[q] # None /\ q \notin lapsed
  /\ quotes[q].version = version

\* The part of create_reservation about the listing and the quote: the deposit
\* comes from the listing, everything else from the quote.
Reserve(q) ==
  /\ booked[q] = None
  /\ IsPublic
  /\ QuoteUsable(q)
  /\ booked' = [booked EXCEPT ![q] =
       [deposit |-> offer.deposit, lines |-> quotes[q].lines]]
  /\ UNCHANGED <<reviewVars, offerVars, submitted, page, quotes, lapsed>>

-----------------------------------------------------------------------------
Init ==
  /\ ReviewInit
  /\ offer = [price |-> 0, operation |-> "none", deposit |-> None]
  /\ extras = [x \in Extras |-> None]
  /\ inserted = {}
  /\ version = 0
  /\ submitted = None
  /\ page = None
  /\ quotes = [q \in Quotes |-> None]
  /\ lapsed = {}
  /\ booked = [q \in Quotes |-> None]

Next ==
  \/ \E role \in Roles :
       \/ CreateListing(role)
       \/ EditListing(role)
       \/ SetDeposit(role)
       \/ ReviewListing(role)
  \/ OpenPage
  \/ FinishPage
  \/ ClosePage
  \/ \E q \in Quotes :
       \/ \E selected \in SUBSET Extras : CreateQuote(q, selected)
       \/ ExpireQuote(q)
       \/ Reserve(q)

Spec == Init /\ [][Next]_vars

-----------------------------------------------------------------------------
OffersTypeOK ==
  /\ ReviewTypeOK
  /\ extras \in [Extras -> ExtraValues \union {None}]
  /\ Present(extras) \subseteq inserted
  /\ version \in 0 .. MaxVersion
  /\ lapsed \subseteq Quotes
  /\ approval # "none" => offer \in [price : Prices, operation : Operations,
                                     deposit : Deposits \union {None}]

\* What was approved is what was submitted: nothing of the content changes
\* between the submission and the end of the listing's time in the catalog.
ReviewedIsSubmitted ==
  approval \in {"pending", "approved"} => submitted = Content

\* A quote of the current version says what the offer says now.
CurrentQuoteIsOffer ==
  \A q \in Quotes :
    quotes[q] # None /\ quotes[q].version = version =>
      /\ quotes[q].selected \subseteq Present(extras)
      /\ quotes[q].lines =
           LinesOf(<<offer.price, offer.operation>>, extras, quotes[q].selected)

\* A customer is quoted what the page showed, though its two reads may straddle
\* any number of edits.
QuotedAsShown ==
  \A q \in Quotes : quotes[q] # None => quotes[q].lines = quotes[q].shown

\* A reservation's deposit is the one in force when its quote was made.
BookedAsQuoted ==
  \A q \in Quotes :
    booked[q] # None => /\ booked[q].deposit = quotes[q].deposit
                        /\ booked[q].lines = quotes[q].shown

\* From the review to the reservation everybody decides over what they saw.
OffersInvariant ==
  /\ OffersTypeOK
  /\ ReviewedIsSubmitted
  /\ CurrentQuoteIsOffer
  /\ QuotedAsShown
  /\ BookedAsQuoted
=============================================================================
