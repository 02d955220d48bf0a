---------------------------- MODULE Catalog_proofs ----------------------------
(***************************************************************************)
(* Proofs about the catalog, for any extras, prices, quotes, photos,       *)
(* listings, editors, requests, limits and bounds: what is published is    *)
(* what was reviewed, a customer is quoted what the page showed, a scene   *)
(* is never saved over an unseen one, storage and rows agree whatever      *)
(* fails between them, quote requests that follow each other keep to the   *)
(* limit, and a reader of all pages sees every lasting listing once.  The  *)
(* offer first; then each of the instances F, P, L and S of Catalog; the   *)
(* theorems about them are at the end.                                     *)
(***************************************************************************)
EXTENDS Catalog, Sequences, FiniteSetTheorems, WellFoundedInduction, TLAPS

\* The modules of the instances count as this one does.
LEMMA SameCardinality ==
  ASSUME NEW set
  PROVE  L!Cardinality(set) = Cardinality(set) /\ S!Cardinality(set) = Cardinality(set)
BY DEF Cardinality, L!Cardinality, S!Cardinality

-----------------------------------------------------------------------------
(* The offer. *)

Base == <<offer.price, offer.operation>>
Offered == [price : Prices, operation : Operations, deposit : Deposits \union {None}]

\* Two sets of extras that the version does not tell apart.
SameExtras(a, b) == \A x \in Extras : ~ExtraChanged(a[x], b[x])

\* A customer's page, a quote, and what each has read.
PageShape(p) ==
  p = [step |-> p.step, version |-> p.version, base |-> p.base, extras |-> p.extras]
PageRight ==
  page # None =>
    /\ PageShape(page)
    /\ page.version \in 0 .. version
    /\ page.version = version =>
         /\ page.base = Base
         /\ page.step = "shown" => SameExtras(page.extras, extras)

QuoteShape(v) ==
  v = [version |-> v.version, selected |-> v.selected,
       lines |-> v.lines, shown |-> v.shown, deposit |-> v.deposit]
QuoteRight(q) ==
  quotes[q] # None =>
    /\ QuoteShape(quotes[q])
    /\ quotes[q].version \in 0 .. version
    /\ quotes[q].lines = quotes[q].shown
    /\ quotes[q].version = version =>
         /\ quotes[q].deposit = offer.deposit
         /\ quotes[q].selected \subseteq Present(extras)
         /\ quotes[q].lines = LinesOf(Base, extras, quotes[q].selected)
QuotesRight ==
  /\ DOMAIN quotes = Quotes
  /\ \A q \in Quotes : QuoteRight(q)

BookedRight ==
  /\ DOMAIN booked = Quotes
  /\ \A q \in Quotes :
       booked[q] # None =>
         /\ quotes[q] # None
         /\ booked[q].deposit = quotes[q].deposit
         /\ booked[q].lines = quotes[q].shown

\* Nobody has read or asked for anything before the listing exists.
NothingBefore ==
  approval = "none" =>
    /\ page = None
    /\ \A q \in Quotes : quotes[q] = None /\ booked[q] = None

OffersIInv ==
  /\ OffersTypeOK
  /\ ReviewedIsSubmitted
  /\ PageRight
  /\ QuotesRight
  /\ BookedRight
  /\ NothingBefore

\* The version tells every change of what a quote is made of.
Versioned ==
  /\ version \in Int /\ version' \in Int /\ version <= version'
  /\ version' = version =>
       /\ Base' = Base /\ offer'.deposit = offer.deposit
       /\ SameExtras(extras, extras')

-----------------------------------------------------------------------------
(* The version. *)

LEMMA AdvanceCounts ==
  ASSUME OffersAssumption, NEW offer2, NEW extras2
  PROVE  /\ Advance(offer2, extras2) \in Nat
         /\ Advance(offer2, extras2) = 0 =>
              ~OfferChanged(offer, offer2) /\ SameExtras(extras, extras2)
<1> DEFINE changed == {x \in Extras : ExtraChanged(extras[x], extras2[x])}
<1>1. IsFiniteSet(changed)
  BY FS_Subset DEF OffersAssumption
<1>2. Cardinality(changed) \in Nat /\ (Cardinality(changed) = 0 <=> changed = {})
  BY <1>1, FS_CardinalityType, FS_EmptySet
<1>3. Advance(offer2, extras2) =
        (IF OfferChanged(offer, offer2) THEN 1 ELSE 0) + Cardinality(changed)
  BY DEF Advance
<1> HIDE DEF changed
<1>4. Advance(offer2, extras2) \in Nat
  BY <1>2, <1>3
<1>5. ASSUME Advance(offer2, extras2) = 0
      PROVE  ~OfferChanged(offer, offer2) /\ changed = {}
  BY <1>2, <1>3, <1>5
<1> QED BY <1>4, <1>5 DEF SameExtras, changed

LEMMA WriteVersioned ==
  ASSUME OffersAssumption, OffersTypeOK, NEW offer2, NEW extras2,
         WriteOffer(offer2, extras2)
  PROVE  Versioned /\ version' \in 0 .. MaxVersion
<1>1. /\ Advance(offer2, extras2) \in Nat
      /\ Advance(offer2, extras2) = 0 =>
           ~OfferChanged(offer, offer2) /\ SameExtras(extras, extras2)
  BY AdvanceCounts
<1>2. /\ version' = version + Advance(offer2, extras2)
      /\ offer' = offer2 /\ extras' = extras2 /\ version' <= MaxVersion
  BY DEF WriteOffer
<1>3. version \in Nat /\ MaxVersion \in Nat
  BY DEF OffersTypeOK, OffersAssumption
<1>4. version' \in 0 .. MaxVersion /\ version <= version'
  BY <1>1, <1>2, <1>3
<1>5. ASSUME version' = version
      PROVE  ~OfferChanged(offer, offer') /\ SameExtras(extras, extras')
  BY <1>1, <1>2, <1>3, <1>5
<1> QED BY <1>3, <1>4, <1>5 DEF Versioned, OfferChanged, Base

\* What was read at an older moment stays right when the version tells its age.
LEMMA SameExtrasTransitive ==
  ASSUME NEW a, NEW b, NEW c, SameExtras(a, b), SameExtras(b, c)
  PROVE  SameExtras(a, c)
BY DEF SameExtras, ExtraChanged

LEMMA SameLines ==
  ASSUME NEW a, NEW b, SameExtras(a, b), NEW base, NEW selected \in SUBSET Extras,
         selected \subseteq Present(a)
  PROVE  selected \subseteq Present(b) /\ LinesOf(base, a, selected) = LinesOf(base, b, selected)
<1>1. \A x \in selected :
        /\ a[x] # None /\ b[x] # None
        /\ a[x].price = b[x].price /\ a[x].quantity = b[x].quantity
  BY DEF SameExtras, ExtraChanged, Present
<1>2. selected \subseteq Present(b)
  BY <1>1 DEF Present
<1>3. [x \in selected |-> a[x].price * a[x].quantity] =
      [x \in selected |-> b[x].price * b[x].quantity]
  BY <1>1
<1> QED BY <1>2, <1>3 DEF LinesOf

LEMMA ReadingsStay ==
  ASSUME OffersIInv, Versioned, UNCHANGED customerVars
  PROVE  PageRight' /\ QuotesRight' /\ BookedRight'
<1> USE DEF OffersIInv, customerVars
<1>1. PageRight'
  <2> SUFFICES ASSUME page # None PROVE PageRight'
    BY DEF PageRight
  <2>1. PageShape(page) /\ page.version \in 0 .. version'
    BY DEF PageRight, Versioned
  <2>2. ASSUME page.version = version'
        PROVE  /\ page.base = Base'
               /\ page.step = "shown" => SameExtras(page.extras, extras')
    <3>1. version' = version /\ page.version = version
      BY <2>2 DEF PageRight, Versioned
    <3> QED BY <3>1, SameExtrasTransitive DEF PageRight, Versioned
  <2> QED BY <2>1, <2>2 DEF PageRight, PageShape, SameExtras, ExtraChanged
<1>2. ASSUME NEW q \in Quotes PROVE QuoteRight(q)'
  <2> SUFFICES ASSUME quotes[q] # None PROVE QuoteRight(q)'
    BY DEF QuoteRight
  <2>1. QuoteRight(q)
    BY DEF QuotesRight
  <2>2. CASE quotes[q].version = version'
    <3>1. version' = version
      BY <2>1, <2>2 DEF QuoteRight, Versioned
    <3>2. quotes[q].selected \in SUBSET Extras /\ quotes[q].selected \subseteq Present(extras)
      BY <2>1, <2>2, <3>1 DEF QuoteRight, Present
    <3>3. /\ quotes[q].selected \subseteq Present(extras')
          /\ LinesOf(Base, extras, quotes[q].selected) = LinesOf(Base, extras', quotes[q].selected)
      BY <3>1, <3>2, SameLines DEF Versioned
    <3>4. LinesOf(Base, extras', quotes[q].selected) = LinesOf(Base, extras, quotes[q].selected)'
      BY <3>1 DEF LinesOf, Versioned
    <3>5. Present(extras') = Present(extras)'
      BY DEF Present
    <3> QED BY <2>1, <2>2, <3>1, <3>3, <3>4, <3>5 DEF QuoteRight, QuoteShape, Versioned
  <2>3. CASE quotes[q].version # version'
    BY <2>1, <2>3 DEF QuoteRight, QuoteShape, Versioned
  <2> QED BY <2>2, <2>3
<1>3. QuotesRight' /\ BookedRight'
  BY <1>2 DEF QuotesRight, BookedRight
<1> QED BY <1>1, <1>3

-----------------------------------------------------------------------------
(* The staff. *)

LEMMA RecordTypes ==
  ASSUME ReviewTypeOK, NEW action \in Moves \union {"create", "edit"}, NEW role \in Roles,
         NEW to \in Places, to.published => to.approval = "approved",
         MoveTo(action, role, to)
  PROVE  ReviewTypeOK'
<1>1. approval' \in Approvals \union {"none"} /\ published' \in BOOLEAN
  BY DEF MoveTo, Places
<1>2. Place \in Places
  BY DEF ReviewTypeOK, Place, Places
<1>3. trail' = [action |-> action, from |-> Place, to |-> to, role |-> role]
  BY DEF MoveTo, Record
<1>4. published' => approval' = "approved"
  BY DEF MoveTo
<1> QED BY <1>1, <1>2, <1>3, <1>4 DEF ReviewTypeOK

LEMMA DraftTypes ==
  ASSUME ReviewTypeOK, NEW role \in Roles, CreateDraft(role) \/ Reopen(role)
  PROVE  ReviewTypeOK' /\ approval' = "draft"
<1>1. At("draft", FALSE) \in Places
  BY DEF At, Places, Approvals
<1>2. approval' = "draft" /\ ~At("draft", FALSE).published
  BY DEF CreateDraft, Reopen, MoveTo, At
<1>3. ReviewTypeOK'
  BY <1>1, <1>2, RecordTypes DEF CreateDraft, Reopen
<1> QED BY <1>2, <1>3

LEMMA TransitionTypes ==
  ASSUME ReviewTypeOK, NEW role \in Roles, NEW hasPhoto, ApplyTransition(role, hasPhoto)
  PROVE  /\ ReviewTypeOK'
         /\ approval # "none" /\ approval' # "none"
         /\ approval' = "approved" => approval \in {"pending", "approved"}
<1>1. PICK action \in Moves : Transition(action, role, hasPhoto)
  BY DEF ApplyTransition
<1>2. /\ Place = Expected[action]
      /\ MoveTo(action, role, Target[action])
  BY <1>1 DEF Transition
<1>3. /\ Target[action] \in Places
      /\ Target[action].published => Target[action].approval = "approved"
      /\ Target[action].approval # "none" /\ Expected[action].approval # "none"
      /\ Target[action].approval = "approved" =>
           Expected[action].approval \in {"pending", "approved"}
  <2> USE DEF Moves, Target, Expected, At, Places, Approvals
  <2>1. CASE action = "submit"
    BY <2>1
  <2>2. CASE action = "approve"
    BY <2>2
  <2>3. CASE action = "reject"
    BY <2>3
  <2>4. CASE action = "publish"
    BY <2>4
  <2>5. CASE action = "unpublish"
    BY <2>5
  <2> QED BY <2>1, <2>2, <2>3, <2>4, <2>5
<1>4. approval = Expected[action].approval /\ approval' = Target[action].approval
  BY <1>2 DEF Place, MoveTo
<1>5. ReviewTypeOK'
  BY <1>2, <1>3, RecordTypes
<1> QED BY <1>3, <1>4, <1>5

LEMMA ExtrasTypes ==
  ASSUME OffersTypeOK, NEW set \in ExtraDiffs \union {extras}
  PROVE  set \in [Extras -> ExtraValues \union {None}]
BY DEF OffersTypeOK, ExtraDiffs

LEMMA CreateIInv ==
  ASSUME OffersAssumption, OffersIInv, NEW role \in Roles, CreateListing(role)
  PROVE  OffersIInv'
<1> USE DEF OffersIInv
<1>1. PICK p \in Prices, o \in Operations, set \in ExtraDiffs :
        /\ offer' = [price |-> p, operation |-> o, deposit |-> None]
        /\ extras' = set
        /\ inserted' = Present(set)
        /\ version' = 1 + Cardinality(Present(set))
        /\ version' <= MaxVersion
  BY DEF CreateListing
<1>2. ReviewTypeOK' /\ approval' = "draft" /\ approval = "none"
  BY DraftTypes DEF CreateListing, OffersTypeOK, CreateDraft
<1>3. version' \in 0 .. MaxVersion
  <2>1. IsFiniteSet(Present(set))
    BY FS_Subset DEF OffersAssumption, Present
  <2>2. Cardinality(Present(set)) \in Nat
    BY <2>1, FS_CardinalityType
  <2> QED BY <1>1, <2>2 DEF OffersAssumption
<1>4. UNCHANGED customerVars /\ page = None /\ \A q \in Quotes : quotes[q] = None /\ booked[q] = None
  BY <1>2 DEF CreateListing, NothingBefore
<1>5. OffersTypeOK'
  <2>1. extras' \in [Extras -> ExtraValues \union {None}]
    BY <1>1, ExtrasTypes
  <2>2. Present(extras)' \subseteq inserted'
    BY <1>1 DEF Present
  <2>3. offer' \in Offered
    BY <1>1 DEF Offered
  <2> QED BY <1>2, <1>3, <1>4, <2>1, <2>2, <2>3 DEF OffersTypeOK, Offered, customerVars
<1>6. PageRight' /\ QuotesRight' /\ BookedRight'
  BY <1>4 DEF PageRight, QuotesRight, QuoteRight, BookedRight, customerVars
<1> QED BY <1>2, <1>5, <1>6 DEF ReviewedIsSubmitted, NothingBefore

LEMMA EditIInv ==
  ASSUME OffersAssumption, OffersIInv, NEW role \in Roles,
         EditListing(role) \/ SetDeposit(role)
  PROVE  OffersIInv'
<1> USE DEF OffersIInv
<1>1. ASSUME NEW offer2 \in Offered, NEW extras2 \in [Extras -> ExtraValues \union {None}],
             WriteOffer(offer2, extras2), ReviewTypeOK', approval' # "none",
             UNCHANGED <<submitted, customerVars>>,
             \/ approval' = "draft"
             \/ approval' = approval /\ Content' = Content
      PROVE  OffersIInv'
  <2>1. Versioned /\ version' \in 0 .. MaxVersion
    BY <1>1, WriteVersioned
  <2>2. offer' = offer2 /\ extras' = extras2 /\ inserted' = inserted \union Present(extras2)
    BY <1>1 DEF WriteOffer
  <2>3. OffersTypeOK'
    BY <1>1, <2>1, <2>2 DEF OffersTypeOK, Offered, Present, customerVars
  <2>4. ReviewedIsSubmitted'
    BY <1>1 DEF ReviewedIsSubmitted
  <2>5. PageRight' /\ QuotesRight' /\ BookedRight'
    BY <1>1, <2>1, ReadingsStay
  <2> QED BY <1>1, <2>3, <2>4, <2>5 DEF NothingBefore
<1>2. approval # "none" => offer \in Offered
  BY DEF OffersTypeOK, Offered
<1>3. CASE EditListing(role)
  <2>1. PICK p \in Prices, o \in Operations, set \in ExtraDiffs \union {extras} :
          WriteOffer([offer EXCEPT !.price = p, !.operation = o], set)
    BY <1>3 DEF EditListing
  <2>2. ReviewTypeOK' /\ approval' = "draft" /\ approval # "none"
    BY <1>3, DraftTypes DEF EditListing, OffersTypeOK, Reopen
  <2>3. [offer EXCEPT !.price = p, !.operation = o] \in Offered
    BY <1>2, <2>2 DEF Offered
  <2>4. set \in [Extras -> ExtraValues \union {None}]
    BY ExtrasTypes
  <2>5. UNCHANGED <<submitted, customerVars>>
    BY <1>3 DEF EditListing
  <2> QED BY <1>1, <2>1, <2>2, <2>3, <2>4, <2>5
<1>4. CASE SetDeposit(role)
  <2>1. PICK d \in Deposits : WriteOffer([offer EXCEPT !.deposit = d], extras)
    BY <1>4 DEF SetDeposit
  <2>2. approval # "none" /\ UNCHANGED <<reviewVars, submitted, customerVars>>
    BY <1>4 DEF SetDeposit
  <2>3. /\ [offer EXCEPT !.deposit = d] \in Offered
        /\ [offer EXCEPT !.deposit = d].price = offer.price
        /\ [offer EXCEPT !.deposit = d].operation = offer.operation
    BY <1>2, <2>2 DEF Offered
  <2>4. Content' = Content
    BY <2>1, <2>3 DEF Content, WriteOffer
  <2>5. extras \in [Extras -> ExtraValues \union {None}] /\ ReviewTypeOK'
    BY <2>2 DEF OffersTypeOK, ReviewTypeOK, reviewVars
  <2>6. approval' = approval
    BY <2>2 DEF reviewVars
  <2> QED BY <1>1, <2>1, <2>2, <2>3, <2>4, <2>5, <2>6
<1> QED BY <1>3, <1>4

\* Nothing of the offer changes.
LEMMA OfferKept ==
  ASSUME OffersIInv, UNCHANGED offerVars PROVE Versioned
BY DEF offerVars, Versioned, OffersIInv, OffersTypeOK, Base, SameExtras, ExtraChanged

LEMMA ReviewIInv ==
  ASSUME OffersIInv, NEW role \in Roles, ReviewListing(role)
  PROVE  OffersIInv'
<1> USE DEF OffersIInv
<1>1. PICK hasPhoto \in BOOLEAN : ApplyTransition(role, hasPhoto)
  BY DEF ReviewListing
<1>2. /\ ReviewTypeOK'
      /\ approval # "none" /\ approval' # "none"
      /\ approval' = "approved" => approval \in {"pending", "approved"}
  BY <1>1, TransitionTypes DEF OffersTypeOK
<1>3. /\ submitted' = IF approval' = "pending" THEN Content ELSE submitted
      /\ UNCHANGED <<offerVars, customerVars>>
  BY DEF ReviewListing
<1>4. OffersTypeOK' /\ Content' = Content
  BY <1>2, <1>3 DEF OffersTypeOK, offerVars, customerVars, Present, Content
<1>5. ReviewedIsSubmitted'
  BY <1>2, <1>3, <1>4 DEF ReviewedIsSubmitted
<1>6. PageRight' /\ QuotesRight' /\ BookedRight'
  BY <1>3, OfferKept, ReadingsStay
<1> QED BY <1>2, <1>4, <1>5, <1>6 DEF NothingBefore

-----------------------------------------------------------------------------
(* The customers. *)

\* What customers do leaves the listing as it is.
LEMMA ListingKept ==
  ASSUME OffersIInv, UNCHANGED <<reviewVars, offerVars, submitted, lapsed>>
  PROVE  OffersTypeOK' /\ ReviewedIsSubmitted'
BY DEF OffersIInv, OffersTypeOK, ReviewTypeOK, ReviewedIsSubmitted, reviewVars, offerVars,
       Present, Content

LEMMA PageIInv ==
  ASSUME OffersIInv, OpenPage \/ FinishPage \/ ClosePage
  PROVE  OffersIInv'
<1> USE DEF OffersIInv
<1>1. /\ UNCHANGED <<reviewVars, offerVars, submitted, quotes, lapsed, booked>>
      /\ UNCHANGED <<approval, offer, extras, version>>
  BY DEF OpenPage, FinishPage, ClosePage, reviewVars, offerVars
<1>2. PageRight' /\ (page' # None => approval' # "none")
  <2>1. CASE OpenPage
    BY <1>1, <2>1 DEF OpenPage, PageRight, PageShape, Base, IsPublic, OffersTypeOK
  <2>2. CASE FinishPage
    <3>1. page # None /\ PageShape(page) /\ approval # "none"
      BY <2>2 DEF FinishPage, PageRight, NothingBefore
    <3>2. page' = [page EXCEPT !.step = "shown", !.extras = extras]
      BY <2>2 DEF FinishPage
    <3>3. PageShape(page') /\ page'.version = page.version /\ page'.base = page.base
          /\ page'.extras = extras
      BY <3>1, <3>2 DEF PageShape
    <3> QED
      BY <1>1, <3>1, <3>3 DEF PageRight, PageShape, Base, SameExtras, ExtraChanged
  <2>3. CASE ClosePage
    BY <2>3 DEF ClosePage, PageRight
  <2> QED BY <2>1, <2>2, <2>3
<1>3. QuotesRight' /\ BookedRight'
  BY <1>1 DEF QuotesRight, QuoteRight, BookedRight, Base, Present
<1>4. NothingBefore'
  BY <1>1, <1>2 DEF NothingBefore
<1> QED BY <1>1, <1>2, <1>3, <1>4, ListingKept

\* A customer is quoted what the page showed.
LEMMA QuoteIInv ==
  ASSUME OffersIInv, NEW q \in Quotes, NEW selected \in SUBSET Extras,
         CreateQuote(q, selected)
  PROVE  OffersIInv'
<1> USE DEF OffersIInv
<1> DEFINE quote == [version |-> version, selected |-> selected,
                     lines |-> LinesOf(Base, extras, selected),
                     shown |-> LinesOf(page.base, page.extras, selected),
                     deposit |-> offer.deposit]
<1>1. /\ UNCHANGED <<reviewVars, offerVars, submitted, page, lapsed, booked>>
      /\ UNCHANGED <<approval, offer, extras, version>>
      /\ quotes[q] = None /\ quotes' = [quotes EXCEPT ![q] = quote]
  BY DEF CreateQuote, Base, reviewVars, offerVars
<1>2. approval = "approved" /\ selected \subseteq Present(extras)
  BY DEF CreateQuote, IsPublic
<1>3. quote.lines = quote.shown
  <2>1. page.base = Base /\ SameExtras(page.extras, extras)
    BY DEF CreateQuote, VersionExpected, PageRight
  <2>2. selected \subseteq Present(page.extras)
    BY DEF CreateQuote
  <2> QED BY <2>1, <2>2, SameLines
<1>4. QuotesRight'
  <2>1. ASSUME NEW z \in Quotes, z # q PROVE QuoteRight(z)'
    BY <1>1, <2>1 DEF QuotesRight, QuoteRight, Base, Present
  <2>2. QuoteRight(q)'
    <3>1. quotes'[q] = quote /\ version \in 0 .. version
      BY <1>1 DEF QuotesRight, OffersTypeOK
    <3>2. QuoteShape(quote) /\ quote.version = version /\ quote.deposit = offer.deposit
          /\ quote.selected = selected /\ quote.lines = LinesOf(Base, extras, selected)
      BY DEF QuoteShape
    <3>3. Base' = Base /\ Present(extras)' = Present(extras)
          /\ LinesOf(Base, extras, selected)' = LinesOf(Base, extras, selected)
      BY <1>1 DEF Base, Present, LinesOf
    <3> HIDE DEF quote
    <3> QED BY <1>1, <1>2, <1>3, <3>1, <3>2, <3>3 DEF QuoteRight, QuoteShape
  <2> QED BY <1>1, <2>1, <2>2 DEF QuotesRight
<1>5. BookedRight'
  BY <1>1 DEF BookedRight, QuotesRight
<1>6. PageRight' /\ NothingBefore'
  BY <1>1, <1>2 DEF PageRight, NothingBefore, Base
<1> QED BY <1>1, <1>4, <1>5, <1>6, ListingKept

\* Time passes, or the customer reserves by a quote that is in time and current.
LEMMA ReserveIInv ==
  ASSUME OffersIInv, NEW q \in Quotes, ExpireQuote(q) \/ Reserve(q)
  PROVE  OffersIInv'
<1> USE DEF OffersIInv
<1>1. /\ UNCHANGED <<reviewVars, offerVars, submitted, page, quotes>>
      /\ UNCHANGED <<approval, offer, extras, version>>
      /\ lapsed' \subseteq Quotes
      /\ quotes[q] # None
  BY DEF ExpireQuote, Reserve, QuoteUsable, reviewVars, offerVars, OffersTypeOK
<1>2. OffersTypeOK' /\ ReviewedIsSubmitted'
  BY <1>1 DEF OffersTypeOK, ReviewTypeOK, ReviewedIsSubmitted, reviewVars, offerVars,
              Present, Content
<1>3. PageRight' /\ QuotesRight'
  BY <1>1 DEF PageRight, QuotesRight, QuoteRight, Base, Present, LinesOf
<1>4. BookedRight' /\ NothingBefore'
  <2>1. CASE ExpireQuote(q)
    BY <1>1, <2>1 DEF ExpireQuote, BookedRight, NothingBefore
  <2>2. CASE Reserve(q)
    <3> DEFINE booking == [deposit |-> offer.deposit, lines |-> quotes[q].lines]
    <3>1. booked' = [booked EXCEPT ![q] = booking]
      BY <2>2 DEF Reserve
    <3>2. booking.deposit = quotes[q].deposit /\ booking.lines = quotes[q].shown
      BY <2>2 DEF Reserve, QuoteUsable, QuotesRight, QuoteRight
    <3>3. approval # "none"
      BY <1>1 DEF NothingBefore
    <3> HIDE DEF booking
    <3> QED BY <1>1, <3>1, <3>2, <3>3 DEF BookedRight, NothingBefore
  <2> QED BY <2>1, <2>2
<1> QED BY <1>2, <1>3, <1>4

-----------------------------------------------------------------------------
(* The theorem. *)

LEMMA OffersInitIInv == ASSUME OffersAssumption, Init PROVE OffersIInv
<1> USE DEF Init, ReviewInit, OffersAssumption
<1>1. ReviewTypeOK
  BY DEF ReviewTypeOK, Places, At
<1>2. OffersTypeOK
  BY <1>1 DEF OffersTypeOK, Present
<1> QED
  BY <1>2
  DEF OffersIInv, ReviewedIsSubmitted, PageRight, QuotesRight, QuoteRight, BookedRight,
      NothingBefore

LEMMA OffersInductive ==
  ASSUME OffersAssumption, OffersIInv, [Next]_vars
  PROVE  OffersIInv'
<1>1. CASE UNCHANGED vars
  BY <1>1
  DEF vars, reviewVars, offerVars, customerVars, OffersIInv, OffersTypeOK, ReviewTypeOK,
      Present, ReviewedIsSubmitted, Content, PageRight, QuotesRight, QuoteRight, Base,
      BookedRight, NothingBefore
<1>2. CASE Next
  BY <1>2, CreateIInv, EditIInv, ReviewIInv, PageIInv, QuoteIInv, ReserveIInv DEF Next
<1> QED BY <1>1, <1>2

\* Whatever staff edit between any two reads of a customer: what is under review or
\* public is what was submitted, a quote of the current version says what the offer
\* says, and quotes and reservations are of what the page showed.
THEOREM OffersSafe == ASSUME OffersAssumption PROVE Spec => []OffersInvariant
<1>1. OffersAssumption /\ Init => OffersIInv
  BY OffersInitIInv
<1>2. OffersAssumption /\ OffersIInv /\ [Next]_vars => OffersIInv'
  BY OffersInductive
<1>3. OffersIInv => OffersInvariant
  BY DEF OffersIInv, OffersInvariant, QuotesRight, QuoteRight, BookedRight, Base,
         CurrentQuoteIsOffer, QuotedAsShown, BookedAsQuoted
<1> QED BY <1>1, <1>2, <1>3, PTL DEF Spec
-----------------------------------------------------------------------------
(* The history of the listing. *)

\* The last row of the history ends where the listing is.
TrailEnds == trail.to = Place

LEMMA MoveIsRecorded ==
  ASSUME TrailEnds, NEW action, NEW role, NEW to \in Places, MoveTo(action, role, to)
  PROVE  TrailEnds' /\ HistoryKept
<1>1. trail' = [action |-> action, from |-> Place, to |-> to, role |-> role]
  BY DEF MoveTo, Record
<1>2. to = [approval |-> approval', published |-> published']
  BY DEF MoveTo, Places
<1>3. trail'.from = trail.to /\ trail'.to = [approval |-> approval', published |-> published']
  BY <1>1, <1>2 DEF TrailEnds
<1>4. TrailEnds'
  BY <1>3 DEF TrailEnds, Place
<1> QED BY <1>3, <1>4 DEF HistoryKept

LEMMA TargetsArePlaces == ASSUME NEW action \in Moves PROVE Target[action] \in Places
<1> USE DEF Moves, Target, At, Places, Approvals
<1>1. CASE action = "submit"
  BY <1>1
<1>2. CASE action = "approve"
  BY <1>2
<1>3. CASE action = "reject"
  BY <1>3
<1>4. CASE action = "publish"
  BY <1>4
<1>5. CASE action = "unpublish"
  BY <1>5
<1> QED BY <1>1, <1>2, <1>3, <1>4, <1>5

LEMMA HistoryStarts == ASSUME Init PROVE TrailEnds
BY DEF Init, ReviewInit, TrailEnds, Place, At

LEMMA HistoryStays == ASSUME TrailEnds, [Next]_vars PROVE TrailEnds' /\ HistoryKept
<1>1. ASSUME UNCHANGED reviewVars PROVE TrailEnds' /\ HistoryKept
  BY <1>1 DEF reviewVars, TrailEnds, Place, HistoryKept
<1>2. At("draft", FALSE) \in Places
  BY DEF At, Places, Approvals
<1>3. ASSUME NEW role \in Roles, CreateListing(role) \/ EditListing(role) PROVE TrailEnds' /\ HistoryKept
  BY <1>2, <1>3, MoveIsRecorded DEF CreateListing, CreateDraft, EditListing, Reopen
<1>4. ASSUME NEW role \in Roles, ReviewListing(role) PROVE TrailEnds' /\ HistoryKept
  <2>1. PICK action \in Moves : MoveTo(action, role, Target[action])
    BY <1>4 DEF ReviewListing, ApplyTransition, Transition
  <2> QED BY <2>1, TargetsArePlaces, MoveIsRecorded
<1> QED
  BY <1>1, <1>3, <1>4
  DEF Next, vars, SetDeposit, OpenPage, FinishPage, ClosePage, CreateQuote, ExpireQuote, Reserve

-----------------------------------------------------------------------------
(* Furniture: the instance F of FurnitureReview. *)

\* Furniture: the screens and the rows are typed.
FurnitureRows ==
  /\ sceneScreen \in [Editors -> F!SceneScreens \union {None}]
  /\ offerScreen \in [Editors -> F!OfferScreens \union {None}]
  /\ reviews \in [Requests -> F!ReviewRows \union {None}]

\* A screen with the newest revision shows the scene as it is, one with the newest
\* version the extras of the offer.
ScreensRight ==
  \A e \in Editors :
    /\ sceneScreen[e] # None =>
         /\ sceneScreen[e].revision <= revision
         /\ sceneScreen[e].revision = revision => sceneScreen[e].objects = scene
    /\ offerScreen[e] # None =>
         /\ offerScreen[e].version <= itemVersion
         /\ offerScreen[e].version = itemVersion => offerScreen[e].extras = items

FurnitureIInv == F!FurnitureInvariant /\ FurnitureRows /\ ScreensRight

LEMMA FurnitureStarts == ASSUME F!FurnitureAssumption, F!Init PROVE FurnitureIInv
BY DEF F!Init, F!FurnitureAssumption, FurnitureIInv, F!FurnitureInvariant,
     F!FurnitureTypeOK, FurnitureRows,
       ScreensRight, F!NoLostSceneUpdate, F!AddedOnce, F!DecidedOverSeenOffer, F!Decided

\* Nothing but a review changes what the reviews' own invariants speak of.
LEMMA ReviewsKept ==
  ASSUME FurnitureIInv, UNCHANGED <<reviews, itemIds>>
  PROVE  F!AddedOnce' /\ F!DecidedOverSeenOffer'
BY DEF FurnitureIInv, F!FurnitureInvariant, F!AddedOnce, F!DecidedOverSeenOffer, F!Decided

LEMMA SceneIsSaved ==
  ASSUME F!FurnitureAssumption, FurnitureIInv, NEW e \in Editors, F!SaveScene(e)
  PROVE  FurnitureIInv'
<1>0. PICK ifMatch \in {None, F!Star, F!Tag(e)}, ifNoneMatch \in {None, F!Star}, o \in F!Objects :
        LET saved == IF o \in F!Shown(e) THEN F!Shown(e) \ {o} ELSE F!Shown(e) \union {o}
        IN /\ F!Precondition(ifMatch, ifNoneMatch)
           /\ F!Upsert(saved)
           /\ lastSave' = [ifMatch |-> ifMatch, ifNoneMatch |-> ifNoneMatch,
                           basis |-> F!Shown(e), over |-> scene]
           /\ sceneScreen' = [sceneScreen EXCEPT ![e] =
                                [objects |-> saved, revision |-> revision']]
  BY DEF F!SaveScene
<1> DEFINE objects == IF o \in F!Shown(e) THEN F!Shown(e) \ {o} ELSE F!Shown(e) \union {o}
<1>1. /\ objects \in {F!Shown(e) \ {o}, F!Shown(e) \union {o}}
      /\ F!Precondition(ifMatch, ifNoneMatch)
      /\ F!Upsert(objects)
      /\ lastSave' = [ifMatch |-> ifMatch, ifNoneMatch |-> ifNoneMatch,
                      basis |-> F!Shown(e), over |-> scene]
      /\ sceneScreen' = [sceneScreen EXCEPT ![e] =
                           [objects |-> objects, revision |-> revision']]
  BY <1>0
<1>2. UNCHANGED <<items, itemIds, itemVersion, current, reviews, offerScreen>>
  BY DEF F!SaveScene, F!offerVars
<1>3. F!Shown(e) \subseteq F!Objects
  BY DEF F!Shown, FurnitureIInv, FurnitureRows, F!SceneScreens
<1>4. objects \in SUBSET F!Objects /\ objects # None
  BY <1>1, <1>3 DEF F!FurnitureAssumption
<1> HIDE DEF objects
<1>5. revision \in Nat /\ revision' = revision + 1 /\ revision' \in Nat /\ revision < MaxRevision
      /\ scene' = objects /\ MaxRevision \in Nat /\ itemVersion \in Nat
  BY <1>1 DEF F!Upsert, FurnitureIInv, F!FurnitureInvariant, F!FurnitureTypeOK,
       F!FurnitureAssumption
<1>6. FurnitureRows'
  BY <1>1, <1>2, <1>4, <1>5 DEF FurnitureIInv, FurnitureRows, F!SceneScreens
<1>7. \A d \in Editors : sceneScreen[d] # None => sceneScreen[d].revision \in Nat
  BY DEF FurnitureIInv, FurnitureRows, F!SceneScreens
<1>8. ASSUME NEW d \in Editors, sceneScreen'[d] # None
      PROVE  /\ sceneScreen'[d].revision <= revision'
             /\ sceneScreen'[d].revision = revision' => sceneScreen'[d].objects = scene'
  <2>1. CASE d = e
    BY <1>1, <1>5, <2>1 DEF FurnitureIInv, FurnitureRows
  <2>2. CASE d # e
    BY <1>1, <1>5, <1>7, <1>8, <2>2 DEF FurnitureIInv, FurnitureRows, ScreensRight
  <2> QED BY <2>1, <2>2
<1>9. ScreensRight'
  BY <1>2, <1>8 DEF FurnitureIInv, ScreensRight
<1>10. F!FurnitureTypeOK'
  BY <1>2, <1>4, <1>5, <1>8 DEF FurnitureIInv, F!FurnitureInvariant, F!FurnitureTypeOK
<1>11. F!NoLostSceneUpdate'
  <2>1. ifMatch \notin {None, F!Star} => scene = F!Shown(e)
    <3> SUFFICES ASSUME ifMatch \notin {None, F!Star} PROVE scene = F!Shown(e)
      OBVIOUS
    <3>1. ifMatch = F!Tag(e) /\ sceneScreen[e] # None
      BY <1>1 DEF F!Tag
    <3>2. revision = sceneScreen[e].revision
      BY <1>1, <3>1 DEF F!Precondition, F!TagMatches, F!Tag
    <3> QED BY <3>1, <3>2 DEF F!Shown, FurnitureIInv, ScreensRight
  <2>2. ifNoneMatch = F!Star => scene = None
    BY <1>1, <1>5 DEF F!Precondition, F!TagMatches, F!FurnitureAssumption, F!Star, FurnitureIInv,
          F!FurnitureInvariant, F!FurnitureTypeOK
  <2> QED BY <1>1, <2>1, <2>2 DEF F!NoLostSceneUpdate
<1> QED BY <1>2, <1>6, <1>9, <1>10, <1>11, ReviewsKept DEF FurnitureIInv, F!FurnitureInvariant

\* What a review does: the offer and the scene grow together, by a new extra, or
\* stay; its row is a new one, for a suggestion that has none, over the extras seen.
LEMMA ReviewDoes ==
  ASSUME F!FurnitureAssumption, FurnitureIInv, NEW e \in Editors, NEW r \in Requests,
         NEW cmd \in F!Commands, F!Review(e, r, cmd)
  PROVE  /\ reviews[r] = None
         /\ UNCHANGED <<current, sceneScreen, offerScreen, lastSave>>
         /\ \E newRow \in F!ReviewRows :
              /\ reviews' = [reviews EXCEPT ![r] = newRow]
              /\ newRow.source = cmd.source
              /\ \A q \in F!Decided : newRow.source # None => reviews[q].source # newRow.source
              /\ newRow.seen = newRow.had
              /\ newRow.extra # None => newRow.extra \in scene'
              /\ newRow.added => /\ newRow.extra \in Extras \ itemIds
                              /\ newRow.source \notin scene'
                              /\ itemIds' = itemIds \union {newRow.extra}
                              /\ items' = items \union {newRow.extra}
                              /\ itemVersion < MaxVersion /\ itemVersion' = itemVersion + 1
                              /\ scene # None /\ scene' \in SUBSET F!Objects
                              /\ revision < MaxRevision /\ revision' = revision + 1
              /\ ~newRow.added => UNCHANGED <<items, itemIds, itemVersion, scene, revision>>
<1>1. PICK x \in Extras \union {None} :
        /\ IF cmd.item THEN F!AddItem(x, cmd)
           ELSE /\ x = cmd.existing
                /\ x # None => x \in items /\ scene # None /\ x \in scene
                /\ UNCHANGED <<F!offerVars, F!sceneVars>>
        /\ reviews' = [reviews EXCEPT ![r] =
             [action |-> cmd.action, source |-> cmd.source, extra |-> x,
              added |-> cmd.item, seen |-> offerScreen[e].extras, had |-> items]]
  BY DEF F!Review
<1> DEFINE newRow == [action |-> cmd.action, source |-> cmd.source, extra |-> x,
                   added |-> cmd.item, seen |-> offerScreen[e].extras, had |-> items]
<1>2. cmd.action \in {"manual", "rejected", "confirmed"} /\ cmd.item \in BOOLEAN
      /\ cmd.source \in F!Suggestions \union {None}
  BY DEF F!Commands
<1>3. reviews[r] = None /\ UNCHANGED <<current, sceneScreen, offerScreen, lastSave>>
  BY DEF F!Review, F!Previous, F!Decided, F!screens
<1>4. \A q \in F!Decided : cmd.source # None => reviews[q].source # cmd.source
  BY DEF F!Review, F!Previous, F!Decision
<1>5. items \in SUBSET Extras /\ offerScreen[e].extras = items
  BY DEF F!Review, F!OfferAsExpected, FurnitureIInv, ScreensRight, F!FurnitureInvariant,
       F!FurnitureTypeOK
<1>6. newRow \in F!ReviewRows
  BY <1>2, <1>5 DEF F!ReviewRows
<1>7. newRow.source = cmd.source /\ newRow.extra = x /\ newRow.added = cmd.item
      /\ newRow.seen = offerScreen[e].extras /\ newRow.had = items
  OBVIOUS
<1>8. scene # None => scene \subseteq F!Objects
  BY DEF FurnitureIInv, F!FurnitureInvariant, F!FurnitureTypeOK
<1> HIDE DEF newRow
<1>9. CASE cmd.item
  <2>1. F!AddItem(x, cmd)
    BY <1>1, <1>9
  <2>2. x \in Extras \ itemIds /\ scene # None /\ itemVersion < MaxVersion /\ revision < MaxRevision
        /\ items' = items \union {x} /\ itemIds' = itemIds \union {x}
        /\ itemVersion' = itemVersion + 1 /\ revision' = revision + 1
        /\ scene' = (scene \ ({cmd.source} \intersect Volumes)) \union {x}
    BY <2>1 DEF F!AddItem, F!Upsert, F!Placed
  <2>3. scene' \in SUBSET F!Objects
    BY <1>8, <2>2 DEF F!Objects
  <2>4. cmd.source \notin scene'
    BY <1>2, <1>8, <2>2 DEF F!Objects, F!Suggestions, F!FurnitureAssumption
  <2> QED BY <1>1, <1>3, <1>4, <1>5, <1>6, <1>7, <1>9, <2>2, <2>3, <2>4 DEF newRow
<1>10. CASE ~cmd.item
  <2>1. UNCHANGED <<items, itemIds, itemVersion, scene, revision>> /\ (x # None => x \in scene)
    BY <1>1, <1>10 DEF F!offerVars, F!sceneVars
  <2> QED BY <1>1, <1>3, <1>4, <1>5, <1>6, <1>7, <1>10, <2>1 DEF newRow
<1> QED BY <1>2, <1>9, <1>10

LEMMA ReviewIsRight ==
  ASSUME F!FurnitureAssumption, FurnitureIInv, NEW e \in Editors, NEW r \in Requests,
         NEW cmd \in F!Commands, F!Review(e, r, cmd)
  PROVE  FurnitureIInv'
<1>1. reviews[r] = None /\ UNCHANGED <<current, sceneScreen, offerScreen, lastSave>>
  BY ReviewDoes
<1>2. PICK newRow \in F!ReviewRows :
        /\ reviews' = [reviews EXCEPT ![r] = newRow]
        /\ newRow.source = cmd.source
        /\ \A q \in F!Decided : newRow.source # None => reviews[q].source # newRow.source
        /\ newRow.seen = newRow.had
        /\ newRow.extra # None => newRow.extra \in scene'
        /\ newRow.added => /\ newRow.extra \in Extras \ itemIds
                        /\ newRow.source \notin scene'
                        /\ itemIds' = itemIds \union {newRow.extra}
                        /\ items' = items \union {newRow.extra}
                        /\ itemVersion < MaxVersion /\ itemVersion' = itemVersion + 1
                        /\ scene # None /\ scene' \in SUBSET F!Objects
                        /\ revision < MaxRevision /\ revision' = revision + 1
        /\ ~newRow.added => UNCHANGED <<items, itemIds, itemVersion, scene, revision>>
  BY ReviewDoes
<1>3. newRow # None
  BY DEF F!FurnitureAssumption
<1>4. F!Decided' = F!Decided \union {r} /\ \A q \in F!Decided : q # r /\ reviews'[q] = reviews[q]
  BY <1>1, <1>2, <1>3 DEF F!Decided, FurnitureIInv, FurnitureRows
<1>5. reviews'[r] = newRow
  BY <1>2 DEF FurnitureIInv, FurnitureRows
<1>6. FurnitureRows'
  BY <1>1, <1>2 DEF FurnitureIInv, FurnitureRows
<1>7. revision \in Nat /\ itemVersion \in Nat /\ MaxRevision \in Nat /\ MaxVersion \in Nat
      /\ itemVersion \in 1 .. MaxVersion /\ revision \in 0 .. MaxRevision
      /\ (scene = None <=> revision = 0)
  BY DEF FurnitureIInv, F!FurnitureInvariant, F!FurnitureTypeOK, F!FurnitureAssumption
<1>8. \A d \in Editors :
        /\ sceneScreen[d] # None => sceneScreen[d].revision \in Nat
        /\ offerScreen[d] # None => offerScreen[d].version \in Nat
  BY DEF FurnitureIInv, FurnitureRows, F!SceneScreens, F!OfferScreens
<1>9. ScreensRight'
  <2>1. CASE newRow.added
    BY <1>1, <1>2, <1>7, <1>8, <2>1 DEF FurnitureIInv, ScreensRight
  <2>2. CASE ~newRow.added
    BY <1>1, <1>2, <2>2 DEF FurnitureIInv, ScreensRight
  <2> QED BY <2>1, <2>2
<1>10. F!FurnitureTypeOK'
  <2>1. CASE newRow.added
    <3>1. scene' # None /\ scene' \subseteq F!Objects /\ revision' \in 0 .. MaxRevision /\ revision' # 0
          /\ itemVersion' \in 1 .. MaxVersion
      BY <1>2, <1>7, <2>1 DEF F!FurnitureAssumption
    <3>2. items' \subseteq itemIds' /\ itemIds' \subseteq Extras
      BY <1>2, <2>1 DEF FurnitureIInv, F!FurnitureInvariant, F!FurnitureTypeOK
    <3>3. \A d \in Editors : sceneScreen'[d] # None => sceneScreen'[d].revision <= revision'
      BY <1>9 DEF ScreensRight
    <3> QED BY <3>1, <3>2, <3>3 DEF F!FurnitureTypeOK
  <2>2. CASE ~newRow.added
    BY <1>1, <1>2, <2>2 DEF FurnitureIInv, F!FurnitureInvariant, F!FurnitureTypeOK
  <2> QED BY <2>1, <2>2
<1>11. F!NoLostSceneUpdate'
  BY <1>1 DEF FurnitureIInv, F!FurnitureInvariant, F!NoLostSceneUpdate
<1>12. itemIds \subseteq itemIds' /\ (newRow.added => newRow.extra \in itemIds' /\ newRow.extra \notin itemIds)
  BY <1>2
<1>13. F!AddedOnce'
  <2>1. \A q \in F!Decided' : reviews'[q].added => reviews'[q].extra \in itemIds'
    BY <1>4, <1>5, <1>12 DEF FurnitureIInv, F!FurnitureInvariant, F!AddedOnce
  <2>2. ASSUME NEW q \in F!Decided', NEW p \in F!Decided', q # p
        PROVE  /\ reviews'[q].added /\ reviews'[p].added => reviews'[q].extra # reviews'[p].extra
               /\ reviews'[q].source # None => reviews'[q].source # reviews'[p].source
    <3>1. CASE q \in F!Decided /\ p \in F!Decided
      BY <1>4, <2>2, <3>1 DEF FurnitureIInv, F!FurnitureInvariant, F!AddedOnce
    <3>2. CASE q = r /\ p \in F!Decided
      BY <1>2, <1>4, <1>5, <1>12, <3>2 DEF FurnitureIInv, F!FurnitureInvariant, F!AddedOnce
    <3>3. CASE q \in F!Decided /\ p = r
      BY <1>2, <1>4, <1>5, <1>12, <3>3 DEF FurnitureIInv, F!FurnitureInvariant, F!AddedOnce
    <3> QED BY <1>4, <2>2, <3>1, <3>2, <3>3
  <2> QED BY <2>1, <2>2 DEF F!AddedOnce
<1>14. F!DecidedOverSeenOffer'
  BY <1>2, <1>4, <1>5 DEF FurnitureIInv, F!FurnitureInvariant, F!DecidedOverSeenOffer
<1> QED BY <1>6, <1>9, <1>10, <1>11, <1>13, <1>14 DEF FurnitureIInv, F!FurnitureInvariant

LEMMA FurnitureSteps ==
  ASSUME F!FurnitureAssumption, FurnitureIInv, [F!Next]_(F!vars)
  PROVE  FurnitureIInv'
<1>1. ASSUME NEW e \in Editors, F!LoadScene(e) PROVE FurnitureIInv'
  <2>1. [objects |-> scene, revision |-> revision] \in F!SceneScreens
    BY <1>1 DEF F!LoadScene, F!SceneScreens, FurnitureIInv, F!FurnitureInvariant,
         F!FurnitureTypeOK, F!FurnitureAssumption
  <2> QED
    BY <1>1, <2>1, ReviewsKept DEF F!LoadScene, F!offerVars, F!sceneVars, FurnitureIInv,
       F!FurnitureInvariant,
             F!FurnitureTypeOK, FurnitureRows, ScreensRight, F!NoLostSceneUpdate, F!FurnitureAssumption
<1>2. ASSUME NEW e \in Editors, F!LoadReview(e) PROVE FurnitureIInv'
  <2>1. [extras |-> items, version |-> itemVersion] \in F!OfferScreens /\ itemVersion \in Nat
    BY DEF F!OfferScreens, FurnitureIInv, F!FurnitureInvariant, F!FurnitureTypeOK,
         F!FurnitureAssumption
  <2> QED
    BY <1>2, <2>1, ReviewsKept DEF F!LoadReview, F!offerVars, F!sceneVars, FurnitureIInv,
       F!FurnitureInvariant,
             F!FurnitureTypeOK, FurnitureRows, ScreensRight, F!NoLostSceneUpdate, F!FurnitureAssumption
<1>3. ASSUME F!RemoveExtra PROVE FurnitureIInv'
  <2>1. \A d \in Editors : offerScreen[d] # None => offerScreen[d].version \in Nat
    BY DEF FurnitureIInv, FurnitureRows, F!OfferScreens
  <2> QED
    BY <1>3, <2>1, ReviewsKept DEF F!RemoveExtra, F!sceneVars, F!screens, FurnitureIInv,
       F!FurnitureInvariant,
             F!FurnitureTypeOK, FurnitureRows, ScreensRight, F!NoLostSceneUpdate, F!FurnitureAssumption
<1>4. ASSUME NEW s \in F!Suggestions, F!LoseSource(s) PROVE FurnitureIInv'
  BY <1>4, ReviewsKept DEF F!LoseSource, F!offerVars, F!sceneVars, F!screens,
       FurnitureIInv, F!FurnitureInvariant,
     F!FurnitureTypeOK, FurnitureRows, ScreensRight, F!NoLostSceneUpdate
<1>5. CASE UNCHANGED F!vars
  BY <1>5, ReviewsKept DEF F!vars, F!offerVars, F!sceneVars, F!screens, FurnitureIInv,
       F!FurnitureInvariant,
     F!FurnitureTypeOK, FurnitureRows, ScreensRight, F!NoLostSceneUpdate
<1> QED BY <1>1, <1>2, <1>3, <1>4, <1>5, SceneIsSaved, ReviewIsRight DEF F!Next

\* Rows of furniture_review are only added.
LEMMA DecisionsStay ==
  ASSUME F!FurnitureAssumption, FurnitureIInv, [F!Next]_(F!vars)
  PROVE  F!DecisionsKept /\ F!PlacedWhenConfirmed
<1>1. ASSUME UNCHANGED reviews PROVE F!DecisionsKept /\ F!PlacedWhenConfirmed
  BY <1>1 DEF F!DecisionsKept, F!StatusOf, F!Decision, F!Decided, F!PlacedWhenConfirmed
<1>2. ASSUME NEW e \in Editors, NEW r \in Requests, NEW cmd \in F!Commands, F!Review(e, r, cmd)
      PROVE  F!DecisionsKept /\ F!PlacedWhenConfirmed
  <2>1. reviews[r] = None
    BY <1>2, ReviewDoes
  <2>2. PICK newRow \in F!ReviewRows :
          /\ reviews' = [reviews EXCEPT ![r] = newRow]
          /\ \A q \in F!Decided : newRow.source # None => reviews[q].source # newRow.source
          /\ newRow.extra # None => newRow.extra \in scene'
          /\ newRow.added => newRow.source \notin scene'
    BY <1>2, ReviewDoes
  <2>3. F!Decided' = F!Decided \union {r} /\ \A q \in F!Decided : q # r /\ reviews'[q] = reviews[q]
    BY <2>1, <2>2 DEF F!Decided, FurnitureIInv, FurnitureRows, F!FurnitureAssumption
  <2>4. reviews'[r] = newRow /\ \A q \in Requests \ {r} : reviews'[q] = reviews[q]
    BY <2>2 DEF FurnitureIInv, FurnitureRows
  <2>5. F!PlacedWhenConfirmed
    BY <2>2, <2>4 DEF F!PlacedWhenConfirmed
  <2>6. ASSUME NEW s \in F!Suggestions, F!StatusOf(s) \in {"confirmed", "rejected"}
        PROVE  F!StatusOf(s)' = F!StatusOf(s)
    <3>1. F!Decision(s) # {} /\ s # None
      BY <2>6 DEF F!StatusOf, F!FurnitureAssumption
    <3>2. F!Decision(s)' = F!Decision(s)
      BY <2>2, <2>3, <2>4, <3>1 DEF F!Decision
    <3>3. (CHOOSE q \in F!Decision(s) : TRUE) \in F!Decision(s)
      BY <3>1
    <3>4. (CHOOSE q \in F!Decision(s) : TRUE) \in F!Decided
      BY <3>3 DEF F!Decision
    <3> QED BY <2>3, <3>1, <3>2, <3>4 DEF F!StatusOf
  <2> QED BY <2>5, <2>6 DEF F!DecisionsKept
<1> QED
  BY <1>1, <1>2 DEF F!Next, F!vars, F!LoadScene, F!SaveScene, F!LoadReview, F!RemoveExtra,
     F!LoseSource

-----------------------------------------------------------------------------
(* Photos: the instance P of ListingPhotos. *)

\* Photos, with what the storage and the journal have of each.
Named(keys, k) == \E i \in 1 .. Len(keys) : keys[i] = k

PhotoRight(p) ==
  /\ link[p] = 0 =>
       row[p] = None /\ intent[p] = None /\ p \notin journalled
       /\ \A k \in P!Keys : object[p][k] = None
  /\ row[p] # None =>
       /\ intent[p] = None /\ p \notin journalled
       /\ link[p] <= row[p].expires
       /\ row[p].status = "confirmed" <=> row[p].original
       /\ row[p].status = "confirmed" =>
            object[p].original \in Good /\ object[p].public = object[p].original
  /\ \A k \in P!Keys \ {"staging"} : object[p][k] # None /\ row[p] = None =>
       intent[p] # None /\ Named(intent[p].keys, k)
  /\ intent[p] # None =>
       /\ link[p] <= intent[p].uploadEnds
       /\ p \in journalled => Named(intent[p].keys, "staging")
  /\ p \in journalled /\ intent[p] = None =>
       /\ link[p] + Grace <= now
       /\ \A k \in P!Keys : object[p][k] = None

PhotosTyped ==
  /\ P!ReviewTypeOK
  /\ now \in 0 .. PhotoTime
  /\ row \in [Photos -> P!PhotoRows \union {None}]
  /\ link \in [Photos -> 0 .. PhotoTime + UploadWindow]
  /\ object \in [Photos -> [P!Keys -> P!Contents \union {None}]]
  /\ intent \in [Photos -> P!DeletionRows \union {None}]
  /\ journalled \in SUBSET Photos

PhotosIInv ==
  /\ PhotosTyped
  /\ \A p \in Photos : PhotoRight(p)
  /\ P!ReviewedPhotosStand

LEMMA PhotosAreRight == ASSUME P!PhotosAssumption, PhotosIInv PROVE P!PhotosInvariant
<1>1. P!PhotosTypeOK
  <2>1. ASSUME NEW p \in Photos, row[p] # None
        PROVE  intent[p] = None /\ link[p] <= row[p].expires
               /\ (row[p].status = "confirmed" <=> row[p].original)
               /\ row[p].original \in BOOLEAN
    BY <2>1 DEF PhotosIInv, PhotosTyped, PhotoRight, P!PhotoRows
  <2>2. ASSUME NEW p \in Photos, row[p] # None
        PROVE  (row[p].status = "confirmed") = row[p].original
    <3>1. CASE row[p].original = TRUE
      BY <2>1, <2>2, <3>1
    <3>2. CASE row[p].original = FALSE
      BY <2>1, <2>2, <3>2
    <3> QED BY <2>1, <2>2, <3>1, <3>2
  <2> QED BY <2>1, <2>2 DEF PhotosIInv, PhotosTyped, P!PhotosTypeOK
<1>2. P!ConfirmedIsStored
  BY DEF P!ConfirmedIsStored, PhotosIInv, PhotoRight, P!Confirmed
<1>3. P!ForgottenIsGone
  BY DEF P!ForgottenIsGone, PhotosIInv, PhotosTyped, PhotoRight
<1>4. P!NothingUntracked
  BY DEF P!NothingUntracked, PhotosIInv, PhotoRight, Named
<1> QED BY <1>1, <1>2, <1>3, <1>4 DEF P!PhotosInvariant, PhotosIInv

LEMMA PhotosStart == ASSUME P!PhotosAssumption, P!Init PROVE PhotosIInv
<1>1. PhotosTyped
  <2>1. P!ReviewTypeOK
    BY DEF P!Init, P!ReviewInit, P!ReviewTypeOK, P!At, P!Places, P!Approvals
  <2>2. 0 \in 0 .. PhotoTime /\ 0 \in 0 .. PhotoTime + UploadWindow
    BY DEF P!PhotosAssumption
  <2> QED BY <2>1, <2>2 DEF P!Init, PhotosTyped
<1>2. ASSUME NEW p \in Photos PROVE PhotoRight(p)
  BY DEF P!Init, PhotoRight, P!Keys
<1>3. P!ReviewedPhotosStand
  BY DEF P!Init, P!ReviewInit, P!ReviewedPhotosStand
<1> QED BY <1>1, <1>2, <1>3 DEF PhotosIInv

-----------------------------------------------------------------------------
\* Deleting keys of one photo.
LEMMA DeletesSome ==
  ASSUME PhotosTyped, NEW p \in Photos, NEW keys, NEW n, P!DeleteSome(p, keys, n)
  PROVE  /\ object' \in [Photos -> [P!Keys -> P!Contents \union {None}]]
         /\ \A q \in Photos \ {p} : object'[q] = object[q]
         /\ \A k \in P!Keys : object'[p][k] = IF \E i \in 1 .. n : keys[i] = k
                                            THEN None ELSE object[p][k]
BY DEF P!DeleteSome, PhotosTyped

LEMMA AllPending ==
  /\ Len(P!PendingKeys) = 3
  /\ \A k \in P!Keys : \E i \in 1 .. 3 : P!PendingKeys[i] = k
<1>1. P!PendingKeys[1] = "staging" /\ P!PendingKeys[2] = "public" /\ P!PendingKeys[3] = "original"
  BY DEF P!PendingKeys
<1>2. 1 \in 1 .. 3 /\ 2 \in 1 .. 3 /\ 3 \in 1 .. 3
  OBVIOUS
<1> QED BY <1>1, <1>2 DEF P!Keys, P!PendingKeys

\* What the journal names: the public key, and those the row knows.
LEMMA Journals ==
  ASSUME P!PhotosAssumption, PhotosTyped, NEW p \in Photos, row[p] # None, P!Journal(p)
  PROVE  /\ intent' \in [Photos -> P!DeletionRows \union {None}]
         /\ journalled' \in SUBSET Photos
         /\ intent'[p] # None /\ intent'[p].uploadEnds = row[p].expires
         /\ Named(intent'[p].keys, "public")
         /\ row[p].original => Named(intent'[p].keys, "original")
         /\ row[p].staged => Named(intent'[p].keys, "staging")
         /\ p \in journalled' => p \in journalled \/ row[p].staged
         /\ \A q \in Photos \ {p} : /\ intent'[q] = intent[q]
                                    /\ q \in journalled' <=> q \in journalled
<1> DEFINE o == IF row[p].original THEN <<"original">> ELSE <<>>
           s == IF row[p].staged THEN <<"staging">> ELSE <<>>
           ks == <<"public">> \o o \o s
           new == [keys |-> ks, uploadEnds |-> row[p].expires, next |-> now]
<1>1. row[p].expires \in Nat /\ now \in Nat
  BY DEF PhotosTyped, P!PhotoRows, P!PhotosAssumption
<1>2. <<"public">> \in Seq(P!Keys) /\ o \in Seq(P!Keys) /\ s \in Seq(P!Keys)
  <2>1. "public" \in P!Keys /\ "original" \in P!Keys /\ "staging" \in P!Keys
    BY DEF P!Keys
  <2>2. \A k \in P!Keys : <<k>> \in Seq(P!Keys)
    OBVIOUS
  <2>3. <<>> \in Seq(P!Keys)
    OBVIOUS
  <2> QED BY <2>1, <2>2, <2>3
<1>3. ks \in Seq(P!Keys) /\ Len(ks) = 1 + Len(o) + Len(s)
  BY <1>2
<1>4. Named(ks, "public")
  <2>1. ks[1] = "public" /\ 1 \in 1 .. Len(ks)
    BY <1>2, <1>3
  <2> QED BY <2>1 DEF Named
<1>5. row[p].original => Named(ks, "original")
  <2>1. ASSUME row[p].original PROVE ks[2] = "original" /\ 2 \in 1 .. Len(ks)
    <3>1. o = <<"original">> /\ Len(o) = 1
      BY <2>1
    <3> HIDE DEF o, s
    <3> QED BY <1>2, <1>3, <3>1
  <2> QED BY <2>1 DEF Named
<1>6. row[p].staged => Named(ks, "staging")
  <2>1. ASSUME row[p].staged PROVE ks[Len(ks)] = "staging" /\ Len(ks) \in 1 .. Len(ks)
    <3>1. s = <<"staging">> /\ Len(s) = 1 /\ s[1] = "staging"
      BY <2>1
    <3> HIDE DEF o, s
    <3> QED BY <1>2, <1>3, <3>1
  <2> QED BY <2>1 DEF Named
<1>7. new \in P!DeletionRows
  BY <1>1, <1>3 DEF P!DeletionRows
<1> HIDE DEF o, s, ks
<1>8. intent' = [intent EXCEPT ![p] = new]
      /\ journalled' = IF row[p].staged THEN journalled \union {p} ELSE journalled
  BY DEF P!Journal, ks, o, s
<1>9. intent'[p] = new
  BY <1>8 DEF PhotosTyped
<1>10. \A q \in Photos \ {p} : intent'[q] = intent[q] /\ (q \in journalled' <=> q \in journalled)
  BY <1>8 DEF PhotosTyped
<1>11. intent' \in [Photos -> P!DeletionRows \union {None}] /\ journalled' \in SUBSET Photos
  BY <1>7, <1>8 DEF PhotosTyped
<1>12. new # None /\ new.keys = ks /\ new.uploadEnds = row[p].expires
  BY <1>7 DEF P!PhotosAssumption
<1> QED BY <1>4, <1>5, <1>6, <1>8, <1>9, <1>10, <1>11, <1>12

-----------------------------------------------------------------------------
\* A step that is about one photo, or none.
OthersKept(p) ==
  \A q \in Photos \ {p} :
    /\ row'[q] = row[q] /\ link'[q] = link[q] /\ object'[q] = object[q] /\ intent'[q] = intent[q]
    /\ q \in journalled' <=> q \in journalled

LEMMA OnePhoto ==
  ASSUME P!PhotosAssumption, PhotosIInv, NEW p \in Photos, OthersKept(p), now' = now,
         PhotosTyped', PhotoRight(p)', P!ReviewedPhotosStand'
  PROVE  PhotosIInv'
<1>1. ASSUME NEW q \in Photos \ {p} PROVE PhotoRight(q)'
  <2>1. PhotoRight(q)
    BY DEF PhotosIInv
  <2> QED BY <2>1 DEF OthersKept, PhotoRight
<1> QED BY <1>1 DEF PhotosIInv

\* What is under review stands when no confirmed photo comes or goes.
LEMMA ReviewStands ==
  ASSUME PhotosIInv, NEW p \in Photos, OthersKept(p), UNCHANGED <<P!reviewVars, submittedP>>,
         (p \in P!Confirmed)' <=> (p \in P!Confirmed)
  PROVE  P!ReviewedPhotosStand'
<1>1. P!Confirmed' = P!Confirmed
  BY DEF P!Confirmed, OthersKept
<1> QED BY <1>1 DEF PhotosIInv, P!ReviewedPhotosStand, P!reviewVars

LEMMA ReopenedStands ==
  ASSUME PhotosIInv, NEW role \in P!Roles, P!Reopen(role)
  PROVE  P!ReviewTypeOK' /\ P!ReviewedPhotosStand'
BY DEF PhotosIInv, PhotosTyped, P!ReviewTypeOK, P!Reopen, P!MoveTo, P!Record, P!At,
     P!Place, P!Places, P!Approvals, P!Moves, P!Roles,
       P!ReviewedPhotosStand

\* A pending photo that goes takes its objects with it.
LEMMA RemovedPending ==
  ASSUME P!PhotosAssumption, PhotosIInv, NEW p \in P!Pending,
         P!DeleteSome(p, P!PendingKeys, 3), P!Journal(p), P!Remove(p), UNCHANGED <<P!reviewVars, link, submittedP, now>>
  PROVE  PhotosIInv'
<1>1. p \in Photos /\ row[p] # None /\ PhotoRight(p) /\ PhotosTyped
  BY DEF P!Pending, PhotosIInv
<1>2. \A k \in P!Keys : object'[p][k] = None
  BY <1>1, DeletesSome, AllPending
<1>3. row' \in [Photos -> P!PhotoRows \union {None}] /\ row'[p] = None
      /\ \A q \in Photos \ {p} : row'[q] = row[q]
  BY <1>1 DEF P!Remove, PhotosTyped
<1>4. OthersKept(p)
  BY <1>1, <1>3, DeletesSome, Journals DEF OthersKept
<1>5. PhotosTyped'
  BY <1>1, <1>3, DeletesSome, Journals DEF PhotosTyped, P!reviewVars, P!ReviewTypeOK
<1>6. PhotoRight(p)'
  <2>1. intent'[p] # None /\ intent'[p].uploadEnds = row[p].expires /\ link[p] # 0
        /\ link[p] <= row[p].expires /\ p \notin journalled
    BY <1>1, Journals DEF PhotoRight
  <2>2. p \in journalled' => Named(intent'[p].keys, "staging")
    BY <1>1, <2>1, Journals
  <2> QED BY <1>2, <1>3, <2>1, <2>2 DEF PhotoRight
<1>7. P!ReviewedPhotosStand'
  BY <1>1, <1>3, <1>4, ReviewStands DEF P!Confirmed, P!Pending
<1> QED BY <1>1, <1>4, <1>5, <1>6, <1>7, OnePhoto

\* A pending photo may lose any of its objects.
LEMMA PendingLoses ==
  ASSUME P!PhotosAssumption, PhotosIInv, NEW p \in P!Pending, NEW keys, NEW n, P!DeleteSome(p, keys, n),
         UNCHANGED <<row, intent, journalled, P!reviewVars, link, submittedP, now>>
  PROVE  PhotosIInv'
<1>1. p \in Photos /\ row[p] # None /\ PhotoRight(p) /\ PhotosTyped /\ row[p].status = "pending"
  BY DEF P!Pending, PhotosIInv
<1>2. OthersKept(p)
  BY <1>1, DeletesSome DEF OthersKept
<1>3. PhotosTyped'
  BY <1>1, DeletesSome DEF PhotosTyped, P!reviewVars, P!ReviewTypeOK
<1>4. PhotoRight(p)'
  BY <1>1 DEF PhotoRight
<1>5. P!ReviewedPhotosStand'
  BY <1>1, <1>2, ReviewStands DEF P!Confirmed
<1> QED BY <1>1, <1>2, <1>3, <1>4, <1>5, OnePhoto

LEMMA DiscardIsRight ==
  ASSUME P!PhotosAssumption, PhotosIInv, NEW p \in P!Pending, NEW n \in 0 .. 3, P!Discard(p, n)
  PROVE  PhotosIInv'
<1>1. P!DeleteSome(p, P!PendingKeys, n) /\ UNCHANGED <<P!reviewVars, link, submittedP, now>>
  BY DEF P!Discard
<1>2. CASE n = 3 /\ P!Journal(p) /\ P!Remove(p)
  BY <1>1, <1>2, RemovedPending
<1>3. CASE UNCHANGED <<row, intent, journalled>>
  BY <1>1, <1>3, PendingLoses
<1> QED BY <1>2, <1>3, AllPending DEF P!Discard

LEMMA DeletePendingIsRight ==
  ASSUME P!PhotosAssumption, PhotosIInv, NEW p \in P!Pending, P!DeletePending(p), UNCHANGED <<link, submittedP, now>>
  PROVE  PhotosIInv'
<1>1. PICK n \in 0 .. 3 :
        /\ P!DeleteSome(p, P!PendingKeys, n)
        /\ \/ n = Len(P!PendingKeys) /\ P!Journal(p) /\ P!Remove(p)
           \/ UNCHANGED <<row, intent, journalled>>
        /\ UNCHANGED P!reviewVars
  BY DEF P!DeletePending
<1>2. CASE n = 3 /\ P!Journal(p) /\ P!Remove(p)
  BY <1>1, <1>2, RemovedPending
<1>3. CASE UNCHANGED <<row, intent, journalled>>
  BY <1>1, <1>3, PendingLoses
<1> QED BY <1>1, <1>2, <1>3, AllPending

LEMMA AcceptIsRight ==
  ASSUME P!PhotosAssumption, PhotosIInv, NEW p \in P!Pending, NEW role \in P!Roles, NEW n \in 0 .. 2,
         P!Source(p) # None, P!IsPhoto(P!Source(p)), P!Accept(p, role, n)
  PROVE  PhotosIInv'
<1>1. p \in Photos /\ row[p] # None /\ PhotoRight(p) /\ PhotosTyped /\ row[p].status = "pending"
  BY DEF P!Pending, PhotosIInv
<1> DEFINE src == P!Source(p)
<1>2. src \in Good /\ src \in P!Contents
  BY DEF P!IsPhoto, P!Contents
<1>3. object' = [object EXCEPT ![p].original = IF n >= 1 THEN src ELSE @,
                               ![p].public = IF n >= 2 THEN src ELSE @]
      /\ UNCHANGED <<link, intent, journalled, submittedP, now>>
  BY DEF P!Accept
<1> HIDE DEF src
<1>4. /\ object' \in [Photos -> [P!Keys -> P!Contents \union {None}]]
      /\ \A q \in Photos \ {p} : object'[q] = object[q]
      /\ n = 2 => object'[p].original = src /\ object'[p].public = src
  <2>1. object[p] \in [P!Keys -> P!Contents \union {None}] /\ P!Keys = {"staging", "original", "public"}
    BY <1>1 DEF PhotosTyped, P!Keys
  <2>2. object' = [object EXCEPT ![p] = [object[p] EXCEPT
                     !["original"] = IF n >= 1 THEN src ELSE object[p]["original"],
                     !["public"] = IF n >= 2 THEN src ELSE object[p]["public"]]]
    BY <1>1, <1>3, <2>1 DEF PhotosTyped
  <2> QED BY <1>1, <1>2, <2>1, <2>2 DEF PhotosTyped
<1>5. CASE n = 2 /\ row' = [row EXCEPT ![p].status = "confirmed", ![p].original = TRUE] /\ P!Reopen(role)
  <2>1. row'[p] = [row[p] EXCEPT !.status = "confirmed", !.original = TRUE]
        /\ \A q \in Photos \ {p} : row'[q] = row[q]
    BY <1>1, <1>5 DEF PhotosTyped
  <2>2. row'[p] \in P!PhotoRows /\ row'[p].status = "confirmed" /\ row'[p].original = TRUE
        /\ row'[p].expires = row[p].expires
    <3>1. row[p] \in P!PhotoRows
      BY <1>1 DEF PhotosTyped
    <3> QED BY <2>1, <3>1 DEF P!PhotoRows
  <2>3. row' \in [Photos -> P!PhotoRows \union {None}]
    BY <1>1, <1>5, <2>1, <2>2 DEF PhotosTyped
  <2>4. OthersKept(p)
    BY <1>3, <1>4, <2>1 DEF OthersKept
  <2>5. P!ReviewTypeOK' /\ P!ReviewedPhotosStand'
    BY <1>5, ReopenedStands
  <2>6. PhotosTyped'
    BY <1>1, <1>3, <1>4, <2>3, <2>5 DEF PhotosTyped
  <2>7. PhotoRight(p)'
    <3>1. row'[p] # None
      BY <2>2 DEF P!PhotosAssumption
    <3>2. intent[p] = None /\ p \notin journalled /\ link[p] <= row[p].expires /\ link[p] # 0
      BY <1>1 DEF PhotoRight
    <3>3. object'[p].original \in Good /\ object'[p].public = object'[p].original
      BY <1>2, <1>4, <1>5
    <3> QED BY <1>3, <2>2, <3>1, <3>2, <3>3 DEF PhotoRight
  <2> QED BY <1>1, <1>3, <2>4, <2>5, <2>6, <2>7, OnePhoto
<1>6. CASE UNCHANGED <<row, P!reviewVars>>
  <2>1. OthersKept(p)
    BY <1>3, <1>4, <1>6 DEF OthersKept
  <2>2. PhotosTyped'
    BY <1>1, <1>3, <1>4, <1>6 DEF PhotosTyped, P!ReviewTypeOK, P!reviewVars
  <2>3. PhotoRight(p)'
    BY <1>1, <1>3, <1>6 DEF PhotoRight
  <2>4. P!ReviewedPhotosStand'
    BY <1>1, <1>3, <1>6, <2>1, ReviewStands DEF P!Confirmed
  <2> QED BY <1>1, <1>3, <2>1, <2>2, <2>3, <2>4, OnePhoto
<1> QED BY <1>5, <1>6 DEF P!Accept

LEMMA DeleteConfirmedIsRight ==
  ASSUME P!PhotosAssumption, PhotosIInv, NEW p \in P!Confirmed, NEW role \in P!Roles, P!DeleteConfirmed(p, role),
         UNCHANGED <<link, submittedP, now>>
  PROVE  PhotosIInv'
<1>1. p \in Photos /\ row[p] # None /\ PhotoRight(p) /\ PhotosTyped /\ row[p].status = "confirmed"
  BY DEF P!Confirmed, PhotosIInv
<1>2. P!Journal(p) /\ P!Remove(p) /\ P!Reopen(role) /\ UNCHANGED object
  BY DEF P!DeleteConfirmed
<1>3. row' \in [Photos -> P!PhotoRows \union {None}] /\ row'[p] = None
      /\ \A q \in Photos \ {p} : row'[q] = row[q]
  BY <1>1, <1>2 DEF P!Remove, PhotosTyped
<1>4. OthersKept(p)
  BY <1>1, <1>2, <1>3, Journals DEF OthersKept
<1>5. P!ReviewTypeOK' /\ P!ReviewedPhotosStand'
  BY <1>2, ReopenedStands
<1>6. PhotosTyped'
  BY <1>1, <1>2, <1>3, <1>5, Journals DEF PhotosTyped
<1>7. PhotoRight(p)'
  <2>1. intent'[p] # None /\ intent'[p].uploadEnds = row[p].expires /\ link[p] # 0
        /\ link[p] <= row[p].expires /\ p \notin journalled /\ row[p].original
    BY <1>1, <1>2, Journals DEF PhotoRight
  <2>2. p \in journalled' => Named(intent'[p].keys, "staging")
    BY <1>1, <1>2, <2>1, Journals
  <2>3. \A k \in P!Keys \ {"staging"} : Named(intent'[p].keys, k)
    BY <1>1, <1>2, <2>1, Journals DEF P!Keys
  <2> QED BY <1>3, <2>1, <2>2, <2>3 DEF PhotoRight
<1> QED BY <1>1, <1>4, <1>5, <1>6, <1>7, OnePhoto

-----------------------------------------------------------------------------
LEMMA RequestIsRight ==
  ASSUME P!PhotosAssumption, PhotosIInv, NEW p \in Photos, P!RequestUpload(p) PROVE PhotosIInv'
<1>1. PICK began \in {t \in {now - 1, now} : t >= 0}, signed \in {t \in {now - 1, now} : t >= 0} :
        /\ began <= signed
        /\ link' = [link EXCEPT ![p] = signed + UploadWindow]
        /\ row' = [row EXCEPT ![p] = [status |-> "pending", expires |-> P!WindowEnds(began),
                                      staged |-> TRUE, original |-> FALSE]]
  BY DEF P!RequestUpload
<1>2. link[p] = 0 /\ UNCHANGED <<P!reviewVars, object, intent, journalled, submittedP, now>>
  BY DEF P!RequestUpload
<1>3. now \in 0 .. PhotoTime /\ PhotoTime \in Nat /\ UploadWindow \in Nat \ {0} /\ signed \in 0 .. now
  BY DEF PhotosIInv, PhotosTyped, P!PhotosAssumption
<1> DEFINE new == [status |-> "pending", expires |-> now + UploadWindow, staged |-> TRUE, original |-> FALSE]
<1>4. new \in P!PhotoRows
  BY <1>3 DEF P!PhotoRows
<1>5. row' = [row EXCEPT ![p] = new] /\ row'[p] = new /\ new # None
  BY <1>1, <1>4 DEF P!WindowEnds, PhotosIInv, PhotosTyped, P!PhotosAssumption
<1>6. new.status = "pending" /\ new.expires = now + UploadWindow /\ new.original = FALSE
  OBVIOUS
<1> HIDE DEF new
<1>7. link'[p] = signed + UploadWindow /\ link' \in [Photos -> 0 .. PhotoTime + UploadWindow]
  BY <1>1, <1>3 DEF PhotosIInv, PhotosTyped
<1>8. PhotoRight(p) /\ PhotosTyped
  BY DEF PhotosIInv
<1>9. OthersKept(p)
  BY <1>1, <1>2, <1>5, <1>8 DEF OthersKept, PhotosTyped
<1>10. PhotosTyped'
  BY <1>2, <1>4, <1>5, <1>7, <1>8 DEF PhotosTyped, P!reviewVars, P!ReviewTypeOK
<1>11. PhotoRight(p)'
  BY <1>2, <1>3, <1>5, <1>6, <1>7, <1>8 DEF PhotoRight
<1>12. P!ReviewedPhotosStand'
  BY <1>2, <1>5, <1>6, <1>8, <1>9, ReviewStands DEF P!Confirmed, PhotoRight
<1> QED BY <1>2, <1>9, <1>10, <1>11, <1>12, OnePhoto

LEMMA PutIsRight ==
  ASSUME P!PhotosAssumption, PhotosIInv, NEW p \in Photos, NEW data \in P!Contents, P!Put(p, data)
  PROVE  PhotosIInv'
<1>1. link[p] > 0 /\ now < link[p] + Grace /\ object' = [object EXCEPT ![p].staging = data]
      /\ UNCHANGED <<P!reviewVars, row, link, intent, journalled, submittedP, now>>
  BY DEF P!Put
<1>2. PhotoRight(p) /\ PhotosTyped
  BY DEF PhotosIInv
<1>3. object' \in [Photos -> [P!Keys -> P!Contents \union {None}]]
      /\ (\A q \in Photos \ {p} : object'[q] = object[q])
      /\ \A k \in P!Keys \ {"staging"} : object'[p][k] = object[p][k]
  BY <1>1, <1>2 DEF PhotosTyped, P!Keys
<1>4. OthersKept(p)
  BY <1>1, <1>3 DEF OthersKept
<1>5. PhotosTyped'
  BY <1>1, <1>2, <1>3 DEF PhotosTyped, P!reviewVars, P!ReviewTypeOK
<1>6. link[p] \in Nat /\ now \in Nat /\ Grace \in Nat
  BY <1>2 DEF PhotosTyped, P!PhotosAssumption
<1>7. PhotoRight(p)'
  BY <1>1, <1>2, <1>3, <1>6 DEF PhotoRight, P!Keys
<1>8. P!ReviewedPhotosStand'
  BY <1>1, <1>4, ReviewStands DEF P!Confirmed
<1> QED BY <1>1, <1>4, <1>5, <1>7, <1>8, OnePhoto

LEMMA CleanIsRight ==
  ASSUME P!PhotosAssumption, PhotosIInv, NEW p \in Photos, P!CleanUpload(p) PROVE PhotosIInv'
<1>1. row[p] # None /\ UNCHANGED <<P!reviewVars, link, intent, journalled, submittedP, now>>
      /\ PhotoRight(p) /\ PhotosTyped
  BY DEF P!CleanUpload, P!UploadOver, PhotosIInv
<1>2. PICK n \in 0 .. Len(P!StagingOnly(p)) :
       /\ P!DeleteSome(p, P!StagingOnly(p), n)
       /\ \/ /\ n = Len(P!StagingOnly(p))
             /\ IF p \in P!Pending THEN P!Remove(p)
                ELSE row' = [row EXCEPT ![p].staged = FALSE]
          \/ UNCHANGED row
  BY DEF P!CleanUpload
<1>3. CASE p \in P!Pending
  <2>1. P!StagingOnly(p) = P!PendingKeys
    BY <1>3 DEF P!StagingOnly
  <2>2. CASE UNCHANGED row
    BY <1>1, <1>2, <1>3, <2>2, PendingLoses
  <2>3. CASE n = 3 /\ P!Remove(p)
    <3>1. P!DeleteSome(p, P!PendingKeys, 3)
      BY <1>2, <2>1, <2>3
    <3>2. \A k \in P!Keys : object'[p][k] = None
      BY <1>1, <3>1, DeletesSome, AllPending
    <3>3. row' \in [Photos -> P!PhotoRows \union {None}] /\ row'[p] = None
          /\ \A q \in Photos \ {p} : row'[q] = row[q]
      BY <1>1, <2>3 DEF P!Remove, PhotosTyped
    <3>4. OthersKept(p)
      BY <1>1, <3>1, <3>3, DeletesSome DEF OthersKept
    <3>5. PhotosTyped'
      BY <1>1, <3>1, <3>3, DeletesSome DEF PhotosTyped, P!reviewVars, P!ReviewTypeOK
    <3>6. PhotoRight(p)'
      BY <1>1, <3>2, <3>3 DEF PhotoRight
    <3>7. P!ReviewedPhotosStand'
      BY <1>1, <1>3, <3>3, <3>4, ReviewStands DEF P!Confirmed, P!Pending
    <3> QED BY <1>1, <3>4, <3>5, <3>6, <3>7, OnePhoto
  <2> QED BY <1>2, <1>3, <2>1, <2>2, <2>3, AllPending
<1>4. CASE p \notin P!Pending
  <2>1. P!StagingOnly(p) = <<"staging">> /\ row[p].status = "confirmed"
    BY <1>1, <1>4 DEF P!StagingOnly, P!Pending, PhotosTyped, P!PhotoRows
  <2>2. \A i \in 1 .. n : P!StagingOnly(p)[i] = "staging"
    BY <1>2, <2>1
  <2>3. \A k \in P!Keys \ {"staging"} : object'[p][k] = object[p][k]
    BY <1>1, <1>2, <2>2, DeletesSome
  <2>4. /\ row' \in [Photos -> P!PhotoRows \union {None}]
        /\ row'[p] # None /\ row'[p].status = "confirmed" /\ row'[p].original = row[p].original
        /\ row'[p].expires = row[p].expires
        /\ \A q \in Photos \ {p} : row'[q] = row[q]
    <3>1. CASE UNCHANGED row
      BY <1>1, <2>1, <3>1 DEF PhotosTyped
    <3>2. CASE row' = [row EXCEPT ![p].staged = FALSE]
      <4>1. row'[p] = [row[p] EXCEPT !.staged = FALSE] /\ \A q \in Photos \ {p} : row'[q] = row[q]
        BY <1>1, <3>2 DEF PhotosTyped
      <4>2. row'[p] \in P!PhotoRows /\ row'[p].status = "confirmed" /\ row'[p].original = row[p].original
            /\ row'[p].expires = row[p].expires
        BY <1>1, <2>1, <4>1 DEF PhotosTyped, P!PhotoRows
      <4> QED BY <1>1, <3>2, <4>1, <4>2 DEF PhotosTyped, P!PhotosAssumption
    <3> QED BY <1>2, <1>4, <3>1, <3>2
  <2>5. OthersKept(p)
    BY <1>1, <1>2, <2>4, DeletesSome DEF OthersKept
  <2>6. PhotosTyped'
    BY <1>1, <1>2, <2>4, DeletesSome DEF PhotosTyped, P!reviewVars, P!ReviewTypeOK
  <2>7. PhotoRight(p)'
    BY <1>1, <2>1, <2>3, <2>4 DEF PhotoRight, P!Keys
  <2>8. P!ReviewedPhotosStand'
    BY <1>1, <2>1, <2>4, <2>5, ReviewStands DEF P!Confirmed
  <2> QED BY <1>1, <2>5, <2>6, <2>7, <2>8, OnePhoto
<1> QED BY <1>3, <1>4

\* The sweep forgets an intent when no upload can come any more.
LEMMA SweepIsRight ==
  ASSUME P!PhotosAssumption, PhotosIInv, NEW p \in Photos, P!SweepDone(p) PROVE PhotosIInv'
<1>1. /\ intent[p] # None /\ PhotoRight(p) /\ PhotosTyped
      /\ P!DeleteSome(p, intent[p].keys, Len(intent[p].keys))
      /\ UNCHANGED <<P!reviewVars, row, link, journalled, submittedP, now>>
      /\ intent' = [intent EXCEPT ![p] =
           IF P!Retained(p) THEN [@ EXCEPT !.next = intent[p].uploadEnds + Grace] ELSE None]
  BY DEF P!SweepDone, P!Due, PhotosIInv
<1>2. intent[p] \in P!DeletionRows /\ row[p] = None /\ link[p] # 0
  BY <1>1 DEF PhotosTyped, PhotoRight
<1>3. \A k \in P!Keys : object'[p][k] = IF Named(intent[p].keys, k) THEN None ELSE object[p][k]
  BY <1>1, DeletesSome DEF Named
<1>4. \A k \in P!Keys \ {"staging"} : object'[p][k] = None
  BY <1>1, <1>2, <1>3 DEF PhotoRight
<1>5. p \in journalled => \A k \in P!Keys : object'[p][k] = None
  BY <1>1, <1>3, <1>4 DEF PhotoRight, P!Keys
<1>6. Grace \in Nat /\ now \in Nat /\ link[p] \in Nat /\ intent[p].uploadEnds \in Nat
      /\ link[p] <= intent[p].uploadEnds
  BY <1>1, <1>2 DEF PhotosTyped, PhotoRight, P!PhotosAssumption, P!DeletionRows
<1>7. CASE P!Retained(p)
  <2>1. intent'[p] = [intent[p] EXCEPT !.next = intent[p].uploadEnds + Grace]
        /\ \A q \in Photos \ {p} : intent'[q] = intent[q]
    BY <1>1, <1>7 DEF PhotosTyped
  <2>2. intent'[p] \in P!DeletionRows /\ intent'[p].keys = intent[p].keys
        /\ intent'[p].uploadEnds = intent[p].uploadEnds
    BY <1>2, <1>6, <2>1 DEF P!DeletionRows
  <2>3. intent' \in [Photos -> P!DeletionRows \union {None}]
    BY <1>1, <2>1, <2>2 DEF PhotosTyped
  <2>4. OthersKept(p)
    BY <1>1, <2>1, DeletesSome DEF OthersKept
  <2>5. PhotosTyped'
    BY <1>1, <2>3, DeletesSome DEF PhotosTyped, P!reviewVars, P!ReviewTypeOK
  <2>6. intent'[p] # None
    BY <2>2 DEF P!PhotosAssumption
  <2>7. PhotoRight(p)'
    BY <1>1, <1>2, <1>4, <2>2, <2>6 DEF PhotoRight
  <2>8. P!ReviewedPhotosStand'
    BY <1>1, <2>4, ReviewStands DEF P!Confirmed
  <2> QED BY <1>1, <2>4, <2>5, <2>7, <2>8, OnePhoto
<1>8. CASE ~P!Retained(p)
  <2>1. intent'[p] = None /\ \A q \in Photos \ {p} : intent'[q] = intent[q]
    BY <1>1, <1>8 DEF PhotosTyped
  <2>2. intent' \in [Photos -> P!DeletionRows \union {None}]
    BY <1>1, <1>8 DEF PhotosTyped
  <2>3. link[p] + Grace <= now
    BY <1>6, <1>8 DEF P!Retained
  <2>4. OthersKept(p)
    BY <1>1, <2>1, DeletesSome DEF OthersKept
  <2>5. PhotosTyped'
    BY <1>1, <2>2, DeletesSome DEF PhotosTyped, P!reviewVars, P!ReviewTypeOK
  <2>6. PhotoRight(p)'
    BY <1>1, <1>2, <1>4, <1>5, <2>1, <2>3 DEF PhotoRight
  <2>7. P!ReviewedPhotosStand'
    BY <1>1, <2>4, ReviewStands DEF P!Confirmed
  <2> QED BY <1>1, <2>4, <2>5, <2>6, <2>7, OnePhoto
<1> QED BY <1>7, <1>8

LEMMA FailedSweepIsRight ==
  ASSUME P!PhotosAssumption, PhotosIInv, NEW p \in Photos, P!SweepFailed(p) PROVE PhotosIInv'
<1>1. PICK n \in 0 .. Len(intent[p].keys) : P!DeleteSome(p, intent[p].keys, n)
  BY DEF P!SweepFailed
<1>2. /\ intent[p] # None /\ PhotoRight(p) /\ PhotosTyped
      /\ UNCHANGED <<P!reviewVars, row, link, journalled, submittedP, now>>
      /\ \/ intent' = [intent EXCEPT ![p].next = P!Earliest(now + Retry)]
         \/ UNCHANGED intent
  BY DEF P!SweepFailed, P!Due, PhotosIInv
<1>3. intent[p] \in P!DeletionRows /\ row[p] = None /\ link[p] # 0
  BY <1>2 DEF PhotosTyped, PhotoRight
<1>4. \A k \in P!Keys : object'[p][k] \in {object[p][k], None}
  BY <1>1, <1>2, DeletesSome
<1>5. P!Earliest(now + Retry) \in Nat
  BY <1>2 DEF P!Earliest, PhotosTyped, P!PhotosAssumption
<1>6. /\ intent'[p] \in P!DeletionRows /\ intent'[p].keys = intent[p].keys
      /\ intent'[p].uploadEnds = intent[p].uploadEnds
      /\ intent' \in [Photos -> P!DeletionRows \union {None}]
      /\ \A q \in Photos \ {p} : intent'[q] = intent[q]
  <2>1. CASE UNCHANGED intent
    BY <1>2, <1>3, <2>1 DEF PhotosTyped
  <2>2. CASE intent' = [intent EXCEPT ![p].next = P!Earliest(now + Retry)]
    <3>1. intent'[p] = [intent[p] EXCEPT !.next = P!Earliest(now + Retry)]
          /\ \A q \in Photos \ {p} : intent'[q] = intent[q]
      BY <1>2, <2>2 DEF PhotosTyped
    <3>2. intent'[p] \in P!DeletionRows /\ intent'[p].keys = intent[p].keys
          /\ intent'[p].uploadEnds = intent[p].uploadEnds
      BY <1>3, <1>5, <3>1 DEF P!DeletionRows
    <3> QED BY <1>2, <2>2, <3>1, <3>2 DEF PhotosTyped
  <2> QED BY <1>2, <2>1, <2>2
<1>7. OthersKept(p)
  BY <1>1, <1>2, <1>6, DeletesSome DEF OthersKept
<1>8. PhotosTyped'
  BY <1>1, <1>2, <1>6, DeletesSome DEF PhotosTyped, P!reviewVars, P!ReviewTypeOK
<1>9. intent'[p] # None
  BY <1>6 DEF P!PhotosAssumption
<1>10. PhotoRight(p)'
  BY <1>2, <1>3, <1>4, <1>6, <1>9 DEF PhotoRight
<1>11. P!ReviewedPhotosStand'
  BY <1>2, <1>7, ReviewStands DEF P!Confirmed
<1> QED BY <1>2, <1>7, <1>8, <1>10, <1>11, OnePhoto

-----------------------------------------------------------------------------
\* A step that is about the review alone.
LEMMA ReviewMoves ==
  ASSUME P!PhotosAssumption, PhotosIInv, NEW role \in P!Roles, P!ReviewPhotos(role) \/ P!CreateListing(role)
  PROVE  PhotosIInv'
<1>1. UNCHANGED <<row, link, object, intent, journalled, now>>
  BY DEF P!ReviewPhotos, P!CreateListing
<1>2. P!ReviewTypeOK
  BY DEF PhotosIInv, PhotosTyped
<1>3. P!ReviewTypeOK'
  <2>1. CASE P!CreateListing(role)
    BY <1>2, <2>1 DEF P!CreateListing, P!CreateDraft, P!MoveTo, P!Record, P!ReviewTypeOK,
         P!At, P!Place, P!Places, P!Approvals, P!Moves, P!Roles
  <2>2. CASE P!ReviewPhotos(role)
    <3>1. PICK action \in P!Moves : P!Transition(action, role, P!Confirmed # {})
      BY <2>2 DEF P!ReviewPhotos, P!ApplyTransition
    <3>2. P!MoveTo(action, role, P!Target[action])
      BY <3>1 DEF P!Transition
    <3>3. P!Target[action] \in P!Places /\ (P!Target[action].published => P!Target[action].approval = "approved")
          /\ P!Target[action].approval \in P!Approvals
      <4>1. /\ P!Target["submit"] = P!At("pending", FALSE) /\ P!Target["approve"] = P!At("approved", FALSE)
            /\ P!Target["reject"] = P!At("rejected", FALSE) /\ P!Target["publish"] = P!At("approved", TRUE)
            /\ P!Target["unpublish"] = P!At("approved", FALSE)
        BY DEF P!Target
      <4>2. \A a \in P!Approvals, b \in BOOLEAN :
              P!At(a, b) \in P!Places /\ P!At(a, b).approval = a /\ P!At(a, b).published = b
        BY DEF P!At, P!Places
      <4>3. P!At("approved", TRUE).approval = "approved"
        BY DEF P!At
      <4> QED BY <4>1, <4>2, <4>3 DEF P!Moves, P!Approvals
    <3> QED BY <1>2, <3>2, <3>3 DEF P!MoveTo, P!Record, P!ReviewTypeOK, P!Place, P!Places, P!Roles
  <2> QED BY <2>1, <2>2
<1>4. PhotosTyped'
  BY <1>1, <1>3 DEF PhotosIInv, PhotosTyped
<1>5. ASSUME NEW p \in Photos PROVE PhotoRight(p)'
  BY <1>1 DEF PhotosIInv, PhotoRight
<1>6. P!Confirmed' = P!Confirmed
  BY <1>1 DEF P!Confirmed
<1>7. P!ReviewedPhotosStand'
  <2>1. CASE P!CreateListing(role)
    BY <2>1 DEF P!CreateListing, P!CreateDraft, P!MoveTo, P!At, P!ReviewedPhotosStand
  <2>2. CASE P!ReviewPhotos(role)
    <3>1. PICK action \in P!Moves : P!Transition(action, role, P!Confirmed # {})
      BY <2>2 DEF P!ReviewPhotos, P!ApplyTransition
    <3>2. approvalP' = P!Target[action].approval /\ P!Place = P!Expected[action]
          /\ (action = "submit" => P!Confirmed # {})
      BY <3>1 DEF P!Transition, P!MoveTo
    <3>3. submittedP' = IF approvalP' = "pending" THEN P!Confirmed ELSE submittedP
      BY <2>2 DEF P!ReviewPhotos
    <3>4. approvalP = P!Expected[action].approval
      BY <3>2 DEF P!Place
    <3>5. \/ action = "submit" /\ approvalP' = "pending"
          \/ approvalP' = "rejected"
          \/ approvalP \in {"pending", "approved"} /\ approvalP' = "approved"
      BY <3>2, <3>4 DEF P!Target, P!Expected, P!At, P!Moves
    <3> QED BY <1>6, <3>2, <3>3, <3>5 DEF PhotosIInv, P!ReviewedPhotosStand
  <2> QED BY <2>1, <2>2
<1> QED BY <1>4, <1>5, <1>7 DEF PhotosIInv

LEMMA PhotoTicks ==
  ASSUME P!PhotosAssumption, PhotosIInv, P!Tick \/ UNCHANGED P!vars PROVE PhotosIInv'
<1>1. UNCHANGED <<P!reviewVars, row, link, object, intent, journalled, submittedP>>
      /\ now' \in 0 .. PhotoTime /\ now <= now' /\ now \in Nat
  BY DEF P!Tick, P!vars, PhotosIInv, PhotosTyped, P!PhotosAssumption
<1>2. PhotosTyped'
  BY <1>1 DEF PhotosIInv, PhotosTyped, P!ReviewTypeOK, P!reviewVars
<1>3. ASSUME NEW p \in Photos PROVE PhotoRight(p)'
  <2>1. PhotoRight(p) /\ link[p] + Grace \in Nat
    BY DEF PhotosIInv, PhotosTyped, P!PhotosAssumption
  <2> QED BY <1>1, <2>1 DEF PhotoRight
<1>4. P!ReviewedPhotosStand'
  BY <1>1 DEF PhotosIInv, P!ReviewedPhotosStand, P!Confirmed, P!reviewVars
<1> QED BY <1>2, <1>3, <1>4 DEF PhotosIInv

LEMMA PhotosStep ==
  ASSUME P!PhotosAssumption, PhotosIInv, [P!Next]_(P!vars) PROVE PhotosIInv'
<1>1. ASSUME NEW p \in Photos, NEW role \in P!Roles, P!Confirm(p, role) PROVE PhotosIInv'
  <2>1. p \in P!Pending /\ P!Source(p) # None
    BY <1>1 DEF P!Confirm
  <2>2. CASE P!IsPhoto(P!Source(p))
    BY <1>1, <2>1, <2>2, AcceptIsRight DEF P!Confirm
  <2>3. CASE ~P!IsPhoto(P!Source(p))
    BY <1>1, <2>1, <2>3, DiscardIsRight DEF P!Confirm
  <2> QED BY <2>2, <2>3
<1>2. ASSUME NEW p \in Photos, NEW role \in P!Roles, P!Delete(p, role) PROVE PhotosIInv'
  BY <1>2, DeleteConfirmedIsRight, DeletePendingIsRight DEF P!Delete
<1> QED BY <1>1, <1>2, ReviewMoves, RequestIsRight, PutIsRight, CleanIsRight, SweepIsRight,
        FailedSweepIsRight, PhotoTicks DEF P!Next

\* The bytes of an original only ever go.
LEMMA OriginalsStay ==
  ASSUME P!PhotosAssumption, PhotosIInv, [P!Next]_(P!vars) PROVE P!OriginalsKept
<1>1. PhotosTyped
  BY DEF PhotosIInv
<1>2. ASSUME NEW p \in Photos, NEW q \in Photos, NEW keys, NEW n, P!DeleteSome(p, keys, n)
      PROVE  object'[q].original \in {object[q].original, None}
  <2>1. \A k \in P!Keys : object'[q][k] \in {object[q][k], None}
    BY <1>1, <1>2, DeletesSome
  <2> QED BY <2>1 DEF P!Keys
<1>3. ASSUME UNCHANGED object PROVE P!OriginalsKept
  BY <1>3 DEF P!OriginalsKept
<1>4. ASSUME NEW p \in Photos, NEW keys, NEW n, P!DeleteSome(p, keys, n) PROVE P!OriginalsKept
  BY <1>2, <1>4 DEF P!OriginalsKept
<1>5. ASSUME NEW p \in Photos, NEW data \in P!Contents, P!Put(p, data) PROVE P!OriginalsKept
  <2>1. \A q \in Photos : object'[q].original = object[q].original
    BY <1>1, <1>5 DEF P!Put, PhotosTyped, P!Keys
  <2> QED BY <2>1 DEF P!OriginalsKept
<1>6. ASSUME NEW p \in Photos, NEW role \in P!Roles, NEW n \in 0 .. 2, P!Accept(p, role, n) PROVE P!OriginalsKept
  <2>1. \A q \in Photos \ {p} : object'[q] = object[q]
    BY <1>1, <1>6 DEF P!Accept, PhotosTyped
  <2>2. object'[p].original \in {object[p].original, P!Source(p)}
    <3>1. object[p] \in [P!Keys -> P!Contents \union {None}] /\ P!Keys = {"staging", "original", "public"}
      BY <1>1 DEF PhotosTyped, P!Keys
    <3>2. object' = [object EXCEPT ![p].original = IF n >= 1 THEN P!Source(p) ELSE @,
                                   ![p].public = IF n >= 2 THEN P!Source(p) ELSE @]
      BY <1>6 DEF P!Accept
    <3> QED BY <1>1, <3>1, <3>2 DEF PhotosTyped
  <2> QED BY <2>1, <2>2 DEF P!OriginalsKept, P!Source
<1>7. ASSUME NEW p \in Photos, NEW role \in P!Roles, P!Confirm(p, role) PROVE P!OriginalsKept
  BY <1>4, <1>6, <1>7 DEF P!Confirm, P!Discard
<1>8. ASSUME NEW p \in Photos, NEW role \in P!Roles, P!Delete(p, role) PROVE P!OriginalsKept
  BY <1>3, <1>4, <1>8 DEF P!Delete, P!DeleteConfirmed, P!DeletePending
<1>9. ASSUME NEW p \in Photos, P!CleanUpload(p) \/ P!SweepDone(p) \/ P!SweepFailed(p) PROVE P!OriginalsKept
  BY <1>4, <1>9 DEF P!CleanUpload, P!SweepDone, P!SweepFailed
<1> QED
  BY <1>3, <1>5, <1>7, <1>8, <1>9 DEF P!Next, P!vars, P!CreateListing, P!ReviewPhotos,
     P!RequestUpload, P!Tick

-----------------------------------------------------------------------------
(* Quote requests: the instance L of QuoteRateLimit. *)

\* The least of a set of numbers.
LEMMA LeastIs ==
  ASSUME NEW T \in SUBSET Nat, T # {}
  PROVE  \E m \in T : \A n \in T : m <= n
<1>1. PICK m \in T : \A n \in T : <<n, m>> \notin OpToRel(<, Nat)
  BY NatLessThanWellFounded, WFMin, Zenon
<1>2. \A n \in T : n \in Nat /\ m \in Nat /\ ~(n < m)
  BY <1>1 DEF OpToRel
<1> QED BY <1>2

LEMMA Division ==
  ASSUME NEW n \in Int, NEW d \in Nat \ {0}
  PROVE  n \div d \in Int /\ d * (n \div d) <= n /\ n < d * (n \div d) + d
BY SMT

LEMMA SmallerFactor ==
  ASSUME NEW a \in Int, NEW b \in Int, NEW d \in Nat \ {0}
  PROVE  d * a < d * b <=> a < b
OBVIOUS

\* A wait in ticks, rounded up to seconds.
LEMMA CeilingIs ==
  ASSUME L!RateAssumption, NEW n \in Int
  PROVE  /\ L!Ceiling(n) \in Int
         /\ n <= Second * L!Ceiling(n)
         /\ Second * (L!Ceiling(n) - 1) < n
<1>1. Second \in Nat \ {0}
  BY DEF L!RateAssumption
<1> DEFINE c == (n + Second - 1) \div Second
<1>2. c \in Int /\ Second * c <= n + Second - 1 /\ n + Second - 1 < Second * c + Second
  BY <1>1, Division
<1>3. L!Ceiling(n) = c
  BY DEF L!Ceiling
<1> HIDE DEF c
<1>4. Second * (c - 1) = Second * c - Second
  BY <1>1, <1>2
<1>5. Second * c \in Int
  BY <1>1, <1>2
<1> QED BY <1>1, <1>2, <1>3, <1>4, <1>5

LEMMA CeilingGrows ==
  ASSUME L!RateAssumption, NEW m \in Int, NEW n \in Int, m <= n
  PROVE  L!Ceiling(m) <= L!Ceiling(n)
<1>1. Second \in Nat \ {0}
  BY DEF L!RateAssumption
<1>2. L!Ceiling(m) \in Int /\ L!Ceiling(n) \in Int
  BY CeilingIs
<1>3. Second * (L!Ceiling(m) - 1) < m /\ n <= Second * L!Ceiling(n)
  BY CeilingIs
<1>4. Second * (L!Ceiling(m) - 1) \in Int /\ Second * L!Ceiling(n) \in Int
  BY <1>1, <1>2
<1>5. Second * (L!Ceiling(m) - 1) < Second * L!Ceiling(n)
  BY <1>3, <1>4
<1>6. L!Ceiling(m) - 1 < L!Ceiling(n)
  BY <1>1, <1>2, <1>5, SmallerFactor
<1> QED BY <1>2, <1>6

\* The requests: a waiting one has waited no longer than the bound, an answered one
\* has read a clock, an admitted one is stored as long as a window that ends now may
\* reach it, and those answered before a request have read an older clock.
CallsRight ==
  /\ now \in Nat
  /\ answer \in [Calls -> {"waiting", "admitted", "refused"}]
  /\ retry \in [Calls -> Nat]
  /\ oldest \in [Calls -> SUBSET Calls]
  /\ before \in [Calls -> SUBSET Calls]
  /\ events \subseteq L!Admitted /\ IsFiniteSet(events)
  /\ \A r \in Calls :
       /\ read[r] # None => read[r] \in Nat /\ read[r] <= now
       /\ read[r] # None /\ answer[r] = "waiting" => now <= read[r] + RateLag
       /\ answer[r] # "waiting" => read[r] # None
       /\ answer[r] = "admitted" /\ read[r] > now - RateWindow => r \in events
       /\ read[r] = None => before[r] = {}
       /\ \A q \in before[r] : answer[q] # "waiting" /\ read[q] <= read[r]

\* A refused request counted a full window, and is told to wait for its first event.
RefusedRight(r) ==
  answer[r] = "refused" =>
    /\ IsFiniteSet(oldest[r]) /\ Cardinality(oldest[r]) >= RateLimit
    /\ \A e \in oldest[r] : read[e] # None /\ L!FirstOf(oldest[r]) <= read[e]
    /\ \E e \in oldest[r] : read[e] = L!FirstOf(oldest[r])
    /\ L!FirstOf(oldest[r]) > read[r] - RateWindow /\ L!FirstOf(oldest[r]) <= read[r]
    /\ retry[r] = L!Larger(1, L!Ceiling(L!FirstOf(oldest[r]) + RateWindow - read[r]))

\* The requests a later one that has the same clock would find.
Preceding(r) == {q \in before[r] \intersect L!Admitted : read[q] > read[r] - RateWindow + RateLag}

LimitIInv ==
  /\ read \in [Calls -> (0 .. RateTime) \union {None}]
  /\ CallsRight
  /\ \A r \in L!Admitted : Cardinality(Preceding(r)) < RateLimit
  /\ \A r \in Calls : answer[r] # "refused" => retry[r] = 0
  /\ \A r \in Calls : RefusedRight(r)

LEMMA FirstIs ==
  ASSUME NEW es, es # {}, \A e \in es : read[e] \in Nat
  PROVE  /\ \A e \in es : L!FirstOf(es) <= read[e]
         /\ \E e \in es : read[e] = L!FirstOf(es)
<1> DEFINE ts == {read[e] : e \in es}
<1>1. PICK m \in ts : \A t \in ts : m <= t
  BY LeastIs
<1>2. L!FirstOf(es) \in ts /\ \A e \in es : L!FirstOf(es) <= read[e]
  BY <1>1 DEF L!FirstOf
<1> QED BY <1>2

\* What the wait of a refused request is worth.
LEMMA RefusalsAreRight ==
  ASSUME L!RateAssumption, LimitIInv
  PROVE  L!RateTypeOK /\ L!RetryIsEnough /\ L!RetryIsNotTooLong
<1>1. {RateWindow, RateLimit, Second} \subseteq Nat \ {0}
  BY DEF L!RateAssumption
<1>2. ASSUME NEW r \in Calls, answer[r] = "refused"
      PROVE  /\ retry[r] \in 1 .. L!Ceiling(RateWindow)
             /\ Cardinality(oldest[r]) <= RateLimit =>
                  Cardinality({e \in oldest[r] :
                                 read[e] > read[r] + retry[r] * Second - RateWindow}) < RateLimit
             /\ retry[r] > 1 =>
                  Cardinality({e \in oldest[r] :
                                 read[e] > read[r] + (retry[r] - 1) * Second - RateWindow}) >= RateLimit
  <2> DEFINE first == L!FirstOf(oldest[r])
             wait == first + RateWindow - read[r]
  <2>1. RefusedRight(r)
    BY DEF LimitIInv
  <2>2. /\ IsFiniteSet(oldest[r]) /\ Cardinality(oldest[r]) >= RateLimit
        /\ \A e \in oldest[r] : read[e] \in Nat /\ first <= read[e]
        /\ read[r] \in Nat
        /\ retry[r] = L!Larger(1, L!Ceiling(wait))
        /\ first > read[r] - RateWindow /\ first <= read[r]
    BY <1>2, <2>1 DEF RefusedRight, LimitIInv, CallsRight
  <2>3. PICK f \in oldest[r] : read[f] = first
    BY <1>2, <2>1 DEF RefusedRight
  <2>4. first \in Nat /\ wait \in 1 .. RateWindow
    BY <1>1, <2>2, <2>3
  <2> HIDE DEF first, wait
  <2>5. L!Ceiling(wait) \in Int /\ L!Ceiling(RateWindow) \in Int /\ L!Ceiling(wait) <= L!Ceiling(RateWindow)
    BY <1>1, <2>4, CeilingIs, CeilingGrows
  <2>6. wait <= Second * L!Ceiling(wait) /\ Second * (L!Ceiling(wait) - 1) < wait
    BY <2>4, CeilingIs
  <2>7. L!Ceiling(wait) >= 1
    <3>1. ASSUME L!Ceiling(wait) <= 0 PROVE FALSE
      <4>1. Second * L!Ceiling(wait) <= 0
        BY <1>1, <2>5, <3>1
      <4> QED BY <1>1, <2>4, <2>5, <2>6, <4>1
    <3> QED BY <2>5, <3>1
  <2>8. retry[r] = L!Ceiling(wait)
    BY <2>2, <2>5, <2>7 DEF L!Larger
  <2>9. retry[r] \in 1 .. L!Ceiling(RateWindow)
    BY <2>5, <2>7, <2>8
  <2>10. Second * retry[r] \in Int /\ Second * (retry[r] - 1) \in Int
         /\ retry[r] * Second = Second * retry[r] /\ (retry[r] - 1) * Second = Second * (retry[r] - 1)
    BY <1>1, <2>5, <2>8
  <2> DEFINE later == {e \in oldest[r] : read[e] > read[r] + retry[r] * Second - RateWindow}
             sooner == {e \in oldest[r] : read[e] > read[r] + (retry[r] - 1) * Second - RateWindow}
  <2>11. ASSUME Cardinality(oldest[r]) <= RateLimit PROVE Cardinality(later) < RateLimit
    <3>1. f \notin later
      BY <1>1, <2>2, <2>3, <2>4, <2>6, <2>8, <2>10 DEF wait
    <3>2. later \in SUBSET oldest[r] /\ later # oldest[r]
      BY <2>3, <3>1
    <3>3. Cardinality(oldest[r]) \in Nat
      BY <2>2, FS_CardinalityType
    <3>4. Cardinality(later) \in Nat /\ Cardinality(later) < Cardinality(oldest[r])
      <4> HIDE DEF later
      <4>1. IsFiniteSet(later) /\ Cardinality(later) <= Cardinality(oldest[r])
            /\ Cardinality(later) # Cardinality(oldest[r])
        BY <2>2, <3>2, FS_Subset
      <4>2. Cardinality(later) \in Nat
        BY <4>1, FS_CardinalityType
      <4> QED BY <3>3, <4>1, <4>2
    <3> QED BY <1>1, <2>11, <3>3, <3>4
  <2>12. Cardinality(sooner) >= RateLimit
    <3>1. \A e \in oldest[r] : read[e] > read[r] + (retry[r] - 1) * Second - RateWindow
      BY <1>1, <2>2, <2>4, <2>6, <2>8, <2>10 DEF wait
    <3>2. sooner = oldest[r]
      BY <3>1
    <3> HIDE DEF sooner
    <3> QED BY <1>1, <2>2, <3>2
  <2> QED BY <2>9, <2>11, <2>12
<1>3. L!RateTypeOK
  BY <1>2 DEF L!RateTypeOK, LimitIInv, CallsRight, L!Admitted
<1>4. L!RetryIsEnough
  BY <1>2, SameCardinality DEF L!RetryIsEnough
<1>5. L!RetryIsNotTooLong
  <2>1. ASSUME NEW r \in Calls, retry[r] > 1 PROVE answer[r] = "refused"
    BY <2>1 DEF LimitIInv
  <2> QED BY <1>2, <2>1, SameCardinality DEF L!RetryIsNotTooLong
<1> QED BY <1>3, <1>4, <1>5

LEMMA LimitStarts == ASSUME L!RateAssumption, L!Init PROVE LimitIInv
<1>1. L!Admitted = {}
  BY DEF L!Init, L!Admitted
<1>2. IsFiniteSet({})
  BY FS_EmptySet
<1> QED BY <1>1, <1>2 DEF L!Init, LimitIInv, CallsRight, RefusedRight, L!RateAssumption

\* A step that leaves answers and clocks of answered requests alone.
LEMMA AnswersKept ==
  ASSUME LimitIInv, UNCHANGED <<answer, retry, oldest>>,
         \A r \in Calls : read[r] # None => read'[r] = read[r] /\ before'[r] = before[r]
  PROVE  /\ L!Admitted' = L!Admitted
         /\ \A r \in L!Admitted' : Cardinality(Preceding(r)') < RateLimit
         /\ \A r \in Calls : RefusedRight(r)'
<1>1. L!Admitted' = L!Admitted /\ \A r \in L!Admitted : read'[r] = read[r] /\ before'[r] = before[r]
  BY DEF L!Admitted, LimitIInv, CallsRight
<1>2. ASSUME NEW r \in L!Admitted' PROVE Cardinality(Preceding(r)') < RateLimit
  <2>1. Preceding(r)' = Preceding(r)
    BY <1>1, <1>2 DEF Preceding
  <2> QED BY <1>1, <1>2, <2>1 DEF LimitIInv
<1>3. ASSUME NEW r \in Calls, answer[r] = "refused" PROVE RefusedRight(r)'
  <2>1. RefusedRight(r) /\ read'[r] = read[r]
    BY <1>3 DEF LimitIInv, CallsRight
  <2>2. \A e \in oldest[r] : read'[e] = read[e]
    BY <1>3, <2>1 DEF RefusedRight, LimitIInv, CallsRight
  <2>3. L!FirstOf(oldest[r])' = L!FirstOf(oldest[r])
    BY <2>2 DEF L!FirstOf
  <2> QED BY <1>3, <2>1, <2>2, <2>3 DEF RefusedRight
<1>4. \A r \in Calls : answer'[r] = answer[r]
  OBVIOUS
<1> QED BY <1>1, <1>2, <1>3, <1>4 DEF RefusedRight

LEMMA Arrives ==
  ASSUME L!RateAssumption, LimitIInv, NEW r \in Calls, L!Arrive(r), now \in 0 .. RateTime
  PROVE  LimitIInv'
<1>1. /\ read[r] = None /\ now \in Nat
      /\ read' \in [Calls -> (0 .. RateTime) \union {None}]
      /\ read'[r] = now
      /\ \A q \in Calls \ {r} : read'[q] = read[q] /\ before'[q] = before[q]
      /\ before' \in [Calls -> SUBSET Calls]
      /\ before'[r] = {q \in Calls : answer[q] # "waiting"}
      /\ UNCHANGED <<now, answer, retry, events, oldest>>
  BY DEF L!Arrive, LimitIInv, CallsRight
<1>2. /\ L!Admitted' = L!Admitted
      /\ \A q \in L!Admitted' : Cardinality(Preceding(q)') < RateLimit
      /\ \A q \in Calls : RefusedRight(q)'
  BY <1>1, AnswersKept
<1>3. answer[r] = "waiting" /\ None \notin Nat /\ RateLag \in Nat
  BY <1>1 DEF LimitIInv, CallsRight, L!RateAssumption
<1>4. ASSUME NEW q \in before'[r] PROVE answer'[q] # "waiting" /\ read'[q] <= read'[r]
  <2>1. q \in Calls \ {r} /\ answer[q] # "waiting"
    BY <1>1, <1>3, <1>4
  <2>2. read[q] <= now
    BY <2>1 DEF LimitIInv, CallsRight
  <2> QED BY <1>1, <2>1, <2>2
<1>5. ASSUME NEW q \in Calls \ {r}
      PROVE  /\ read'[q] = None => before'[q] = {}
             /\ \A p \in before'[q] : answer'[p] # "waiting" /\ read'[p] <= read'[q]
  <2>1. \A p \in before[q] : p \in Calls /\ answer[p] # "waiting" /\ read[p] <= read[q]
    BY DEF LimitIInv, CallsRight
  <2>2. read[q] = None => before[q] = {}
    BY DEF LimitIInv, CallsRight
  <2> QED BY <1>1, <1>3, <2>1, <2>2
<1>6. ASSUME NEW q \in Calls
      PROVE  /\ read'[q] # None => read'[q] \in Nat /\ read'[q] <= now'
             /\ read'[q] # None /\ answer'[q] = "waiting" => now' <= read'[q] + RateLag
             /\ answer'[q] # "waiting" => read'[q] # None
             /\ answer'[q] = "admitted" /\ read'[q] > now' - RateWindow => q \in events'
  BY <1>1, <1>3 DEF LimitIInv, CallsRight
<1>7. CallsRight'
  BY <1>1, <1>2, <1>3, <1>4, <1>5, <1>6 DEF LimitIInv, CallsRight
<1> QED BY <1>1, <1>2, <1>7 DEF LimitIInv

LEMMA Ticks ==
  ASSUME L!RateAssumption, LimitIInv, L!Tick
  PROVE  LimitIInv'
<1>1. /\ UNCHANGED <<read, answer, retry, events, oldest, before>>
      /\ now' = now + 1
      /\ \A r \in Calls : read[r] # None /\ answer[r] = "waiting" => now < read[r] + RateLag
  BY DEF L!Tick
<1>2. /\ L!Admitted' = L!Admitted
      /\ \A q \in L!Admitted' : Cardinality(Preceding(q)') < RateLimit
      /\ \A q \in Calls : RefusedRight(q)'
  BY <1>1, AnswersKept
<1>3. RateWindow \in Nat /\ RateLag \in Nat
  BY DEF L!RateAssumption
<1>4. CallsRight'
  BY <1>1, <1>2, <1>3 DEF LimitIInv, CallsRight
<1> QED BY <1>1, <1>2, <1>4 DEF LimitIInv

\* What another address deletes no window that ends now reaches.
LEMMA OthersDelete ==
  ASSUME L!RateAssumption, LimitIInv, L!OtherAddress
  PROVE  LimitIInv'
<1>1. PICK t \in 0 .. now : events' = {e \in events : read[e] > t - RateWindow}
  BY DEF L!OtherAddress
<1>2. UNCHANGED <<now, read, answer, retry, oldest, before>>
  BY DEF L!OtherAddress
<1>3. /\ L!Admitted' = L!Admitted
      /\ \A q \in L!Admitted' : Cardinality(Preceding(q)') < RateLimit
      /\ \A q \in Calls : RefusedRight(q)'
  BY <1>2, AnswersKept
<1>4. RateWindow \in Nat /\ now \in Nat
  BY DEF L!RateAssumption, LimitIInv, CallsRight
<1>5. events' \subseteq events /\ IsFiniteSet(events')
  BY <1>1, FS_Subset DEF LimitIInv, CallsRight
<1>6. ASSUME NEW q \in Calls, answer[q] = "admitted", read[q] > now - RateWindow
      PROVE  q \in events'
  <2>1. q \in events /\ read[q] \in Nat
    BY <1>6 DEF LimitIInv, CallsRight
  <2> QED BY <1>1, <1>4, <1>6, <2>1
<1>7. CallsRight'
  BY <1>2, <1>3, <1>5, <1>6 DEF LimitIInv, CallsRight
<1> QED BY <1>2, <1>3, <1>7 DEF LimitIInv

\* The transaction of one request leaves the others' clocks and answers alone.
LEMMA ConsumeRows ==
  ASSUME L!RateAssumption, LimitIInv, NEW r \in Calls, L!Consume(r),
         answer'[r] # "waiting", retry' \in [Calls -> Nat], oldest' \in [Calls -> SUBSET Calls],
         answer' \in [Calls -> {"waiting", "admitted", "refused"}],
         \A q \in Calls \ {r} : answer'[q] = answer[q],
         events' \subseteq L!Admitted', IsFiniteSet(events'), L!Kept(r) \subseteq events',
         answer'[r] = "admitted" => r \in events'
  PROVE  CallsRight'
<1>1. read[r] \in Nat /\ read[r] # None /\ read[r] <= now /\ now \in Nat /\ RateWindow \in Nat
      /\ UNCHANGED <<now, read, before>>
  BY DEF L!Consume, LimitIInv, CallsRight, L!RateAssumption
<1>2. ASSUME NEW q \in Calls, answer'[q] = "admitted", read[q] > now - RateWindow
      PROVE  q \in events'
  <2>1. CASE q = r
    BY <1>2, <2>1
  <2>2. CASE q # r
    <3>1. q \in events /\ read[q] \in Nat
      BY <1>2, <2>2 DEF LimitIInv, CallsRight
    <3>2. q \in L!Kept(r)
      BY <1>1, <1>2, <3>1 DEF L!Kept
    <3> QED BY <3>2
  <2> QED BY <2>1, <2>2
<1>3. ASSUME NEW q \in Calls, NEW p \in before[q]
      PROVE  answer'[p] # "waiting" /\ read[p] <= read[q]
  BY DEF LimitIInv, CallsRight
<1>4. ASSUME NEW q \in Calls
      PROVE  /\ read[q] # None => read[q] \in Nat /\ read[q] <= now
             /\ read[q] # None /\ answer'[q] = "waiting" => now <= read[q] + RateLag
             /\ answer'[q] # "waiting" => read[q] # None
             /\ read[q] = None => before[q] = {}
  BY <1>1 DEF LimitIInv, CallsRight
<1>5. before \in [Calls -> SUBSET Calls]
  BY DEF LimitIInv, CallsRight
<1> QED BY <1>1, <1>2, <1>3, <1>4, <1>5 DEF CallsRight

\* The transaction: of the window that ends with its clock it counts all that were
\* answered before it came, but for the first ticks, as many as it may have waited.
LEMMA Consumes ==
  ASSUME L!RateAssumption, LimitIInv, NEW r \in Calls, L!Consume(r)
  PROVE  LimitIInv'
<1>1. {RateWindow, RateLimit, Second} \subseteq Nat \ {0} /\ RateLag \in Nat
  BY DEF L!RateAssumption
<1>2. /\ read[r] \in Nat /\ read[r] <= now /\ now <= read[r] + RateLag /\ now \in Nat
      /\ answer[r] = "waiting" /\ read[r] # None
      /\ UNCHANGED <<now, read, before>>
  BY DEF L!Consume, LimitIInv, CallsRight
<1>3. \A e \in L!Admitted : e \in Calls /\ read[e] \in Nat /\ read[e] <= now /\ read[e] # None
  BY DEF L!Admitted, LimitIInv, CallsRight
<1>4. IsFiniteSet(events) /\ events \subseteq L!Admitted
  BY DEF LimitIInv, CallsRight
<1>5. /\ L!Recent(r) \subseteq L!Kept(r) /\ L!Kept(r) \subseteq events
      /\ \A e \in L!Recent(r) : read[e] > read[r] - RateWindow /\ read[e] <= read[r]
  BY DEF L!Recent, L!Kept
<1>6. IsFiniteSet(L!Kept(r)) /\ IsFiniteSet(L!Recent(r)) /\ Cardinality(L!Recent(r)) \in Nat
  BY <1>4, <1>5, FS_Subset, FS_CardinalityType
<1>7. Preceding(r) \subseteq L!Recent(r)
  <2> SUFFICES ASSUME NEW q \in Preceding(r) PROVE q \in L!Recent(r)
    OBVIOUS
  <2>1. q \in L!Admitted /\ q \in before[r] /\ read[q] > read[r] - RateWindow + RateLag
    BY DEF Preceding
  <2>2. read[q] <= read[r] /\ read[q] \in Nat /\ q \in Calls /\ answer[q] = "admitted"
    BY <1>3, <2>1 DEF LimitIInv, CallsRight, L!Admitted
  <2>3. read[q] > now - RateWindow /\ read[q] > read[r] - RateWindow
    BY <1>1, <1>2, <2>1, <2>2
  <2>4. q \in events
    BY <2>2, <2>3 DEF LimitIInv, CallsRight
  <2> QED BY <2>2, <2>3, <2>4 DEF L!Recent, L!Kept
<1>8. \A q \in Calls : r \notin before[q]
  BY <1>2 DEF LimitIInv, CallsRight
<1>9. ASSUME \A q \in Calls \ {r} : answer'[q] = answer[q], NEW q \in L!Admitted
      PROVE  Preceding(q)' = Preceding(q)
  <2>1. q \in Calls /\ r \notin before[q] /\ before[q] \subseteq Calls
    BY <1>3, <1>8 DEF LimitIInv, CallsRight
  <2> QED BY <1>2, <1>9, <2>1 DEF Preceding, L!Admitted
<1>10. CASE L!Full(r)
  <2>1. /\ answer' = [answer EXCEPT ![r] = "refused"]
        /\ retry' = [retry EXCEPT ![r] = L!RetryAfter(r)]
        /\ oldest' = [oldest EXCEPT ![r] = L!Recent(r)]
        /\ events' = L!Kept(r)
    BY <1>10 DEF L!Consume
  <2>2. /\ answer'[r] = "refused" /\ retry'[r] = L!RetryAfter(r) /\ oldest'[r] = L!Recent(r)
        /\ \A q \in Calls \ {r} :
             answer'[q] = answer[q] /\ retry'[q] = retry[q] /\ oldest'[q] = oldest[q]
    BY <2>1 DEF LimitIInv, CallsRight
  <2>3. L!Admitted' = L!Admitted
    BY <1>2, <2>2 DEF L!Admitted
  <2>4. \A q \in L!Admitted' : Cardinality(Preceding(q)') < RateLimit
    BY <1>9, <2>2, <2>3 DEF LimitIInv
  <2>5. L!Recent(r) # {} /\ Cardinality(L!Recent(r)) >= RateLimit
    BY <1>1, <1>6, <1>10, FS_EmptySet, SameCardinality DEF L!Full
  <2>6. \A e \in L!Recent(r) : read[e] \in Nat /\ read[e] # None /\ e \in Calls
    BY <1>3, <1>4, <1>5
  <2>7. /\ \A e \in L!Recent(r) : L!FirstOf(L!Recent(r)) <= read[e]
        /\ \E e \in L!Recent(r) : read[e] = L!FirstOf(L!Recent(r))
    BY <2>5, <2>6, FirstIs
  <2>8. PICK f \in L!Recent(r) : read[f] = L!FirstOf(L!Recent(r))
    BY <2>7
  <2>9. read[f] \in Nat /\ read[f] <= read[r] /\ read[f] > read[r] - RateWindow
    BY <1>5, <2>6
  <2>10. L!FirstOf(oldest[r])' = L!FirstOf(L!Recent(r))
    BY <1>2, <2>2 DEF L!FirstOf
  <2>11. RefusedRight(r)'
    BY <1>2, <1>6, <2>2, <2>5, <2>6, <2>7, <2>8, <2>9, <2>10 DEF RefusedRight, L!RetryAfter
  <2>12. ASSUME NEW q \in Calls \ {r} PROVE RefusedRight(q)'
    <3>1. L!FirstOf(oldest[q])' = L!FirstOf(oldest[q])
      BY <1>2, <2>2 DEF L!FirstOf
    <3>2. RefusedRight(q)
      BY DEF LimitIInv
    <3> QED BY <1>2, <2>2, <3>1, <3>2 DEF RefusedRight
  <2>13. L!RetryAfter(r) \in Nat
    <3> DEFINE w == L!FirstOf(L!Recent(r)) + RateWindow - read[r]
    <3>1. w \in Int
      BY <1>1, <1>2, <2>8, <2>9
    <3>2. L!Ceiling(w) \in Int
      BY <3>1, CeilingIs
    <3> HIDE DEF w
    <3>3. L!Larger(1, L!Ceiling(w)) \in Nat
      BY <3>2 DEF L!Larger
    <3> QED BY <3>3 DEF L!RetryAfter, w
  <2>14. L!Recent(r) \subseteq Calls
    BY <2>6
  <2>15. /\ answer' \in [Calls -> {"waiting", "admitted", "refused"}]
         /\ retry' \in [Calls -> Nat]
         /\ oldest' \in [Calls -> SUBSET Calls]
    BY <2>1, <2>13, <2>14 DEF LimitIInv, CallsRight
  <2>16. events' \subseteq L!Admitted' /\ IsFiniteSet(events') /\ L!Kept(r) \subseteq events'
    BY <1>4, <1>5, <1>6, <2>1, <2>3
  <2>17. CallsRight'
    BY <2>2, <2>15, <2>16, ConsumeRows
  <2>18. \A q \in Calls : answer'[q] # "refused" => retry'[q] = 0
    BY <2>2 DEF LimitIInv
  <2> QED BY <1>2, <2>4, <2>11, <2>12, <2>17, <2>18 DEF LimitIInv
<1>11. CASE ~L!Full(r)
  <2>1. /\ answer' = [answer EXCEPT ![r] = "admitted"]
        /\ events' = L!Kept(r) \union {r}
        /\ UNCHANGED <<retry, oldest>>
    BY <1>11 DEF L!Consume
  <2>2. answer'[r] = "admitted" /\ \A q \in Calls \ {r} : answer'[q] = answer[q]
    BY <2>1 DEF LimitIInv, CallsRight
  <2>3. L!Admitted' = L!Admitted \union {r}
    BY <1>2, <2>2 DEF L!Admitted
  <2>4. Preceding(r)' = Preceding(r)
    <3>1. before[r] \subseteq Calls
      BY DEF LimitIInv, CallsRight
    <3> QED BY <1>2, <1>8, <2>3, <3>1 DEF Preceding
  <2>5. Cardinality(Preceding(r)) < RateLimit
    <3>1. Cardinality(L!Recent(r)) < RateLimit
      BY <1>1, <1>6, <1>11, SameCardinality DEF L!Full
    <3>2. IsFiniteSet(Preceding(r)) /\ Cardinality(Preceding(r)) <= Cardinality(L!Recent(r))
      BY <1>6, <1>7, FS_Subset
    <3>3. Cardinality(Preceding(r)) \in Nat
      BY <3>2, FS_CardinalityType
    <3> QED BY <1>1, <1>6, <3>1, <3>2, <3>3
  <2>6. \A q \in L!Admitted' : Cardinality(Preceding(q)') < RateLimit
    BY <1>9, <2>2, <2>3, <2>4, <2>5 DEF LimitIInv
  <2>7. ASSUME NEW q \in Calls PROVE RefusedRight(q)'
    <3>1. L!FirstOf(oldest[q])' = L!FirstOf(oldest[q])
      BY <1>2, <2>1 DEF L!FirstOf
    <3>2. RefusedRight(q)
      BY DEF LimitIInv
    <3> QED BY <1>2, <2>1, <2>2, <3>1, <3>2 DEF RefusedRight
  <2>8. answer' \in [Calls -> {"waiting", "admitted", "refused"}]
    BY <2>1 DEF LimitIInv, CallsRight
  <2>9. events' \subseteq L!Admitted' /\ IsFiniteSet(events') /\ L!Kept(r) \subseteq events' /\ r \in events'
    BY <1>4, <1>5, <1>6, <2>1, <2>3, FS_AddElement
  <2>10. retry' \in [Calls -> Nat] /\ oldest' \in [Calls -> SUBSET Calls]
    BY <2>1 DEF LimitIInv, CallsRight
  <2>11. CallsRight'
    BY <2>2, <2>8, <2>9, <2>10, ConsumeRows
  <2>12. \A q \in Calls : answer'[q] # "refused" => retry'[q] = 0
    BY <1>2, <2>1, <2>2 DEF LimitIInv
  <2> QED BY <1>2, <2>6, <2>7, <2>11, <2>12 DEF LimitIInv
<1> QED BY <1>10, <1>11

LEMMA LimitSteps ==
  ASSUME L!RateAssumption, LimitIInv, now \in 0 .. RateTime, [L!Next]_(L!vars)
  PROVE  LimitIInv' /\ now' \in 0 .. RateTime
<1>1. CASE UNCHANGED L!vars
  <2>1. UNCHANGED <<now, read, answer, retry, events, oldest, before>>
    BY <1>1 DEF L!vars
  <2>2. /\ L!Admitted' = L!Admitted
        /\ \A q \in L!Admitted' : Cardinality(Preceding(q)') < RateLimit
        /\ \A q \in Calls : RefusedRight(q)'
    BY <2>1, AnswersKept
  <2>3. CallsRight'
    BY <2>1, <2>2 DEF LimitIInv, CallsRight
  <2> QED BY <2>1, <2>2, <2>3 DEF LimitIInv
<1>2. CASE L!Tick
  <2>1. now' \in 0 .. RateTime
    BY <1>2 DEF L!Tick, L!RateAssumption
  <2> QED BY <1>2, <2>1, Ticks
<1>3. CASE L!OtherAddress
  BY <1>3, OthersDelete DEF L!OtherAddress
<1>4. ASSUME NEW r \in Calls, L!Arrive(r) \/ L!Consume(r)
      PROVE  LimitIInv' /\ now' \in 0 .. RateTime
  <2>1. now' = now
    BY <1>4 DEF L!Arrive, L!Consume
  <2> QED BY <1>4, <2>1, Arrives, Consumes
<1> QED BY <1>1, <1>2, <1>3, <1>4 DEF L!Next

-----------------------------------------------------------------------------
(* The public search: the instance S of CatalogSearch. *)

\* Keys are ordered, strictly and totally.
LEMMA KeysOrdered ==
  ASSUME NEW a \in Nat \X Nat, NEW b \in Nat \X Nat, NEW c \in Nat \X Nat
  PROVE  /\ ~S!Precedes(a, a)
         /\ S!Precedes(a, b) /\ S!Precedes(b, c) => S!Precedes(a, c)
         /\ a = b \/ S!Precedes(a, b) \/ S!Precedes(b, a)
         /\ S!Precedes(a, b) => ~S!Precedes(b, a)
BY DEF S!Precedes

Rows(ls) == ls \subseteq Listings /\ \A l \in ls : created[l] \in Nat
Before(ls, l) == {k \in ls : S!Precedes(S!Key(k), S!Key(l))}
Rank(ls, l) == S!Cardinality(Before(ls, l))

LEMMA RowKeys ==
  ASSUME S!SearchAssumption, NEW ls, Rows(ls), NEW k \in ls, NEW l \in ls
  PROVE  /\ S!Key(k) \in Nat \X Nat /\ S!Key(l) \in Nat \X Nat
         /\ S!Key(k) = S!Key(l) => k = l
BY DEF Rows, S!Key, S!SearchAssumption

\* Ranks follow the order of the keys.
LEMMA RanksFollow ==
  ASSUME S!SearchAssumption, NEW ls, Rows(ls), IsFiniteSet(ls), NEW k \in ls, NEW l \in ls,
         S!Precedes(S!Key(k), S!Key(l))
  PROVE  Rank(ls, k) < Rank(ls, l)
<1>1. IsFiniteSet(Before(ls, l)) /\ Cardinality(Before(ls, l)) \in Nat
  BY FS_Subset, FS_CardinalityType DEF Before
<1>2. Before(ls, k) \in SUBSET Before(ls, l)
  <2>1. ASSUME NEW x \in Before(ls, k) PROVE x \in Before(ls, l)
    <3>1. x \in ls /\ S!Precedes(S!Key(x), S!Key(k))
      BY DEF Before
    <3>2. S!Key(x) \in Nat \X Nat /\ S!Key(k) \in Nat \X Nat /\ S!Key(l) \in Nat \X Nat
      BY <3>1, RowKeys
    <3>3. S!Precedes(S!Key(x), S!Key(l))
      BY <3>1, <3>2, KeysOrdered
    <3> QED BY <3>1, <3>3 DEF Before
  <2> QED BY <2>1
<1>3. k \in Before(ls, l) /\ k \notin Before(ls, k)
  BY RowKeys, KeysOrdered DEF Before
<1>4. Cardinality(Before(ls, k)) <= Cardinality(Before(ls, l)) /\ Cardinality(Before(ls, k)) \in Nat
      /\ Cardinality(Before(ls, k)) # Cardinality(Before(ls, l))
  BY <1>1, <1>2, <1>3, FS_Subset, FS_CardinalityType
<1> QED BY <1>1, <1>4, SameCardinality DEF Rank

LEMMA RankIs ==
  ASSUME S!SearchAssumption, NEW ls, Rows(ls), IsFiniteSet(ls), NEW l \in ls
  PROVE  Rank(ls, l) \in 0 .. Cardinality(ls) - 1
<1>1. Before(ls, l) \in SUBSET ls /\ l \notin Before(ls, l)
  BY RowKeys, KeysOrdered DEF Before
<1>2. /\ Cardinality(Before(ls, l)) <= Cardinality(ls)
      /\ Cardinality(Before(ls, l)) # Cardinality(ls)
      /\ Cardinality(Before(ls, l)) \in Nat /\ Cardinality(ls) \in Nat
  BY <1>1, FS_Subset, FS_CardinalityType
<1> QED BY <1>2, SameCardinality DEF Rank

\* Each rank is somebody's, and nobody else's.
LEMMA RanksAreTaken ==
  ASSUME S!SearchAssumption, NEW ls, Rows(ls), IsFiniteSet(ls)
  PROVE  /\ \A k, l \in ls : Rank(ls, k) = Rank(ls, l) => k = l
         /\ \A k, l \in ls : Rank(ls, k) < Rank(ls, l) => S!Precedes(S!Key(k), S!Key(l))
         /\ \A i \in 0 .. Cardinality(ls) - 1 : \E l \in ls : Rank(ls, l) = i
<1>1. ASSUME NEW k \in ls, NEW l \in ls
      PROVE  /\ Rank(ls, k) = Rank(ls, l) => k = l
             /\ Rank(ls, k) < Rank(ls, l) => S!Precedes(S!Key(k), S!Key(l))
  <2>1. k = l \/ S!Precedes(S!Key(k), S!Key(l)) \/ S!Precedes(S!Key(l), S!Key(k))
    BY RowKeys, KeysOrdered
  <2>2. Rank(ls, k) \in Nat /\ Rank(ls, l) \in Nat
    BY RankIs
  <2>3. S!Precedes(S!Key(k), S!Key(l)) => Rank(ls, k) < Rank(ls, l)
    BY RanksFollow
  <2>4. S!Precedes(S!Key(l), S!Key(k)) => Rank(ls, l) < Rank(ls, k)
    BY RanksFollow
  <2> QED BY <2>1, <2>2, <2>3, <2>4
<1> DEFINE n == Cardinality(ls)
           f == [l \in ls |-> Rank(ls, l)]
<1>2. n \in Nat
  BY FS_CardinalityType
<1>3. f \in Injection(ls, 0 .. n - 1)
  BY <1>1, RankIs DEF Injection, IsInjective
<1>4. IsFiniteSet(0 .. n - 1) /\ Cardinality(0 .. n - 1) = n
  BY <1>2, FS_Interval
<1>5. f \in Surjection(ls, 0 .. n - 1)
  BY <1>3, <1>4, FS_Injection
<1>6. \A i \in 0 .. n - 1 : \E l \in ls : Rank(ls, l) = i
  BY <1>5 DEF Surjection
<1> QED BY <1>1, <1>6

\* The first rows of a set, in order.
LEMMA FirstRowsAre ==
  ASSUME S!SearchAssumption, NEW ls, Rows(ls), IsFiniteSet(ls), NEW n \in Nat
  PROVE  LET rows == S!FirstRows(ls, n)
             size == IF Cardinality(ls) < n THEN Cardinality(ls) ELSE n
         IN  /\ size \in Nat /\ rows \in [1 .. size -> ls]
             /\ \A i, j \in 1 .. size : i < j => S!Precedes(S!Key(rows[i]), S!Key(rows[j]))
             /\ \A l \in ls : (\E i \in 1 .. size : rows[i] = l)
                              \/ (/\ size = n
                                  /\ \A i \in 1 .. size : S!Precedes(S!Key(rows[i]), S!Key(l)))
<1> DEFINE size == IF Cardinality(ls) < n THEN Cardinality(ls) ELSE n
           rows == S!FirstRows(ls, n)
<1>1. Cardinality(ls) \in Nat
  BY FS_CardinalityType
<1>2. size \in Nat /\ size <= Cardinality(ls) /\ (size # n => size = Cardinality(ls))
  BY <1>1
<1>3. rows = [i \in 1 .. size |-> CHOOSE l \in ls : Rank(ls, l) = i - 1]
  BY SameCardinality DEF S!FirstRows, Rank, Before
<1> HIDE DEF size, rows
<1>4. \A i \in 1 .. size : i - 1 \in 0 .. Cardinality(ls) - 1
  BY <1>1, <1>2
<1>5. ASSUME NEW i \in 1 .. size PROVE rows[i] \in ls /\ Rank(ls, rows[i]) = i - 1
  <2>1. \E l \in ls : Rank(ls, l) = i - 1
    BY <1>4, RanksAreTaken
  <2> QED BY <1>3, <2>1
<1>6. rows \in [1 .. size -> ls]
  BY <1>3, <1>5
<1>7. ASSUME NEW i \in 1 .. size, NEW j \in 1 .. size, i < j
      PROVE  S!Precedes(S!Key(rows[i]), S!Key(rows[j]))
  <2>1. Rank(ls, rows[i]) < Rank(ls, rows[j])
    BY <1>2, <1>5, <1>7
  <2> QED BY <1>5, <2>1, RanksAreTaken
<1>8. ASSUME NEW l \in ls, ~\E i \in 1 .. size : rows[i] = l
      PROVE  size = n /\ \A i \in 1 .. size : S!Precedes(S!Key(rows[i]), S!Key(l))
  <2>1. Rank(ls, l) \in 0 .. Cardinality(ls) - 1
    BY RankIs
  <2>2. ASSUME Rank(ls, l) < size PROVE FALSE
    <3>1. Rank(ls, l) + 1 \in 1 .. size
      BY <1>2, <2>1, <2>2
    <3>2. Rank(ls, rows[Rank(ls, l) + 1]) = Rank(ls, l) /\ rows[Rank(ls, l) + 1] \in ls
      BY <1>5, <2>1, <3>1
    <3> QED BY <1>8, <3>1, <3>2, RanksAreTaken
  <2>3. size = n
    BY <1>1, <1>2, <2>1, <2>2
  <2>4. ASSUME NEW i \in 1 .. size PROVE S!Precedes(S!Key(rows[i]), S!Key(l))
    <3>1. Rank(ls, rows[i]) < Rank(ls, l)
      BY <1>2, <1>5, <2>1, <2>2
    <3> QED BY <1>5, <3>1, RanksAreTaken
  <2> QED BY <2>3, <2>4
<1> QED BY <1>2, <1>6, <1>7, <1>8 DEF size, rows

-----------------------------------------------------------------------------
\* A reader with a cursor has been shown everything up to it that stayed.
SearchRight ==
  /\ now \in 0 .. SearchTime
  /\ created \in [Listings -> (0 .. SearchTime) \union {None}]
  /\ public \subseteq Listings /\ IsFiniteSet(public)
  /\ shown \in Seq(Listings)
  /\ done \in BOOLEAN
  /\ \A l \in public \union S!Shown : created[l] # None
  /\ throughout \subseteq public
  /\ ~done /\ cursor = None => shown = <<>>
  /\ ~done /\ cursor # None => Len(shown) > 0 /\ cursor = S!Key(shown[Len(shown)])
  /\ ~done => \A l \in throughout : S!Beyond(l) \/ l \in S!Shown

SearchIInv == SearchRight /\ S!NothingTwice /\ S!NothingMissed

LEMMA SearchIsRight ==
  ASSUME SearchIInv PROVE S!SearchInvariant
BY DEF SearchIInv, SearchRight, S!SearchInvariant, S!SearchTypeOK

LEMMA SearchStarts == ASSUME S!SearchAssumption, S!Init PROVE SearchIInv
<1>1. IsFiniteSet({}) /\ S!Shown = {} /\ Len(shown) = 0
  BY FS_EmptySet DEF S!Init, S!Shown
<1>2. shown \in Seq(Listings) /\ ~done /\ 1 .. Len(shown) = {}
  BY <1>1 DEF S!Init
<1>3. S!NothingTwice /\ S!NothingMissed
  BY <1>2 DEF S!NothingTwice, S!NothingMissed
<1>4. /\ now \in 0 .. SearchTime /\ created \in [Listings -> (0 .. SearchTime) \union {None}]
      /\ public = {} /\ cursor = None /\ shown = <<>> /\ throughout = {}
  BY <1>1 DEF S!Init, S!SearchAssumption
<1>5. done \in BOOLEAN
  BY DEF S!Init
<1>6. IsFiniteSet(public)
  BY <1>1, <1>4
<1>7. SearchRight
  BY <1>1, <1>2, <1>4, <1>5, <1>6 DEF SearchRight
<1> QED BY <1>3, <1>7 DEF SearchIInv

LEMMA ShownAre ==
  ASSUME SearchIInv
  PROVE  /\ Len(shown) \in Nat
         /\ \A i \in 1 .. Len(shown) : /\ shown[i] \in Listings /\ shown[i] \in S!Shown
                                      /\ created[shown[i]] \in Nat
         /\ \A l \in public : l \in Listings /\ created[l] \in Nat
BY DEF SearchIInv, SearchRight, S!Shown

\* The rows of a page come after everything shown before.
LEMMA PageIsRight ==
  ASSUME S!SearchAssumption, SearchIInv, S!Page PROVE SearchIInv'
<1> DEFINE n == PageSize + 1
           more == Len(S!Fetched) > PageSize
           rows == IF more THEN SubSeq(S!Fetched, 1, PageSize) ELSE S!Fetched
           size == IF Cardinality(S!Matching) < n THEN Cardinality(S!Matching) ELSE n
<1>1. /\ ~done /\ UNCHANGED <<now, created, public, throughout>>
      /\ shown' = shown \o rows /\ done' = ~more
      /\ cursor' = IF more THEN S!NextCursor ELSE cursor
  BY DEF S!Page
<1>2. PageSize \in Nat \ {0} /\ n \in Nat /\ n = PageSize + 1
  BY DEF S!SearchAssumption
<1>3. S!Matching \subseteq public /\ IsFiniteSet(S!Matching) /\ Rows(S!Matching)
      /\ \A l \in S!Matching : S!Beyond(l) /\ l \in Listings /\ created[l] \in Nat
  BY FS_Subset, ShownAre DEF S!Matching, SearchIInv, SearchRight, Rows
<1>4. /\ size \in Nat /\ S!Fetched \in [1 .. size -> S!Matching]
      /\ \A i, j \in 1 .. size : i < j => S!Precedes(S!Key(S!Fetched[i]), S!Key(S!Fetched[j]))
      /\ \A l \in S!Matching : (\E i \in 1 .. size : S!Fetched[i] = l)
                             \/ (/\ size = n
                                 /\ \A i \in 1 .. size : S!Precedes(S!Key(S!Fetched[i]), S!Key(l)))
  BY <1>2, <1>3, FirstRowsAre DEF S!Fetched
<1>5. size <= n
  BY <1>2, <1>3, FS_CardinalityType
<1> HIDE DEF size, n
<1>6. S!Fetched \in Seq(S!Matching) /\ Len(S!Fetched) = size
  BY <1>4
<1>7. more <=> size = PageSize + 1
  BY <1>2, <1>4, <1>5, <1>6
<1>8. /\ rows \in Seq(S!Matching)
      /\ Len(rows) = IF more THEN PageSize ELSE size
      /\ \A i \in 1 .. Len(rows) : rows[i] = S!Fetched[i] /\ i \in 1 .. size
  BY <1>2, <1>4, <1>6, <1>7
<1> HIDE DEF rows, more
<1> DEFINE old == Len(shown)
           new == Len(rows)
<1>9. old \in Nat /\ new \in Nat /\ shown \in Seq(Listings) /\ rows \in Seq(Listings)
  BY <1>3, <1>8, ShownAre DEF SearchIInv, SearchRight
<1>10. /\ shown' \in Seq(Listings) /\ Len(shown') = old + new
       /\ \A i \in 1 .. old : shown'[i] = shown[i]
       /\ \A i \in 1 .. new : shown'[old + i] = rows[i]
  BY <1>1, <1>9
<1>11. \A i \in 1 .. old + new : i \in 1 .. old \/ (i - old \in 1 .. new /\ shown'[i] = rows[i - old])
  BY <1>9, <1>10
<1>12. S!Shown' = S!Shown \union {rows[i] : i \in 1 .. new}
  <2>1. ASSUME NEW l \in S!Shown' PROVE l \in S!Shown \union {rows[i] : i \in 1 .. new}
    <3>1. PICK i \in 1 .. old + new : shown'[i] = l
      BY <1>10 DEF S!Shown
    <3> QED BY <1>10, <1>11, <3>1 DEF S!Shown
  <2>2. S!Shown \subseteq S!Shown'
    BY <1>9, <1>10 DEF S!Shown
  <2>3. ASSUME NEW i \in 1 .. new PROVE rows[i] \in S!Shown'
    <3>1. old + i \in 1 .. old + new
      BY <1>9
    <3> QED BY <1>10, <3>1 DEF S!Shown
  <2> QED BY <2>1, <2>2, <2>3
<1>13. \A i \in 1 .. new : rows[i] \in S!Matching
  BY <1>8
<1>14. \A l \in Listings : S!Key(l)' = S!Key(l)
  BY <1>1 DEF S!Key
<1>15. S!NothingTwice'
  <2> SUFFICES ASSUME NEW i \in 1 .. old + new, NEW j \in 1 .. old + new, i < j
               PROVE  S!Precedes(S!Key(shown'[i]), S!Key(shown'[j]))
    BY <1>1, <1>10 DEF S!NothingTwice, S!Key
  <2>1. CASE i \in 1 .. old /\ j \in 1 .. old
    BY <1>10, <2>1 DEF SearchIInv, S!NothingTwice
  <2>2. CASE i - old \in 1 .. new /\ j - old \in 1 .. new /\ shown'[i] = rows[i - old] /\ shown'[j] = rows[j - old]
    <3>1. i - old < j - old
      BY <1>9
    <3> QED BY <1>4, <1>8, <2>2, <3>1
  <2>3. CASE i \in 1 .. old /\ j - old \in 1 .. new /\ shown'[j] = rows[j - old]
    <3>1. old > 0 /\ old \in 1 .. old
      BY <1>9, <2>3
    <3>2. cursor = S!Key(shown[old]) /\ cursor # None
      BY <1>1, <3>1 DEF SearchIInv, SearchRight
    <3>3. shown'[j] \in S!Matching /\ S!Precedes(S!Key(shown[old]), S!Key(shown'[j]))
      BY <1>3, <1>13, <2>3, <3>2 DEF S!Beyond
    <3>4. i = old \/ S!Precedes(S!Key(shown[i]), S!Key(shown[old]))
      BY <1>9, <2>3, <3>1 DEF SearchIInv, S!NothingTwice
    <3>5. /\ S!Key(shown[i]) \in Nat \X Nat /\ S!Key(shown[old]) \in Nat \X Nat
          /\ S!Key(shown'[j]) \in Nat \X Nat
      BY <1>3, <2>3, <3>1, <3>3, ShownAre DEF S!Key, S!SearchAssumption
    <3> QED BY <1>10, <2>3, <3>3, <3>4, <3>5, KeysOrdered
  <2>4. i <= old => i \in 1 .. old
    BY <1>9
  <2>5. ~(i - old \in 1 .. new /\ j \in 1 .. old)
    BY <1>9
  <2> QED BY <1>11, <2>1, <2>2, <2>3, <2>5
<1>16. ASSUME NEW l \in throughout, l \notin S!Shown
       PROVE  l \in S!Matching
  BY <1>1, <1>16 DEF SearchIInv, SearchRight, S!Matching
<1>17. CASE more
  <2>1. new = PageSize /\ size = PageSize + 1 /\ new \in 1 .. new /\ new \in 1 .. size
    BY <1>2, <1>7, <1>8, <1>17
  <2>2. cursor' = S!Key(rows[new]) /\ rows[new] \in S!Matching /\ rows[new] = S!Fetched[PageSize]
    BY <1>1, <1>8, <1>13, <1>17, <2>1 DEF S!NextCursor
  <2>3. S!Key(rows[new]) \in Nat \X Nat
    BY <1>3, <2>2 DEF S!Key, S!SearchAssumption
  <2>4. cursor' # None
    BY <2>2, <2>3 DEF S!SearchAssumption
  <2>5. shown'[Len(shown')] = rows[new] /\ Len(shown') > 0
    BY <1>9, <1>10, <2>1
  <2>6. cursor' = S!Key(shown[Len(shown)])'
    BY <1>1, <2>2, <2>5 DEF S!Key
  <2>7. ASSUME NEW l \in throughout, l \notin S!Shown' PROVE S!Beyond(l)'
    <3>1. l \in S!Matching
      BY <1>12, <1>16, <2>7
    <3>2. S!Precedes(cursor', S!Key(l))
      <4>1. ASSUME NEW i \in 1 .. size, S!Fetched[i] = l PROVE S!Precedes(cursor', S!Key(l))
        <5>1. i = PageSize + 1
          <6>1. ASSUME i <= PageSize PROVE FALSE
            <7>1. i \in 1 .. new
              BY <2>1, <6>1
            <7> QED BY <1>8, <1>12, <2>7, <4>1, <7>1
          <6> QED BY <1>2, <2>1, <6>1
        <5> QED BY <1>2, <1>4, <2>1, <2>2, <4>1, <5>1
      <4>2. CASE \A i \in 1 .. size : S!Precedes(S!Key(S!Fetched[i]), S!Key(l))
        BY <2>1, <2>2, <4>2
      <4> QED BY <1>4, <3>1, <4>1, <4>2
    <3>3. S!Key(l)' = S!Key(l)
      BY <1>1 DEF S!Key
    <3> QED BY <3>2, <3>3 DEF S!Beyond
  <2>8. done' = FALSE
    BY <1>1, <1>17
  <2>9. \A l \in public' \union S!Shown' : created'[l] # None
    BY <1>1, <1>3, <1>12, <1>13 DEF SearchIInv, SearchRight
  <2>10. SearchRight'
    BY <1>1, <1>10, <2>4, <2>5, <2>6, <2>7, <2>8, <2>9 DEF SearchIInv, SearchRight
  <2> QED BY <1>15, <2>8, <2>10 DEF SearchIInv, S!NothingMissed
<1>18. CASE ~more
  <2>1. size < n /\ new = size
    BY <1>2, <1>5, <1>7, <1>8, <1>18 DEF n
  <2>2. ASSUME NEW l \in throughout PROVE l \in S!Shown'
    <3>1. CASE l \in S!Shown
      BY <1>12, <3>1
    <3>2. CASE l \in S!Matching
      <4>1. PICK i \in 1 .. size : S!Fetched[i] = l
        BY <1>2, <1>4, <2>1, <3>2
      <4> QED BY <1>8, <1>12, <2>1, <4>1
    <3> QED BY <1>16, <3>1, <3>2
  <2>3. done' = TRUE
    BY <1>1, <1>18
  <2>4. \A l \in public' \union S!Shown' : created'[l] # None
    BY <1>1, <1>3, <1>12, <1>13 DEF SearchIInv, SearchRight
  <2>5. SearchRight'
    BY <1>1, <1>10, <2>3, <2>4 DEF SearchIInv, SearchRight
  <2> QED BY <1>1, <1>15, <2>2, <2>5 DEF SearchIInv, S!NothingMissed
<1> QED BY <1>17, <1>18

LEMMA CreateIsRight ==
  ASSUME S!SearchAssumption, SearchIInv, NEW l \in Listings, S!Create(l) PROVE SearchIInv'
<1>1. UNCHANGED <<now, public, cursor, shown, done, throughout>>
      /\ created' = [created EXCEPT ![l] = now] /\ created[l] = None
  BY DEF S!Create
<1>2. \A k \in Listings : created[k] # None => S!Key(k)' = S!Key(k)
  BY <1>1 DEF S!Key, SearchIInv, SearchRight
<1>3. S!Shown' = S!Shown /\ now \in Nat /\ now # None
  BY <1>1 DEF S!Shown, SearchIInv, SearchRight, S!SearchAssumption
<1>4. \A i \in 1 .. Len(shown) : S!Key(shown[i])' = S!Key(shown[i])
  BY <1>1, <1>2, ShownAre DEF S!SearchAssumption
<1>5. S!NothingTwice' /\ S!NothingMissed'
  BY <1>1, <1>3, <1>4 DEF SearchIInv, S!NothingTwice, S!NothingMissed
<1>6. \A k \in throughout : k \in Listings /\ created[k] # None /\ S!Key(k)' = S!Key(k)
  BY <1>2 DEF SearchIInv, SearchRight
<1>7. ~done => \A k \in throughout : S!Beyond(k)' \/ k \in S!Shown
  BY <1>1, <1>6 DEF SearchIInv, SearchRight, S!Beyond
<1>8. ~done /\ cursor # None => Len(shown) > 0 /\ cursor = S!Key(shown[Len(shown)])'
  <2>1. ASSUME ~done, cursor # None PROVE Len(shown) \in 1 .. Len(shown)
    BY <2>1, ShownAre DEF SearchIInv, SearchRight
  <2>2. ASSUME ~done, cursor # None PROVE Len(shown) > 0 /\ cursor = S!Key(shown[Len(shown)])'
    <3>1. S!Key(shown[Len(shown)])' = S!Key(shown[Len(shown)])
      BY <1>1, <1>2, <2>1, <2>2, ShownAre DEF S!SearchAssumption
    <3> QED BY <2>2, <3>1 DEF SearchIInv, SearchRight
  <2> QED BY <2>2
<1>9. created' \in [Listings -> (0 .. SearchTime) \union {None}]
      /\ \A k \in public \union S!Shown : created'[k] # None
  BY <1>1, <1>3 DEF SearchIInv, SearchRight
<1>10. SearchRight'
  BY <1>1, <1>3, <1>7, <1>8, <1>9 DEF SearchIInv, SearchRight
<1> QED BY <1>5, <1>10 DEF SearchIInv

LEMMA SearchSteps ==
  ASSUME S!SearchAssumption, SearchIInv, [S!Next]_(S!vars) PROVE SearchIInv'
<1>1. ASSUME NEW l \in Listings, S!Publish(l) PROVE SearchIInv'
  <2>1. public' = public \union {l} /\ UNCHANGED <<now, created, cursor, shown, done>>
        /\ IsFiniteSet(public') /\ created[l] # None
        /\ throughout' = IF Len(shown) = 0 /\ ~done THEN throughout \union {l} ELSE throughout
    BY <1>1, FS_AddElement DEF S!Publish, SearchIInv, SearchRight
  <2>2. \A k \in Listings : S!Key(k)' = S!Key(k) /\ S!Beyond(k)' = S!Beyond(k)
    BY <2>1 DEF S!Key, S!Beyond
  <2>3. S!Shown' = S!Shown
    BY <2>1 DEF S!Shown
  <2>4. S!NothingTwice'
    BY <2>1 DEF SearchIInv, S!NothingTwice, S!Key
  <2>5. Len(shown) = 0 /\ ~done => cursor = None
    BY DEF SearchIInv, SearchRight
  <2>6. ~done' => \A k \in throughout' : S!Beyond(k)' \/ k \in S!Shown'
    BY <2>1, <2>2, <2>3, <2>5 DEF SearchIInv, SearchRight, S!Beyond
  <2>7. (cursor = S!Key(shown[Len(shown)])) = (cursor' = S!Key(shown[Len(shown)])')
    BY <2>1 DEF S!Key
  <2>8. SearchRight'
    BY <2>1, <2>3, <2>6, <2>7 DEF SearchIInv, SearchRight
  <2> QED BY <2>1, <2>3, <2>4, <2>8 DEF SearchIInv, S!NothingMissed
<1>2. ASSUME NEW l \in Listings, S!Withdraw(l) PROVE SearchIInv'
  <2>1. public' = public \ {l} /\ UNCHANGED <<now, created, cursor, shown, done>>
        /\ IsFiniteSet(public') /\ throughout' = throughout \ {l}
    BY <1>2, FS_RemoveElement DEF S!Withdraw, SearchIInv, SearchRight
  <2>2. \A k \in Listings : S!Key(k)' = S!Key(k) /\ S!Beyond(k)' = S!Beyond(k)
    BY <2>1 DEF S!Key, S!Beyond
  <2>3. S!Shown' = S!Shown
    BY <2>1 DEF S!Shown
  <2>4. S!NothingTwice'
    BY <2>1 DEF SearchIInv, S!NothingTwice, S!Key
  <2>5. ~done' => \A k \in throughout' : S!Beyond(k)' \/ k \in S!Shown'
    BY <2>1, <2>2, <2>3 DEF SearchIInv, SearchRight
  <2>6. (cursor = S!Key(shown[Len(shown)])) = (cursor' = S!Key(shown[Len(shown)])')
    BY <2>1 DEF S!Key
  <2>7. SearchRight'
    BY <2>1, <2>3, <2>5, <2>6 DEF SearchIInv, SearchRight
  <2> QED BY <2>1, <2>3, <2>4, <2>7 DEF SearchIInv, S!NothingMissed
<1>3. ASSUME S!Tick \/ UNCHANGED S!vars PROVE SearchIInv'
  <2>1. UNCHANGED <<created, public, cursor, shown, done, throughout>> /\ now' \in 0 .. SearchTime
    BY <1>3 DEF S!Tick, S!vars, SearchIInv, SearchRight, S!SearchAssumption
  <2>2. \A k \in Listings : S!Beyond(k)' = S!Beyond(k)
    BY <2>1 DEF S!Key, S!Beyond
  <2>3. S!Shown' = S!Shown
    BY <2>1 DEF S!Shown
  <2>4. S!NothingTwice'
    BY <2>1 DEF SearchIInv, S!NothingTwice, S!Key
  <2>5. (cursor = S!Key(shown[Len(shown)])) = (cursor' = S!Key(shown[Len(shown)])')
    BY <2>1 DEF S!Key
  <2>6. SearchRight'
    BY <2>1, <2>2, <2>3, <2>5 DEF SearchIInv, SearchRight
  <2> QED BY <2>1, <2>3, <2>4, <2>6 DEF SearchIInv, S!NothingMissed
<1> QED BY <1>1, <1>2, <1>3, PageIsRight, CreateIsRight DEF S!Next

-----------------------------------------------------------------------------
(* The theorems. *)

catalogVars == <<part, vars, otherVars>>

\* A step of the composition is a step of the part the behaviour is of.
LEMMA CatalogStep ==
  ASSUME [CatalogNext]_catalogVars
  PROVE  /\ part' = part
         /\ [Next]_vars
         /\ part = "furniture" => [F!Next]_(F!vars)
         /\ part = "photos" => [P!Next]_(P!vars)
         /\ part = "limit" => [L!Next]_(L!vars)
         /\ part = "search" => [S!Next]_(S!vars)
BY DEF CatalogNext, catalogVars, vars, otherVars, furnitureVars, photoVars, rateVars, searchVars,
       F!vars, F!offerVars, F!sceneVars, F!screens, P!vars, P!reviewVars, L!vars, S!vars

CatalogIInv ==
  /\ OffersIInv /\ TrailEnds
  /\ part = "furniture" => FurnitureIInv
  /\ part = "photos" => PhotosIInv
  /\ part = "limit" => LimitIInv /\ now \in 0 .. RateTime
  /\ part = "search" => SearchIInv

\* The inductive invariants of the five parts hold in every reachable state.
LEMMA CatalogInductiveInvariant ==
  ASSUME CatalogAssumption PROVE CatalogSpec => []CatalogIInv
<1>1. CatalogAssumption /\ CatalogInit => CatalogIInv
  <2>1. CatalogAssumption /\ L!Init => now \in 0 .. RateTime
    BY DEF CatalogAssumption, L!RateAssumption, L!Init
  <2> QED
    BY <2>1, OffersInitIInv, HistoryStarts, FurnitureStarts, PhotosStart, LimitStarts, SearchStarts
    DEF CatalogAssumption, CatalogInit, CatalogIInv
<1>2. CatalogAssumption /\ CatalogIInv /\ [CatalogNext]_catalogVars => CatalogIInv'
  BY CatalogStep, OffersInductive, HistoryStays, FurnitureSteps, PhotosStep, LimitSteps, SearchSteps
  DEF CatalogAssumption, CatalogIInv
<1> QED BY <1>1, <1>2, PTL DEF CatalogSpec, catalogVars

\* Two editors save no scene over one they have not seen, a suggestion or a
\* retransmission adds furniture once, and what is decided is decided over the
\* inventory that was shown.
THEOREM FurnitureSafe == ASSUME CatalogAssumption PROVE CatalogSpec => []FurnitureInvariant
<1>1. CatalogIInv => FurnitureInvariant
  BY DEF CatalogIInv, FurnitureIInv, FurnitureInvariant
<1> QED BY <1>1, CatalogInductiveInvariant, PTL

\* Whatever call fails between the storage and the rows, a confirmed photo has its
\* original and derivative, no object is without a row or an intent, and nothing of
\* a forgotten photo is left or comes back.
THEOREM PhotosSafe == ASSUME CatalogAssumption PROVE CatalogSpec => []PhotosInvariant
<1>1. CatalogAssumption /\ CatalogIInv => PhotosInvariant
  BY PhotosAreRight DEF CatalogAssumption, CatalogIInv, PhotosInvariant
<1> QED BY <1>1, CatalogInductiveInvariant, PTL

\* However long requests wait for the lock of their address, and although those that
\* overtake them and those of other addresses delete events, a request is admitted
\* only over fewer than the limit of those admitted and answered before it in its
\* window, short of the longest wait; and a refused client is told the wait it takes,
\* to the second.
THEOREM QuoteRateSafe == ASSUME CatalogAssumption PROVE CatalogSpec => []QuoteRateInvariant
<1>1. CatalogAssumption /\ LimitIInv => L!PacedBound
  <2> SUFFICES ASSUME CatalogAssumption, LimitIInv, NEW r \in L!Admitted
               PROVE  Cardinality(Preceding(r)) < RateLimit
    BY SameCardinality DEF L!PacedBound, Preceding
  <2> QED BY DEF LimitIInv
<1>2. CatalogAssumption /\ CatalogIInv => QuoteRateInvariant
  BY <1>1, RefusalsAreRight DEF CatalogAssumption, CatalogIInv, QuoteRateInvariant,
       L!QuoteRateInvariant
<1> QED BY <1>2, CatalogInductiveInvariant, PTL

\* A reader sees the listings in order, none twice, and at the end all that were in
\* the catalog throughout, whatever is published and withdrawn between the pages.
THEOREM SearchSafe == ASSUME CatalogAssumption PROVE CatalogSpec => []SearchInvariant
<1>1. CatalogAssumption /\ CatalogIInv => SearchInvariant
  BY SearchIsRight DEF CatalogAssumption, CatalogIInv, SearchInvariant
<1> QED BY <1>1, CatalogInductiveInvariant, PTL

\* No operation rewrites what a record says: the history of a listing is a chain, an
\* original only ever goes, a decided suggestion stays decided, and furniture is in
\* the scene with its confirmation.
THEOREM RecordsKept == ASSUME CatalogAssumption PROVE CatalogSpec => RecordsStand
<1> DEFINE Stand ==
      /\ HistoryKept
      /\ part = "photos" => P!OriginalsKept
      /\ part = "furniture" => F!DecisionsKept /\ F!PlacedWhenConfirmed
<1>1. CatalogAssumption /\ CatalogIInv /\ [CatalogNext]_catalogVars => [Stand]_catalogVars
  <2> SUFFICES ASSUME CatalogAssumption, CatalogIInv, CatalogNext PROVE Stand
    OBVIOUS
  <2>1. part = "photos" => P!OriginalsKept
    BY OriginalsStay DEF CatalogNext, CatalogAssumption, CatalogIInv
  <2>2. part = "furniture" => F!DecisionsKept /\ F!PlacedWhenConfirmed
    BY DecisionsStay DEF CatalogNext, CatalogAssumption, CatalogIInv
  <2>3. HistoryKept
    BY CatalogStep, HistoryStays DEF CatalogAssumption, CatalogIInv
  <2> QED BY <2>1, <2>2, <2>3
<1> QED BY <1>1, CatalogInductiveInvariant, PTL DEF CatalogSpec, RecordsStand, catalogVars
=============================================================================
