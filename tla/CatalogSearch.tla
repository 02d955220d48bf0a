---------------------------- MODULE CatalogSearch ----------------------------
(***************************************************************************)
(* The pages of the public catalog: search_public_listings and the cursor  *)
(* of catalog/router.py.  A reader asks for page after page, each in a     *)
(* transaction of its own, while listings are created, published and       *)
(* withdrawn.  Nothing about the reader is kept but the cursor it returns. *)
(* The filters do not change from page to page; a listing here is one that *)
(* they match.                                                             *)
(***************************************************************************)
EXTENDS Integers, FiniteSets, Sequences

CONSTANTS
  Listings,  \* identifiers, natural numbers: listing.id is ordered
  PageSize,  \* limit
  MaxTime,
  None

\* Assumed of the constants by the theorems and by every instance.
SearchAssumption ==
  /\ Listings \subseteq Nat /\ MaxTime \in Nat
  /\ PageSize \in Nat \ {0}
  /\ None \notin Nat /\ None \notin Nat \X Nat

VARIABLES
  now,
  created,    \* listing.created_at, None before the row exists
  public,     \* the listings that are approved and published
  cursor,     \* what the reader asks with: None at first, then a pair
  shown,      \* the listings shown so far, in order
  done,       \* the last page had no cursor
  throughout  \* history: public ever since the reader's first page

vars == <<now, created, public, cursor, shown, done, throughout>>

\* _set_normalized_geography_keys and the filters compare what they normalise
\* alike; the clock of a creation is the API's, and two rows may share it.
Create(l) ==
  /\ created[l] = None
  /\ created' = [created EXCEPT ![l] = now]
  /\ UNCHANGED <<now, public, cursor, shown, done, throughout>>

Publish(l) ==
  /\ created[l] # None
  /\ l \notin public
  /\ public' = public \union {l}
  /\ throughout' = IF Len(shown) = 0 /\ ~done THEN throughout \union {l} ELSE throughout
  /\ UNCHANGED <<now, created, cursor, shown, done>>

Withdraw(l) ==
  /\ l \in public
  /\ public' = public \ {l}
  /\ throughout' = throughout \ {l}
  /\ UNCHANGED <<now, created, cursor, shown, done>>

-----------------------------------------------------------------------------
\* The rows' order: the newest first, and the larger identifier first of two
\* that share their time.
Key(l) == <<created[l], l>>
Precedes(k, j) == k[1] > j[1] \/ (k[1] = j[1] /\ k[2] > j[2])

\* Faulty variant: by time alone.
BeyondTime(l) == cursor = None \/ created[l] < cursor[1]

\* The condition a cursor adds.
Beyond(l) == cursor = None \/ Precedes(cursor, Key(l))

Matching == {l \in public : Beyond(l)}

\* The first n of a set of listings in the rows' order.
FirstRows(ls, n) ==
  LET rank(l) == Cardinality({k \in ls : Precedes(Key(k), Key(l))})
      size == IF Cardinality(ls) < n THEN Cardinality(ls) ELSE n
  IN  [i \in 1 .. size |-> CHOOSE l \in ls : rank(l) = i - 1]

\* Faulty variant: the page alone, after which there never seems to be more.
FetchedPage == FirstRows(Matching, PageSize)

\* One row more than the page, to know whether there is another page.
Fetched == FirstRows(Matching, PageSize + 1)

\* The key of the last row shown.
NextCursor == Key(Fetched[PageSize])

\* list_public_listings: the rows, and the key of the last one when more follow.
Page ==
  /\ ~done
  /\ LET more == Len(Fetched) > PageSize
         rows == IF more THEN SubSeq(Fetched, 1, PageSize) ELSE Fetched
     IN  /\ shown' = shown \o rows
         /\ done' = ~more
         /\ cursor' = IF more THEN NextCursor ELSE cursor
  /\ UNCHANGED <<now, created, public, throughout>>

Tick ==
  /\ now < MaxTime
  /\ now' = now + 1
  /\ UNCHANGED <<created, public, cursor, shown, done, throughout>>

Init ==
  /\ now = 0
  /\ created = [l \in Listings |-> None]
  /\ public = {}
  /\ cursor = None
  /\ shown = <<>>
  /\ done = FALSE
  /\ throughout = {}

Next ==
  \/ Page
  \/ Tick
  \/ \E l \in Listings : Create(l) \/ Publish(l) \/ Withdraw(l)

Spec == Init /\ [][Next]_vars

-----------------------------------------------------------------------------
Shown == {shown[i] : i \in 1 .. Len(shown)}

SearchTypeOK ==
  /\ created \in [Listings -> (0 .. MaxTime) \union {None}]
  /\ throughout \subseteq public
  /\ \A l \in Listings : created[l] = None => l \notin public \union Shown
  /\ cursor # None /\ ~done => cursor = Key(shown[Len(shown)])

\* No reader sees a listing twice or out of order, however the catalog changes
\* between its pages.
NothingTwice ==
  \A i, j \in 1 .. Len(shown) : i < j => Precedes(Key(shown[i]), Key(shown[j]))

\* What was in the catalog before the first page and stayed is on some page.
NothingMissed ==
  done => throughout \subseteq Shown

\* A reader of all pages sees every lasting listing once.
SearchInvariant ==
  /\ SearchTypeOK
  /\ NothingTwice
  /\ NothingMissed
=============================================================================
