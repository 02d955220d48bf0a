---------------------------- MODULE ListingReview ----------------------------
(***************************************************************************)
(* The editorial life of one listing: backend/app/modules/catalog, the     *)
(* columns approval_status and is_published and the newest row of          *)
(* listing_transition.  Every operation locks the listing's row, so each   *)
(* is one step.  The modules about the offer and about the photos extend   *)
(* this one: they decide when an operation may run and what else it does.  *)
(***************************************************************************)
EXTENDS Naturals

VARIABLES
  approval,    \* listing.approval_status, "none" before the row exists
  published,   \* listing.is_published
  trail        \* the newest row of listing_transition

reviewVars == <<approval, published, trail>>

Roles == {"agency_admin", "agent"}
Approvals == {"draft", "pending", "approved", "rejected"}
Moves == {"submit", "approve", "reject", "publish", "unpublish"}
Places == [approval : Approvals \union {"none"}, published : BOOLEAN]
Place == [approval |-> approval, published |-> published]
At(a, p) == [approval |-> a, published |-> p]

ReviewTypeOK ==
  /\ approval \in Approvals \union {"none"}
  /\ published \in BOOLEAN
  /\ published => approval = "approved"
  /\ trail \in [action : Moves \union {"none", "create", "edit"},
                from : Places, to : Places, role : Roles \union {"none"}]

ReviewInit ==
  /\ approval = "none"
  /\ published = FALSE
  /\ trail = [action |-> "none", from |-> At("none", FALSE),
              to |-> At("none", FALSE), role |-> "none"]

\* Faulty variant: the row is filled in after the listing has moved.
RecordAfter(action, role, to) ==
  trail' = [action |-> action, from |-> to, to |-> to, role |-> role]

\* A row of listing_transition, with the state before and after.
Record(action, role, to) ==
  trail' = [action |-> action, from |-> Place, to |-> to, role |-> role]

MoveTo(action, role, to) ==
  /\ approval' = to.approval
  /\ published' = to.published
  /\ Record(action, role, to)

\* _require_listing_editor and _require_listing_admin, for staff of the agency.
MayEdit(role) == role \in Roles
MayDecide(role) == role = "agency_admin"

\* _TRANSITION_STATES.
Expected == [submit |-> At("draft", FALSE), approve |-> At("pending", FALSE),
             reject |-> At("pending", FALSE), publish |-> At("approved", FALSE),
             unpublish |-> At("approved", TRUE)]
Target == [submit |-> At("pending", FALSE), approve |-> At("approved", FALSE),
           reject |-> At("rejected", FALSE), publish |-> At("approved", TRUE),
           unpublish |-> At("approved", FALSE)]

\* transition_staff_listing.
Transition(action, role, hasPhoto) ==
  /\ Place = Expected[action]
  /\ action = "submit" => hasPhoto
  /\ MoveTo(action, role, Target[action])

\* The staff routes of a transition: anyone who edits may submit, the rest is
\* for administrators.  What a reject must say is not kept.
ApplyTransition(role, hasPhoto) ==
  \E action \in Moves :
    /\ IF action = "submit" THEN MayEdit(role) ELSE MayDecide(role)
    /\ Transition(action, role, hasPhoto)

CreateDraft(role) ==
  /\ approval = "none"
  /\ MoveTo("create", role, At("draft", FALSE))

\* Faulty variant: a content edit that keeps the listing where it is.
ReopenInPlace(role) ==
  /\ approval # "none"
  /\ MoveTo("edit", role, Place)

\* A content edit sends the listing back to draft, whatever it was.
Reopen(role) ==
  /\ approval # "none"
  /\ MoveTo("edit", role, At("draft", FALSE))

IsPublic == approval = "approved" /\ published

-----------------------------------------------------------------------------
\* The history is a chain that ends where the listing is: every operation that
\* moves the listing records the state it moved it from.
HistoryKept ==
  /\ trail' # trail => trail'.from = trail.to
  /\ trail'.to = [approval |-> approval', published |-> published']
HistoryIsAChain == [][HistoryKept]_reviewVars
=============================================================================
