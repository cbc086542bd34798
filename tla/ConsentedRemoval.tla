--------------------------- MODULE ConsentedRemoval ---------------------------
(***************************************************************************)
(* What the removal flow promises, whatever it does to keep the promise:   *)
(* rows are proposed, the proposal is shown to the user as it stands, and  *)
(* only a confirmation takes rows, none but those that were shown, and of  *)
(* these none but the ones that may be taken at that moment.               *)
(***************************************************************************)
CONSTANTS
    Rows,
    Nothing           \* no proposal

VARIABLES
    rows,             \* what stands in the registry
    page,             \* does the device they belong to have a page
    proposal,         \* what is on offer, or Nothing
    shown,            \* what the user is looking at, or Nothing
    takable,          \* what may be taken now, and has the device departed:
    departed          \* the world's, not the flow's

vars == <<rows, page, proposal, shown, takable, departed>>

Init ==
    /\ rows \in SUBSET Rows
    /\ page = (rows # {})
    /\ proposal = Nothing
    /\ shown = Nothing
    /\ takable \in SUBSET Rows
    /\ departed \in BOOLEAN

\* Rows appear, proposals come, change and go: the user's page is not touched,
\* except by a restart, which closes it.
Propose ==
    /\ rows \subseteq rows'
    /\ page => page'
    /\ shown' \in {shown, Nothing}

\* The user is shown the proposal as it stands.
Show ==
    /\ proposal # Nothing
    /\ shown = Nothing
    /\ shown' = proposal
    /\ UNCHANGED <<rows, page, proposal>>

\* The user confirms: both the page and the proposal are spent.
Confirm ==
    /\ shown # Nothing
    /\ rows' \subseteq rows
    /\ rows \ rows' \subseteq shown.pairs \cap takable
    /\ page /\ ~page' => rows' = {} /\ departed
    /\ shown' = Nothing
    /\ proposal' = Nothing

\* The account is removed.
Leave ==
    /\ rows' = {}
    /\ page' = FALSE
    /\ proposal' = Nothing
    /\ UNCHANGED shown

Next == Propose \/ Show \/ Confirm \/ Leave

Spec == Init /\ [][Next]_vars

=============================================================================
