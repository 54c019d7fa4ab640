--------------------------- MODULE InstagramDrafts ---------------------------
(***************************************************************************)
(* The product draft of one Instagram post (modules/instagram): an         *)
(* administrator queues its analysis, edits, discards and applies it       *)
(* (service.js); the workers claim it and have it analysed (worker.js).    *)
(*                                                                         *)
(* The analysis is one transaction that locks the draft, the call to the   *)
(* model included.  The claim before it and the catch after it are         *)
(* transactions of their own, and an edit reads the draft without a lock   *)
(* before it writes it.                                                    *)
(***************************************************************************)
EXTENDS Naturals

CONSTANTS
    Analyst,         \* worker processes
    Editor,          \* requests that edit the draft
    DraftAttempts,   \* analysis attempts (5 in the code)
    MaxDraftFaults,  \* bound: crashes and overtaken workers
    MaxForced        \* bound: forced analyses of an applied post

ASSUME DraftAssumption ==
    /\ DraftAttempts \in Nat \ {0}
    /\ {MaxDraftFaults, MaxForced} \subseteq Nat

VARIABLES
    draft,        \* instagram_product_drafts: status, analysis_attempts, name and price known
    media,        \* instagram_media_items.status
    analysts,     \* what each worker does with the draft
    editors,      \* what each edit has read
    products,     \* products made from the draft (history)
    forced,       \* forced analyses of an applied post
    undone,       \* late edits and failures that overwrote an applied draft (history)
    draftFaults

draftVars == <<draft, media, analysts, editors, products, forced, undone, draftFaults>>

DraftStatuses == {"none", "pending", "analyzing", "needs_review", "ready", "applied",
                  "discarded", "error"}
MediaStatuses == {"discovered", "analyzing", "needs_review", "ready", "skipped", "applied",
                  "error"}

\* A statement that writes the draft without looking at what it says by then
Overwrite == undone' = undone + (IF draft.st = "applied" THEN 1 ELSE 0)

\* The transaction of processDraft holds the row lock of draft and post.
Locked == \E w \in Analyst : analysts[w] = "analyzing"

-----------------------------------------------------------------------------
(* service.js: administrators *)

\* queueAnalysis: whatever the draft says, it is analysed anew; an applied post only when
\* forced, and a finished analysis of the same source is returned as it is.
QueueAnalysis(force) ==
    /\ ~Locked
    /\ media = "applied" => force /\ forced < MaxForced
    /\ draft.st \in {"ready", "needs_review"} => force
    /\ draft' = [draft EXCEPT !.st = "pending", !.attempts = 0]
    /\ media' = "analyzing"
    /\ forced' = forced + (IF media = "applied" THEN 1 ELSE 0)
    /\ UNCHANGED <<analysts, editors, products, draftFaults, undone>>

\* updateDraft reads the draft: it must be one that may still change.
ReadDraft(e) ==
    /\ editors[e] = "idle"
    /\ draft.st \notin {"none", "applied", "discarded"}
    /\ editors' = [editors EXCEPT ![e] = "read"]
    /\ UNCHANGED <<draft, media, analysts, products, forced, draftFaults, undone>>

\* updateDraft writes it: ready, with the name and price the editor gave or left out.
UpdateDraft(e) ==
    /\ editors[e] = "read"
    /\ ~Locked
    /\ \E complete \in BOOLEAN :
         draft' = [draft EXCEPT !.st = "ready", !.complete = complete]
    /\ editors' = [editors EXCEPT ![e] = "idle"]
    /\ Overwrite
    /\ UNCHANGED <<media, analysts, products, forced, draftFaults>>

\* setDraftDisposition
DiscardDraft ==
    /\ ~Locked
    /\ draft.st \notin {"none", "applied"}
    /\ draft' = [draft EXCEPT !.st = "discarded"]
    /\ media' = "skipped"
    /\ UNCHANGED <<analysts, editors, products, forced, draftFaults, undone>>

\* Mutant of ApplyDraft: any complete draft makes a product.
ApplyAnyStatus ==
    /\ ~Locked
    /\ draft.st # "none"
    /\ draft.complete
    /\ draft' = [draft EXCEPT !.st = "applied"]
    /\ media' = "applied"
    /\ products' = products + 1
    /\ UNCHANGED <<analysts, editors, forced, draftFaults, undone>>

\* applyDraft: the product and the draft's new status are one transaction.
ApplyDraft ==
    /\ ~Locked
    /\ draft.st \in {"ready", "needs_review"}
    /\ draft.complete
    /\ draft' = [draft EXCEPT !.st = "applied"]
    /\ media' = "applied"
    /\ products' = products + 1
    /\ UNCHANGED <<analysts, editors, forced, draftFaults, undone>>

-----------------------------------------------------------------------------
(* worker.js *)

\* A draft whose lock is ten minutes old: its worker is gone, or slow before its
\* transaction starts, which is a fault.
Abandoned == \A w \in Analyst : analysts[w] = "idle"
Slow == draftFaults < MaxDraftFaults /\ ~Locked

\* claimDraft: stale drafts are pending again, then a pending one is taken.
ClaimDraft(w) ==
    /\ analysts[w] = "idle"
    /\ draft.attempts < DraftAttempts
    /\ \/ draft.st = "pending" /\ UNCHANGED draftFaults
       \/ draft.st = "analyzing" /\ Abandoned /\ UNCHANGED draftFaults
       \/ draft.st = "analyzing" /\ ~Abandoned /\ Slow /\ draftFaults' = draftFaults + 1
    /\ draft' = [draft EXCEPT !.st = "analyzing", !.attempts = @ + 1]
    /\ analysts' = [analysts EXCEPT ![w] = "claimed"]
    /\ UNCHANGED <<media, editors, products, forced, undone>>

\* processDraft locks the draft; one that is no longer analysed is left alone.
StartAnalysis(w) ==
    /\ analysts[w] = "claimed"
    /\ ~Locked
    /\ analysts' = [analysts EXCEPT ![w] = IF draft.st = "analyzing" THEN "analyzing" ELSE "idle"]
    /\ UNCHANGED <<draft, media, editors, products, forced, draftFaults, undone>>

\* ... commits: no product, a product with all it needs, or one an editor has to complete.
FinishAnalysis(w) ==
    /\ analysts[w] = "analyzing"
    /\ \E st \in {"discarded", "needs_review", "ready"}, complete \in BOOLEAN :
         /\ st = "ready" => complete
         /\ draft' = [draft EXCEPT !.st = st, !.complete = complete]
         /\ media' = IF st = "discarded" THEN "skipped" ELSE st
    /\ analysts' = [analysts EXCEPT ![w] = "idle"]
    /\ UNCHANGED <<editors, products, forced, draftFaults, undone>>

\* ... or throws, for a while or for good; the lock is gone with the transaction.
FailAnalysis(w) ==
    /\ analysts[w] \in {"claimed", "analyzing"}
    /\ \E kind \in {"transient", "permanent"} :
         analysts' = [analysts EXCEPT ![w] = kind]
    /\ UNCHANGED <<draft, media, editors, products, forced, draftFaults, undone>>

\* The catch of processDraft: whatever the draft says by now.
RecordDraftFailure(w) ==
    LET retry == analysts[w] = "transient" /\ draft.attempts < DraftAttempts
    IN /\ analysts[w] \in {"transient", "permanent"}
       /\ ~Locked
       /\ draft' = [draft EXCEPT !.st = IF retry THEN "pending" ELSE "error"]
       /\ media' = IF retry THEN "analyzing" ELSE "error"
       /\ analysts' = [analysts EXCEPT ![w] = "idle"]
       /\ Overwrite
       /\ UNCHANGED <<editors, products, forced, draftFaults>>

\* The process stops.
AnalystCrash(w) ==
    /\ draftFaults < MaxDraftFaults
    /\ analysts[w] # "idle"
    /\ analysts' = [analysts EXCEPT ![w] = "idle"]
    /\ draftFaults' = draftFaults + 1
    /\ UNCHANGED <<draft, media, editors, products, forced, undone>>

-----------------------------------------------------------------------------
DraftInit ==
    /\ draft = [st |-> "none", attempts |-> 0, complete |-> FALSE]
    /\ media = "discovered"
    /\ analysts = [w \in Analyst |-> "idle"]
    /\ editors = [e \in Editor |-> "idle"]
    /\ products = 0
    /\ forced = 0
    /\ undone = 0
    /\ draftFaults = 0

DraftNext ==
    \/ \E force \in BOOLEAN : QueueAnalysis(force)
    \/ \E e \in Editor : ReadDraft(e) \/ UpdateDraft(e)
    \/ DiscardDraft \/ ApplyDraft
    \/ \E w \in Analyst :
         \/ ClaimDraft(w) \/ StartAnalysis(w) \/ FinishAnalysis(w)
         \/ FailAnalysis(w) \/ RecordDraftFailure(w) \/ AnalystCrash(w)

DraftSpec == DraftInit /\ [][DraftNext]_draftVars

-----------------------------------------------------------------------------
(* Properties *)

\* Draft, post, workers and edits hold values the tables and the code know.
DraftTypeOK ==
    /\ draft \in [st : DraftStatuses, attempts : 0..DraftAttempts, complete : BOOLEAN]
    /\ media \in MediaStatuses
    /\ analysts \in [Analyst -> {"idle", "claimed", "analyzing", "transient", "permanent"}]
    /\ editors \in [Editor -> {"idle", "read"}]
    /\ {products, undone} \subseteq Nat
    /\ forced \in 0..MaxForced
    /\ draftFaults \in 0..MaxDraftFaults

\* A post makes one product, and another only for an analysis an administrator forced or for
\* a write that overwrote the applied draft: two applications, a claim, a crash or a worker
\* that was overtaken never make one more.
ProductsAreAccountedFor == products <= 1 + forced + undone
=============================================================================
