----------------------------- MODULE ThemeVersions -----------------------------
(***************************************************************************)
(* The theme of one store (modules/themes/service.js, routes/themes.js,    *)
(* migration 063): one draft that editors save against the hash they saw,  *)
(* publication of the draft, and rollbacks, which publish a copy of an     *)
(* older version.  A request is a transaction of several statements; rows  *)
(* it has locked stay locked until it ends.  A configuration stands for    *)
(* its hash.  Preview tokens and validation are left out.                  *)
(***************************************************************************)
EXTENDS Naturals, Sequences, FiniteSets

CONSTANTS
    ThemeEditor,      \* sessions of administrators
    Config,           \* theme configurations
    NoConfig,
    MaxThemeVersions  \* bound: versions of the store

ASSUME ThemeAssumption == Config # {} /\ NoConfig \notin Config /\ MaxThemeVersions \in Nat \ {0}

VARIABLES
    themes,       \* theme_versions by version_number
    publications, \* theme_publications by id
    view,         \* the configuration of the draft each editor last saw
    request       \* the request each editor has in progress

themeVars == <<themes, publications, view, request>>

NoThemeRequest == [pc |-> "idle", kind |-> "create", row |-> 0, old |-> 0, config |-> NoConfig]

InState(st) == {v \in DOMAIN themes : themes[v].st = st}
TheDraft == InState("draft")
Published == InState("published")

\* Rows a request has locked: the draft it publishes or the target it restores, and the
\* version it has archived.
LockedRows(e) ==
    LET q == request[e]
    IN IF q.pc \in {"locked", "read"} THEN {q.row}
       ELSE IF q.pc = "archived" THEN {q.row, q.old} ELSE {}
RowFree(e, v) == \A f \in ThemeEditor \ {e} : v \notin LockedRows(f)

-----------------------------------------------------------------------------
(* The draft *)

\* GET draft
ViewDraft(e) ==
    /\ \E v \in TheDraft : view' = [view EXCEPT ![e] = themes[v].config]
    /\ UNCHANGED <<themes, publications, request>>

\* createDraft: no draft is seen, and the published configuration is copied.
CreateBegin(e) ==
    /\ request[e].pc = "idle" /\ TheDraft = {}
    /\ \E v \in Published :
         request' = [request EXCEPT ![e] = [NoThemeRequest EXCEPT !.pc = "copied",
                                                             !.config = themes[v].config]]
    /\ UNCHANGED <<themes, publications, view>>

\* The insert, which idx_theme_versions_one_draft refuses when somebody else was faster.
CreateInsert(e) ==
    /\ request[e].pc = "copied"
    /\ request' = [request EXCEPT ![e] = NoThemeRequest]
    /\ IF TheDraft = {}
       THEN /\ Len(themes) < MaxThemeVersions
            /\ themes' = Append(themes, [st |-> "draft", config |-> request[e].config])
            /\ view' = [view EXCEPT ![e] = request[e].config]
       ELSE UNCHANGED <<themes, view>>
    /\ UNCHANGED publications

\* saveDraft: under the row lock, against the hash the editor saw.
SaveDraft(e, config) ==
    /\ request[e].pc = "idle"
    /\ \E v \in TheDraft :
         /\ RowFree(e, v)
         /\ themes[v].config = view[e]
         /\ themes' = [themes EXCEPT ![v].config = config]
    /\ view' = [view EXCEPT ![e] = config]
    /\ UNCHANGED <<publications, request>>

-----------------------------------------------------------------------------
(* Publication and rollback *)

\* publishDraft: the draft is locked and is the one the editor saw.
PublishDraft(e) ==
    /\ request[e].pc = "idle"
    /\ \E v \in TheDraft :
         /\ RowFree(e, v)
         /\ themes[v].config = view[e]
         /\ request' = [request EXCEPT ![e] = [pc |-> "locked", kind |-> "publish", row |-> v,
                                               old |-> 0, config |-> view[e]]]
    /\ UNCHANGED <<themes, publications, view>>

\* rollbackToVersion: any version that is not the draft is locked and copied.
RollbackTo(e, v) ==
    /\ request[e].pc = "idle"
    /\ v \in DOMAIN themes \ TheDraft /\ RowFree(e, v)
    /\ request' = [request EXCEPT ![e] = [pc |-> "locked", kind |-> "rollback", row |-> v,
                                          old |-> 0, config |-> themes[v].config]]
    /\ UNCHANGED <<themes, publications, view>>

\* loadPublished; a rollback to the version that is live is refused.
ReadPublished(e) ==
    /\ request[e].pc = "locked"
    /\ \E v \in Published :
         request' = [request EXCEPT ![e] =
             IF @.kind = "rollback" /\ @.row = v THEN NoThemeRequest
             ELSE [@ EXCEPT !.pc = "read", !.old = v]]
    /\ UNCHANGED <<themes, publications, view>>

\* The update that archives, by id: it waits for the row and does not look at its status.
ArchiveOld(e) ==
    /\ request[e].pc = "read" /\ RowFree(e, request[e].old)
    /\ request' = [request EXCEPT ![e].pc = "archived"]
    /\ UNCHANGED <<themes, publications, view>>

\* The new row of theme_versions, of which one was archived and one goes live, and its record.
GoLive(e) ==
    LET q == request[e]
        archived == [themes EXCEPT ![q.old].st = "archived"]
        live == IF q.kind = "publish" THEN q.row ELSE Len(themes) + 1
    IN /\ live <= MaxThemeVersions
       /\ themes' = IF q.kind = "publish" THEN [archived EXCEPT ![live].st = "published"]
                    ELSE Append(archived, [st |-> "published", config |-> q.config])
       /\ publications' = Append(publications, [version |-> live, previous |-> q.old,
                                                config |-> q.config])

\* Mutant of CommitLive: no index keeps a second version from going live.
CommitLiveUnchecked(e) ==
    /\ request[e].pc = "archived"
    /\ request' = [request EXCEPT ![e] = NoThemeRequest]
    /\ GoLive(e)
    /\ UNCHANGED view

\* The version goes live and the transaction commits, or idx_theme_versions_one_published
\* refuses it because another one has gone live since loadPublished, and nothing happened.
CommitLive(e) ==
    /\ request[e].pc = "archived"
    /\ request' = [request EXCEPT ![e] = NoThemeRequest]
    /\ IF Published \subseteq {request[e].old} THEN GoLive(e) ELSE UNCHANGED <<themes, publications>>
    /\ UNCHANGED view

-----------------------------------------------------------------------------
\* ensurePublishedTheme gave the store its first version.
ThemeInit ==
    /\ \E config \in Config :
         /\ themes = <<[st |-> "published", config |-> config]>>
         /\ publications = <<[version |-> 1, previous |-> 0, config |-> config]>>
    /\ view = [e \in ThemeEditor |-> NoConfig]
    /\ request = [e \in ThemeEditor |-> NoThemeRequest]

ThemeNext ==
    \E e \in ThemeEditor :
      \/ ViewDraft(e) \/ CreateBegin(e) \/ CreateInsert(e)
      \/ \E config \in Config : SaveDraft(e, config)
      \/ PublishDraft(e)
      \/ \E v \in 1..MaxThemeVersions : RollbackTo(e, v)
      \/ ReadPublished(e) \/ ArchiveOld(e) \/ CommitLive(e)

ThemeSpec == ThemeInit /\ [][ThemeNext]_themeVars

-----------------------------------------------------------------------------
(* Properties *)

\* Versions, records and requests hold values of their kind.
ThemeTypeOK ==
    /\ \A v \in DOMAIN themes :
         themes[v] \in [st : {"draft", "published", "archived"}, config : Config]
    /\ \A i \in DOMAIN publications :
         publications[i] \in [version : DOMAIN themes, previous : 0..Len(themes), config : Config]
    /\ view \in [ThemeEditor -> Config \cup {NoConfig}]
    /\ request \in [ThemeEditor ->
           [pc : {"idle", "copied", "locked", "read", "archived"},
            kind : {"create", "publish", "rollback"}, row : 0..MaxThemeVersions,
            old : 0..MaxThemeVersions, config : Config \cup {NoConfig}]]

\* "Why is this live" is answered by the table of publications (migration 063:72-73), however
\* publications and rollbacks overlap: one version is live, the last record names it, each
\* record names the version it replaced, and the configuration it recorded, the one its
\* editor saw, is the one that went live and is there still.
LiveThemeIsRecorded ==
    /\ Published = {publications[Len(publications)].version}
    /\ Cardinality(TheDraft) <= 1
    /\ \A i \in DOMAIN publications :
         /\ themes[publications[i].version].config = publications[i].config
         /\ publications[i].previous = IF i = 1 THEN 0 ELSE publications[i - 1].version
=============================================================================
