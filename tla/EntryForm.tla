------------------------------- MODULE EntryForm -------------------------------
(***************************************************************************)
(* One Admin's entry form for a multi-component Measure                    *)
(* (StrategicDataEntryClient.tsx), the page it was rendered from           *)
(* (data-entry-server.ts), the requests it sends, and the refreshes of the *)
(* router, while other Admins edit the components and enter results        *)
(* (ComponentSet).                                                         *)
(*                                                                         *)
(* A draft is the value typed for a component; how it is read and what the *)
(* server makes of its fields is ResultEntry's.  The client keeps one      *)
(* request in the air at most; requests and answers may be lost.  The      *)
(* Measure shown elsewhere has no form here, so nothing is typed there.    *)
(***************************************************************************)
EXTENDS ComponentSet, Sequences

CONSTANTS
  Blank,          \* an input nobody has filled
  MaxRequests,    \* bound: requests of the form
  MaxEdits,       \* bound: steps of the other Admins
  MaxQueue        \* bound: jobs the router has waiting

ASSUME EntryFormAssumption == Blank \notin Values

VARIABLES
  page,           \* the props of the form: what the server last rendered
  drafts,         \* what the inputs show
  baseline,       \* what they are compared with: unsaved is drafts # baseline
  removed,        \* removedRecordKeys: records hidden until fresh data comes
  request,        \* the request the form is waiting for
  queue,          \* the router's jobs: a refresh, or a navigation
  rendered,       \* what the server has rendered for the first of them
  held,           \* history: <<component, value>> the server has ever held
  gone,           \* history: records this form was told are removed
  uncovered,      \* history: those removed while an older job was waiting
  sent, edits     \* counters for the bounds

clientVars == <<page, drafts, baseline, removed>>
routerVars == <<queue, rendered>>
historyVars == <<held, gone, uncovered>>
vars == <<componentVars, clientVars, request, routerVars, historyVars, sent, edits>>

Nothing == [kind |-> "none"]

Idle == request = Nothing
Unsaved == drafts # baseline

(* loadContextRecords: archived components have none.                       *)
Records == {e \in entries : e.component \in Live}

(* loadStrategicDataEntryPageData: the components that are not archived and *)
(* their records.  fresh is history: nobody else has changed, and no lost   *)
(* request may have changed, what it shows.                                 *)
MeasurePage ==
  [kind |-> "measure", components |-> Live, records |-> Records, fresh |-> TRUE]
OtherPage == [kind |-> "other", components |-> {}, records |-> {}, fresh |-> TRUE]

PageFor(job) ==
  IF job = "measure" \/ (job = "refresh" /\ page.kind = "measure")
    THEN MeasurePage ELSE OtherPage

Outdated(p) == IF p = Nothing THEN p ELSE [p EXCEPT !.fresh = FALSE]

(* visibleRecords, initialStrategicDataEntryDrafts.                         *)
Visible(p, hidden) == {e \in p.records : e.id \notin hidden}

InitialDrafts(p, hidden) ==
  [c \in p.components |->
     IF \E e \in Visible(p, hidden) : e.component = c
       THEN (CHOOSE e \in Visible(p, hidden) : e.component = c).value
       ELSE Blank]

(* The effect on initialDrafts: inputs and baseline start over.             *)
StartOver(p, hidden) ==
  /\ drafts' = InitialDrafts(p, hidden)
  /\ baseline' = InitialDrafts(p, hidden)

(* A job waits behind those before it; a navigation takes the place of the  *)
(* one under way.                                                           *)
Queued == Append(queue, "refresh")
Navigated(to) == <<to>> \o (IF queue = <<>> THEN <<>> ELSE Tail(queue))

EntryFormInit ==
  /\ ComponentInit
  /\ page = MeasurePage /\ drafts = InitialDrafts(page, {}) /\ baseline = drafts
  /\ removed = {} /\ request = Nothing
  /\ queue = <<>> /\ rendered = Nothing
  /\ held = {} /\ gone = {} /\ uncovered = {}
  /\ sent = 0 /\ edits = 0

-----------------------------------------------------------------------------
(* The form.                                                                *)

(* updateDraft; the fieldset is disabled while a request is in the air.     *)
Type(c, value) ==
  /\ Idle /\ c \in page.components
  /\ drafts' = [drafts EXCEPT ![c] = value]
  /\ UNCHANGED <<componentVars, page, baseline, removed, request, routerVars,
                 historyVars, sent, edits>>

Sending == Idle /\ sent < MaxRequests /\ sent' = sent + 1

(* What the form takes for saved once a save is sent, and once answered.    *)
BaselineSent_AsTyped == drafts

BaselineSent == baseline
BaselineAnswered == request.values

(* submit: one batch of all the drafts, refused locally if one is blank.    *)
Submit ==
  /\ Sending
  /\ page.components # {} /\ \A c \in page.components : drafts[c] # Blank
  /\ request' = [kind |-> "save", values |-> drafts, answer |-> "none"]
  /\ baseline' = BaselineSent
  /\ UNCHANGED <<componentVars, page, drafts, removed, routerVars, historyVars, edits>>

(* clearSavedValue, after its confirmation.                                 *)
Remove(e) ==
  /\ Sending
  /\ request' = [kind |-> "remove", id |-> e.id, answer |-> "none"]
  /\ UNCHANGED <<componentVars, clientVars, routerVars, historyVars, edits>>


(* The jobs a save leaves to the router: on to the next Measure that is not *)
(* complete, or a refresh where the page knows of none.                     *)
AfterSave == {Queued, Navigated("other")}

SaveAnswered ==
  /\ request.kind = "save" /\ request.answer = "ok"
  /\ request' = Nothing
  /\ baseline' = BaselineAnswered
  /\ queue' \in AfterSave
  /\ rendered' = IF queue' = Queued THEN rendered ELSE Nothing
  /\ UNCHANGED <<componentVars, page, drafts, removed, historyVars, sent, edits>>

(* removedRecordKeys once the server has confirmed a removal.               *)
Hidden(id) == removed \cup {id}

RemovalAnswered ==
  /\ request.kind = "remove" /\ request.answer = "ok"
  /\ request' = Nothing
  /\ removed' = Hidden(request.id)
  /\ StartOver(page, Hidden(request.id))
  /\ queue' = Queued
  /\ gone' = gone \cup {request.id}
  /\ uncovered' = IF queue = <<>> THEN uncovered ELSE uncovered \cup {request.id}
  /\ UNCHANGED <<componentVars, page, rendered, held, sent, edits>>

(* The inputs stay; so does what is taken for saved.                        *)
RefusalAnswered ==
  /\ ~Idle /\ request.answer = "refused"
  /\ request' = Nothing
  /\ UNCHANGED <<componentVars, clientVars, routerVars, historyVars, sent, edits>>

(* The connection fails before or after the server acts.  (One that acts    *)
(* later still is as good as another Admin.)                                *)
AnswerLost ==
  /\ ~Idle
  /\ request' = Nothing
  /\ page' = Outdated(page) /\ rendered' = Outdated(rendered)
  /\ UNCHANGED <<componentVars, drafts, baseline, removed, queue, historyVars, sent, edits>>

(* requestSelection: at once from a saved form, else once the Admin has     *)
(* agreed to leave it.                                                      *)
Select(to) ==
  /\ Len(queue) < MaxQueue
  /\ queue' = Navigated(to) /\ rendered' = Nothing
  /\ UNCHANGED <<componentVars, clientVars, request, historyVars, sent, edits>>

-----------------------------------------------------------------------------
(* The server and the router.                                               *)

Holding == held' = held \cup {<<e.component, e.value>> : e \in entries'}

LeftBehind_ValidOnes(values) == [c \in DOMAIN values \cap Live |-> values[c]]

(* What of a refused batch stays behind: one transaction, so nothing.       *)
LeftBehind(values) == [c \in {} |-> Blank]

ServeSave ==
  /\ request.kind = "save" /\ request.answer = "none"
  /\ nextEntry + Cardinality(New(request.values)) <= MaxEntries + 1
  /\ IF Accepted(request.values)
       THEN SaveEntries(request.values) /\ request' = [request EXCEPT !.answer = "ok"]
       ELSE SaveEntries(LeftBehind(request.values))
              /\ request' = [request EXCEPT !.answer = "refused"]
  /\ Holding
  /\ UNCHANGED <<clientVars, routerVars, gone, uncovered, sent, edits>>

ServeRemove ==
  /\ request.kind = "remove" /\ request.answer = "none"
  /\ \/ \E e \in entries :
          e.id = request.id /\ DeleteEntry(e) /\ request' = [request EXCEPT !.answer = "ok"]
     \/ /\ \A e \in entries : e.id # request.id
        /\ request' = [request EXCEPT !.answer = "refused"]
        /\ UNCHANGED componentVars
  /\ UNCHANGED <<clientVars, routerVars, historyVars, sent, edits>>

(* Any request may also be refused before it is looked at (session, guard). *)
Refuse ==
  /\ ~Idle /\ request.answer = "none"
  /\ request' = [request EXCEPT !.answer = "refused"]
  /\ UNCHANGED <<componentVars, clientVars, routerVars, historyVars, sent, edits>>

Render ==
  /\ queue # <<>> /\ rendered = Nothing
  /\ rendered' = PageFor(Head(queue))
  /\ UNCHANGED <<componentVars, clientVars, request, queue, historyVars, sent, edits>>

(* Fresh data: it hides nothing any more, and the form starts over.         *)
Deliver ==
  /\ rendered # Nothing
  /\ page' = rendered /\ removed' = {}
  /\ StartOver(rendered, {})
  /\ queue' = Tail(queue) /\ rendered' = Nothing
  /\ UNCHANGED <<componentVars, request, historyVars, sent, edits>>

(* Another Admin.                                                           *)
Elsewhere ==
  /\ edits < MaxEdits /\ edits' = edits + 1
  /\ ComponentNext
  /\ Holding
  /\ IF UNCHANGED <<components, entries>> THEN UNCHANGED <<page, rendered>>
       ELSE page' = Outdated(page) /\ rendered' = Outdated(rendered)
  /\ UNCHANGED <<drafts, baseline, removed, request, queue, gone, uncovered, sent>>

EntryFormNext ==
  \/ \E c \in page.components, v \in Values \cup {Blank} : Type(c, v)
  \/ Submit \/ SaveAnswered
  \/ \E e \in Visible(page, removed) : Remove(e)
  \/ RemovalAnswered \/ RefusalAnswered \/ AnswerLost
  \/ \E to \in {"measure", "other"} : Select(to)
  \/ ServeSave \/ ServeRemove \/ Refuse \/ Render \/ Deliver
  \/ Elsewhere

EntryFormSpec == EntryFormInit /\ [][EntryFormNext]_vars

-----------------------------------------------------------------------------

(* A form that says nothing is unsaved - and may be left without a question *)
(* - shows only values the server has held: nothing typed is taken for      *)
(* saved before it is (setBaselineDrafts, StrategicDataEntryClient.tsx:396).*)
CleanFormIsHeld ==
  Idle /\ ~Unsaved =>
    \A c \in page.components : drafts[c] = Blank \/ <<c, drafts[c]>> \in held

(* Once a removal is confirmed its result is not shown again, where the     *)
(* next save would recreate it, unless a page rendered before the removal   *)
(* was still on its way (removedRecordKeys, StrategicDataEntryClient.tsx:   *)
(* 122-136).                                                                *)
RemovedIsHidden ==
  \A e \in Visible(page, removed) : e.id \in gone => e.id \in uncovered

(* A form at rest that nobody interfered with shows exactly what is stored, *)
(* after saves accepted, refused as a whole, or answered late, and after    *)
(* removals (router.refresh, upsertStrategyMultiComponentBatch).            *)
QuietFormIsCurrent ==
  Idle /\ queue = <<>> /\ page.kind = "measure" /\ page.fresh =>
    /\ page.components = Live
    /\ Visible(page, removed) = {e \in entries : e.component \in Live}
    /\ baseline = InitialDrafts(MeasurePage, {})

(* Together: the form never shows what is gone, and at rest misses nothing. *)
FormShowsTheServer == RemovedIsHidden /\ QuietFormIsCurrent
=============================================================================
