----------------------------- MODULE ReportPage -----------------------------
(***************************************************************************)
(* A report in a browser (reports/_assets/report.js and compare.js): the   *)
(* switch between the modes, the list of a mode and the fiche that takes   *)
(* its place, the facets and pages of the gallery, and the comparison with *)
(* the results of another run, read from files.                            *)
(***************************************************************************)
EXTENDS ReportDocuments

CONSTANTS
  PageSize,      \* cards on a page of the gallery
  Files,         \* files on the disk of the visitor
  TooLarge,      \* those over the limit of size (MAX_BYTES)
  MaxChoices,    \* files given to a reader
  OtherRate      \* a rate in the results of another run

VARIABLES
  shownModes,    \* the modes that are visible
  open,          \* mode |-> its detail has taken the place of its master
  panels,        \* the profiles that are not hidden in the detail of engines
  live,          \* the fiche cloned into the detail of documents, or NoFiche
  tab,           \* the engine whose text the live fiche shows
  trigger,       \* mode |-> the link that opened its detail, or NoFiche
  followed,      \* mode |-> what the last link followed was about, or NoFiche
  facets,        \* the choice of each facet of the gallery
  pageNumber,    \* of the gallery, from 0
  visible,       \* the cards that are not hidden
  docView,       \* "grid" or "list"
  reading,       \* the choices of a file whose reader is under way
  chosen,        \* all the choices that a reader was given
  banner         \* what the comparison shows, if anything

drillVars == <<open, panels, live, tab, trigger, followed>>
galleryVars == <<facets, pageNumber, visible, docView>>
compareVars == <<reading, chosen, banner>>
pageVars == <<shownModes, drillVars, galleryVars, compareVars>>

NoFiche == -1
Facets == {"stratum", "anom"}
Matches(card, f, wanted) ==
  wanted = AnyChoice \/ CASE f = "stratum" -> card.stratum = wanted
                          [] f = "anom" -> wanted \in card.anom
\* Mutation: the facets do not compose.
KeptByAny(card, choice) == \E f \in Facets : choice[f] # AnyChoice => Matches(card, f, choice[f])
Kept(card, choice) == \A f \in Facets : Matches(card, f, choice[f])

(* The paginator shows, of the cards that are kept, those of its page.     *)
ActiveCards(choice) == {i \in DOMAIN Cards : Kept(Cards[i], choice)}
Pages(choice) == Max({1, (Cardinality(ActiveCards(choice)) + PageSize - 1) \div PageSize})
Paginated(choice, number) ==
  LET active == ActiveCards(choice)
      p == Clamped(number, 0, Pages(choice) - 1)
      onPage == {k \in 1 .. Cardinality(active) : (k - 1) \div PageSize = p}
  IN {Cards[Nth(active, k)].to : k \in onPage}

AllChoices == [f \in Facets |-> AnyChoice]
ModeSet == {"report", "explorer"}
(* A report that is not loaded shows no mode.                              *)
PageInit ==
  /\ shownModes = {}
  /\ open = [m \in ModeSet |-> FALSE]
  /\ panels = {} /\ live = NoFiche /\ tab = NoFiche
  /\ trigger = [m \in ModeSet |-> NoFiche] /\ followed = [m \in ModeSet |-> NoFiche]
  /\ facets = AllChoices /\ pageNumber = 0 /\ visible = {}
  /\ docView = "grid"
  /\ reading = {} /\ chosen = {} /\ banner = {}
-----------------------------------------------------------------------------
(* The first mode, or the one that the hash of the address names; with one *)
(* mode there is no switch, and nothing is hidden.                         *)
LoadPage ==
  /\ shownModes = {}
  /\ LET modes == Modes
     IN shownModes' \in IF Len(modes) < 2 THEN {ToSet(modes)} ELSE {{m} : m \in ToSet(modes)}
  /\ visible' = Paginated(facets, pageNumber)
  /\ UNCHANGED <<drillVars, facets, pageNumber, docView, compareVars>>

ActivateMode ==
  /\ shownModes # {}
  /\ Len(Modes) = 2 /\ \E m \in ToSet(Modes) : shownModes' = {m}
  /\ UNCHANGED <<drillVars, galleryVars, compareVars>>

(* swap: a link of a fiche does not become the one to come back to.        *)
Swap(mode, link, about, fromInside) ==
  /\ open' = [open EXCEPT ![mode] = TRUE]
  /\ trigger' = IF fromInside THEN trigger ELSE [trigger EXCEPT ![mode] = link]
  /\ followed' = [followed EXCEPT ![mode] = about]

(* openDetail: of the profiles, only the one with the link's id is shown.  *)
HasPanel(id) == \E i \in DOMAIN Profiles : Profiles[i].id = id
OpenPanel(id, link, about, fromInside) ==
  /\ HasPanel(id)
  /\ panels' = {id}
  /\ Swap("report", link, about, fromInside)
  /\ UNCHANGED <<shownModes, live, tab, galleryVars, compareVars>>
\* The name of an engine in the comparison is the link to its profile.
OpenProfile ==
  /\ "report" \in shownModes /\ ~open["report"]
  /\ \E l \in ProfileLinks : OpenPanel(l.to, l.engine, l.engine, FALSE)
\* The link of a profile to the one before or after it.
NeighbourProfile ==
  /\ "report" \in shownModes /\ open["report"]
  /\ \E i \in {k \in DOMAIN Profiles : Profiles[k].id \in panels}, step \in {-1, 1} :
       LET n == Len(result.engines)
           about == Profiles[((i - 1 + step) % n) + 1].of
       IN OpenPanel(IF step = 1 THEN Profiles[i].next ELSE Profiles[i].previous,
                    NoFiche, about, TRUE)

(* openDocDetail: the fiche is cloned from its template, with the text of  *)
(* the first engine.                                                       *)
FirstTab(f) == IF f.tabs = <<>> THEN NoFiche ELSE f.tabs[1]
OpenFiche(id, link, about, fromInside) ==
  /\ id + 1 \in DOMAIN Fiches
  /\ live' = id /\ tab' = FirstTab(Fiches[id + 1])
  /\ Swap("explorer", link, about, fromInside)
  /\ UNCHANGED <<shownModes, panels, galleryVars, compareVars>>
OpenDocument ==
  /\ "explorer" \in shownModes /\ ~open["explorer"] /\ docView = "grid"
  /\ \E i \in DOMAIN Cards :
       LET card == Cards[i] IN card.to \in visible /\ OpenFiche(card.to, card.to, card.of, FALSE)
NeighbourDocument ==
  /\ "explorer" \in shownModes /\ open["explorer"] /\ live # NoFiche
  /\ \E step \in {-1, 1} :
       LET about == result.documents[((live + step) % Len(result.documents)) + 1]
           fiche == Fiches[live + 1]
       IN OpenFiche(IF step = 1 THEN fiche.next ELSE fiche.previous, NoFiche, about, TRUE)
ShowEngine ==
  /\ live # NoFiche /\ "explorer" \in shownModes /\ open["explorer"]
  /\ tab' \in ToSet(Fiches[live + 1].tabs) \ {tab}
  /\ UNCHANGED <<shownModes, open, panels, live, trigger, followed, galleryVars, compareVars>>

(* closeDetail: the live fiche is freed; the profiles stay as they are in  *)
(* the hidden detail.                                                      *)
CloseDetail ==
  \E m \in shownModes :
    /\ open[m]
    /\ open' = [open EXCEPT ![m] = FALSE]
    /\ live' = IF m = "explorer" THEN NoFiche ELSE live
    /\ tab' = IF m = "explorer" THEN NoFiche ELSE tab
    /\ followed' = [followed EXCEPT ![m] = NoFiche]
    /\ UNCHANGED <<shownModes, panels, trigger, galleryVars, compareVars>>
-----------------------------------------------------------------------------
InGallery == "explorer" \in shownModes /\ ~open["explorer"]
(* A choice in a facet composes with that of the other, and the paginator  *)
(* is back at its first page.                                              *)
ChooseFacet ==
  /\ InGallery /\ docView = "grid"
  /\ \E f \in Facets :
     \E choice \in IF f = "stratum" THEN StratumChips ELSE AnomalyChips :
       /\ facets' = [facets EXCEPT ![f] = choice]
       /\ visible' = Paginated(facets', 0)
  /\ pageNumber' = 0
  /\ UNCHANGED <<shownModes, drillVars, docView, compareVars>>
TurnPage ==
  /\ InGallery /\ docView = "grid"
  /\ \E delta \in {-1, 1} :
       /\ pageNumber + delta \in 0 .. Pages(facets) - 1
       /\ pageNumber' = pageNumber + delta
       /\ visible' = Paginated(facets, pageNumber')
  /\ UNCHANGED <<shownModes, drillVars, facets, docView, compareVars>>
ChooseView ==
  /\ InGallery
  /\ docView' = IF docView = "grid" THEN "list" ELSE "grid"
  /\ UNCHANGED <<shownModes, drillVars, facets, pageNumber, visible, compareVars>>
-----------------------------------------------------------------------------
(* A file, also one chosen before, is chosen while others may still be     *)
(* read; one that is too large is not read.  The banner is of the choice   *)
(* whose reader ends last, and compares what both runs know.               *)
ChooseFile ==
  /\ Cardinality(chosen) < MaxChoices
  /\ \E f \in Files :
       LET choice == [file |-> f, turn |-> Cardinality(chosen) + 1]
           read == IF f \in TooLarge THEN {} ELSE {choice}
       IN reading' = reading \cup read /\ chosen' = chosen \cup read
  /\ UNCHANGED <<shownModes, drillVars, galleryVars, banner>>
Deltas(other) ==
  [k \in DOMAIN CerByKey \cap DOMAIN other |-> other[k] - CerByKey[k]]
ReadFile ==
  \E choice \in reading :
  \E others \in SUBSET (ToSet(result.engines) \X ToSet(ViewNames)) :
    /\ reading' = reading \ {choice}
    /\ banner' = {[choice |-> choice, deltas |-> Deltas([k \in others |-> OtherRate])]}
    /\ UNCHANGED <<shownModes, drillVars, galleryVars, chosen>>
\* A file that is not JSON leaves the banner as it is.
ReadInvalid ==
  \E choice \in reading :
    /\ reading' = reading \ {choice}
    /\ UNCHANGED <<shownModes, drillVars, galleryVars, chosen, banner>>

BrowseNext ==
  \/ LoadPage \/ ActivateMode \/ OpenProfile \/ NeighbourProfile \/ OpenDocument \/ NeighbourDocument
  \/ ShowEngine \/ CloseDetail \/ ChooseFacet \/ TurnPage \/ ChooseView
CompareNext == ChooseFile \/ ReadFile \/ ReadInvalid
-----------------------------------------------------------------------------
(* What the visitor asked for is what the page shows: a detail that has    *)
(* taken the place of a list shows one fiche, the one of the last link     *)
(* followed, also from fiche to fiche and around; what it goes back to is  *)
(* visible in the list; a fiche is live only then.  The cards that are     *)
(* visible are of documents that have all that was chosen, there is one if *)
(* a document has it, and the pages leave none out.  A comparison is of a  *)
(* file that was chosen and could be read, not always of the last one,     *)
(* engine by engine of this report.                                        *)
FicheIsTheOneFollowed ==
  /\ open["report"] =>
       /\ \E e \in ToSet(result.engines) :
            panels = {PositionIn(result.engines, e)} /\ followed["report"] = e
       /\ trigger["report"] \in {r.of[2] : r \in ToSet(ByEngine[1].rows)}
  /\ open["explorer"] =>
       /\ live # NoFiche /\ followed["explorer"] = result.documents[live + 1]
       /\ docView = "grid" /\ trigger["explorer"] \in visible
  /\ live # NoFiche => open["explorer"]
  /\ tab # NoFiche => live # NoFiche /\ tab \in ToSet(Fiches[live + 1].tabs)
Wanted(d) ==
  /\ facets["stratum"] \in {AnyChoice, result.strata[d]}
  /\ facets["anom"] \in Anomalies(d) \cup {AnyChoice}
SelectionIsShown ==
  shownModes # {} =>
  LET wanted == {i \in Indices(result.documents) : Wanted(result.documents[i])}
  IN /\ visible \subseteq {i - 1 : i \in wanted}
     /\ Cardinality(visible) = Min({PageSize, Cardinality(wanted) - PageSize * pageNumber})
ComparisonIsOfTheFile ==
  \A shown \in banner :
    /\ shown.choice \in chosen /\ shown.choice.file \notin TooLarge
    /\ \A k \in DOMAIN shown.deltas :
         shown.deltas[k] = OtherRate - AggregateOf(k[2], k[1], "cer")
PageShowsWhatWasAskedFor ==
  FicheIsTheOneFollowed /\ SelectionIsShown /\ ComparisonIsOfTheFile
=============================================================================
