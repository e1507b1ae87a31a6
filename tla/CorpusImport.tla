---------------------------- MODULE CorpusImport ----------------------------
(***************************************************************************)
(* One import of a corpus from a distant source (cinoc.app.corpus_import): *)
(* a IIIF manifest, a Gallica document, an eScriptorium document, a        *)
(* dataset of Hugging Face or a published layout, over the hardened client *)
(* of cinoc.adapters.corpus._http.                                         *)
(*                                                                         *)
(* What a source serves is a sequence of items (canvases, parts, rows,     *)
(* entries), of which the import keeps those it can use.  A file holds the *)
(* content of the item it came from, so the model says whose image and     *)
(* whose text a document ends up with.                                     *)
(***************************************************************************)
EXTENDS Naturals, Sequences, FiniteSets

CONSTANTS
  MaxItems,      \* items a source serves
  PerPage,       \* items of a page of the API of eScriptorium
  MaxRedirects   \* redirections that are followed (_MAX_REDIRECTS)

ASSUME ImportAssumption ==
  MaxItems \in Nat \ {0} /\ PerPage \in Nat \ {0} /\ MaxRedirects \in Nat

VARIABLES
  order,      \* the request served: [source, limit], limit 0 for none
  served,     \* the items the source serves
  found,      \* the items located so far: [of, image, tells, text]
  stage,      \* where the import is
  next,       \* the item it is at, or the page of the API
  request,    \* the HTTP request in flight
  partial,       \* the document whose image is in its .part file, or 0
  images,     \* images[d]: the item whose image is in the file of d, or 0
  texts,      \* texts[d]: the item whose text is in the file of d, or 0
  documents   \* the documents built: [id, of, text]

importVars == <<order, served, found, stage, next, request, partial, images, texts,
                documents>>

Sources == {"iiif", "gallica", "escriptorium", "huggingface", "curated"}
Items   == 1..MaxItems
Hosts   == {"home", "away"}

NoOrder   == [source |-> "none", limit |-> 0]
NoRequest == [for |-> "none", hops |-> 0, origin |-> "home", host |-> "home",
              auth |-> FALSE]

\* How an import ends: a corpus (201), a refusal the caller is told (422), a
\* library the server lacks (409), an error of the server (500).
Outcomes == {"corpus", "refused", "unavailable", "error"}

ImportInit ==
  /\ order = NoOrder
  /\ served = <<>> /\ found = <<>> /\ documents = <<>>
  /\ stage = "idle" /\ next = 1
  /\ request = NoRequest
  /\ partial = 0
  /\ images = [d \in Items |-> 0]
  /\ texts = [d \in Items |-> 0]

End(outcome) == stage' = outcome /\ request' = NoRequest /\ partial' = 0

-----------------------------------------------------------------------------
(* Requests: _stream_validated.                                            *)

\* host is that of the first address; auth, whether the caller joins a token.
Send(for, host, auth) ==
  request' = [for |-> for, hops |-> 0, origin |-> host, host |-> host, auth |-> auth]

\* Mutation: the headers follow the redirections.
HeadersFollow == request.auth

\* The headers are sent to the host of the first address only.
HopHeaders == request.auth /\ request.host = request.origin

Redirected(host) ==
  /\ request.for # "none" /\ partial = 0 /\ request.hops < MaxRedirects
  /\ request' = [request EXCEPT !.hops = @ + 1, !.host = host]
  /\ UNCHANGED <<order, served, found, stage, next, partial, images, texts, documents>>

Answered(for) == request.for = for /\ partial = 0

-----------------------------------------------------------------------------
(* What the sources serve.                                                 *)

NoImage == [image |-> "none", tells |-> FALSE, text |-> "none"]

\* A canvas whose resource has an address or an image service, or neither.
Canvases == {NoImage, [NoImage EXCEPT !.image = "away"]}

\* A view with or without an image, whose address tells the number of the view
\* or not, and with or without OCR.
Views == {[NoImage EXCEPT !.text = text] : text \in {"none", "some"}}
         \union [image : {"home"}, tells : BOOLEAN, text : {"none", "some"}]

\* A part without an integer pk, or with one: an image or none, a text in the
\* layer or none.
Parts == {NoImage} \union [image : {"none", "home", "away"}, tells : {TRUE},
                           text : {"none", "some"}]

\* A row that is no record, or without image bytes, or too big, or a page.
Rows == {NoImage, [NoImage EXCEPT !.image = "no row"]}
        \union [image : {"big", "home"}, tells : {TRUE}, text : {"no column", "none", "some"}]

\* An entry refused, or with its paths and an identifier, its own or a copy.
Entries == {[NoImage EXCEPT !.image = "bad"]}
           \union [image : {"home"}, tells : BOOLEAN, text : {"some"}]

ServedBy(source) ==
  CASE source = "iiif"         -> Canvases
    [] source = "gallica"      -> Views
    [] source = "escriptorium" -> Parts
    [] source = "huggingface"  -> Rows
    [] source = "curated"      -> Entries

Numbered(i) == [of |-> i, image |-> served[i].image, tells |-> served[i].tells,
                text |-> served[i].text]

HasImage(item) == item.image # "none"
HasKey(item)   == item.tells

\* The items of the places kept, in the order they are served (one sequence).
InOrder(keep) ==
  {[k \in DOMAIN t |-> Numbered(t[k])] :
     t \in {t \in [1..Cardinality(keep) -> keep] :
              /\ \A i \in keep : \E k \in DOMAIN t : t[k] = i
              /\ \A j, k \in DOMAIN t : j < k => t[j] < t[k]}}

Limited(s) == IF order.limit \in 1..Len(s) THEN SubSeq(s, 1, order.limit) ELSE s

-----------------------------------------------------------------------------
(* The import is asked for, and the items are located.                     *)

Ask(source, limit, items) ==
  /\ stage = "idle"
  /\ order' = [source |-> source, limit |-> limit]
  /\ served' = items
  /\ IF source \in {"huggingface", "curated"}
       THEN stage' = "reading" /\ UNCHANGED request
       ELSE stage' = "listing" /\ Send("list", "home", source = "escriptorium")
  /\ UNCHANGED <<found, next, partial, images, texts, documents>>

\* fetch_images: the whole manifest, whose canvases without an image are
\* skipped; the limit counts the images.
Manifest ==
  /\ stage = "listing" /\ order.source \in {"iiif", "gallica"} /\ Answered("list")
  /\ \E s \in InOrder({i \in DOMAIN served : HasImage(Numbered(i))}) : found' = Limited(s)
  /\ IF found' = <<>> THEN End("refused") ELSE stage' = "fetching" /\ request' = NoRequest
  /\ UNCHANGED <<order, served, next, partial, images, texts, documents>>

\* _paginate: page after page; a next page on another host is not followed.
PartsPage(nextHost) ==
  LET last == IF next * PerPage < Len(served) THEN next * PerPage ELSE Len(served)
  IN  /\ stage = "listing" /\ order.source = "escriptorium" /\ Answered("list")
      /\ \E s \in InOrder({i \in ((next - 1) * PerPage + 1)..last : HasKey(Numbered(i))}) :
           found' = found \o s
      /\ IF last < Len(served) /\ nextHost = "home"
           THEN /\ next' = next + 1
                /\ Send("list", "home", TRUE)
                /\ UNCHANGED stage
           ELSE /\ next' = 1
                /\ request' = NoRequest
                /\ stage' = "transcribing"
      /\ UNCHANGED <<order, served, partial, images, texts, documents>>

\* The texts of every part are fetched, before the limit applies.
AskTranscription ==
  /\ stage = "transcribing" /\ next <= Len(found) /\ request = NoRequest
  /\ Send("transcription", "home", TRUE)
  /\ UNCHANGED <<order, served, found, stage, next, partial, images, texts, documents>>

Transcription ==
  /\ stage = "transcribing" /\ Answered("transcription")
  /\ next' = next + 1 /\ request' = NoRequest
  /\ UNCHANGED <<order, served, found, stage, partial, images, texts, documents>>

PartsLocated ==
  /\ stage = "transcribing" /\ next > Len(found)
  /\ found' = Limited(found)
  /\ stage' = "fetching" /\ next' = 1
  /\ UNCHANGED <<order, served, request, partial, images, texts, documents>>

-----------------------------------------------------------------------------
(* The items found are fetched, one after the other.                       *)

\* Mutation: the place among the images stands for the view.
PlaceOf(item) == next

\* vue_number: the view is read in the address, else it is the place.
VueOf(item) == IF item.tells THEN item.of ELSE next

DocId(item) ==
  CASE order.source = "gallica"      -> VueOf(item)
    [] order.source = "escriptorium" -> item.of
    [] OTHER                         -> next

Build(item, d, text) ==
  /\ texts' = IF text = 0 THEN texts ELSE [texts EXCEPT ![d] = text]
  /\ documents' = Append(documents, [id |-> d, of |-> item.of, text |-> text # 0])
  /\ next' = next + 1

\* A part without an image is skipped.  The token goes to the base host only.
AskImage ==
  /\ stage = "fetching" /\ next <= Len(found)
  /\ IF HasImage(found[next])
       THEN /\ Send("image", found[next].image,
                    order.source = "escriptorium" /\ found[next].image = "home")
            /\ stage' = "downloading" /\ UNCHANGED next
       ELSE next' = next + 1 /\ UNCHANGED <<stage, request>>
  /\ UNCHANGED <<order, served, found, partial, images, texts, documents>>

\* download: the content goes to a .part file, which then replaces the image.
ImageStreams ==
  /\ stage = "downloading" /\ Answered("image")
  /\ partial' = DocId(found[next])
  /\ UNCHANGED <<order, served, found, stage, next, request, images, texts, documents>>

ImageReplaced ==
  /\ stage = "downloading" /\ partial # 0
  /\ images' = [images EXCEPT ![partial] = found[next].of]
  /\ partial' = 0
  /\ IF order.source = "gallica" THEN Send("ocr", "home", FALSE) ELSE request' = NoRequest
  /\ stage' = "texting"
  /\ UNCHANGED <<order, served, found, next, texts, documents>>

\* The OCR of the view; a view without OCR gives an empty text, which is also
\* what an import that does not ask for the OCR (include_ocr) has.
OcrText ==
  LET vue == VueOf(found[next])
  IN  IF vue \in DOMAIN served /\ served[vue].text = "some" THEN vue ELSE 0

TextWritten ==
  /\ stage = "texting"
  /\ \/ request.for = "ocr" /\ Build(found[next], DocId(found[next]), OcrText)
     \/ /\ request = NoRequest
        /\ Build(found[next], DocId(found[next]),
                 IF found[next].text = "some" THEN found[next].of ELSE 0)
  /\ stage' = "fetching" /\ request' = NoRequest
  /\ UNCHANGED <<order, served, found, partial, images>>

\* An address that is refused or does not resolve, a status, a size, a
\* connection.  Without its OCR a view has no text, but an address that is
\* refused ends the import; the errors of the connection are told from the
\* others by download only.
RequestFails(kind) ==
  /\ request.for # "none"
  /\ \/ /\ request.for = "ocr" /\ kind # "address"
        /\ Build(found[next], DocId(found[next]), 0)
        /\ stage' = "fetching" /\ request' = NoRequest
        /\ UNCHANGED partial
     \/ /\ request.for # "ocr" \/ kind = "address"
        /\ End(IF request.for = "image" /\ kind = "transport" THEN "error" ELSE "refused")
        /\ UNCHANGED <<next, texts, documents>>
  /\ UNCHANGED <<order, served, found, images>>

-----------------------------------------------------------------------------
(* Datasets: rows that are streamed, entries of a layout.                  *)

\* The columns are looked for in the first record.
FirstRecord(i) == \A j \in 1..(i - 1) : served[j].image = "no row"

LimitReached == order.limit # 0 /\ Len(documents) >= order.limit

\* A row is read: skipped, refused, or a page written with its text.
Row ==
  /\ stage = "reading" /\ order.source = "huggingface"
  /\ next <= Len(served) /\ ~LimitReached
  /\ LET row == Numbered(next)
         d == Len(documents) + 1
     IN  \/ /\ row.image \in {"no row", "big"}
            /\ row.image = "big" /\ FirstRecord(next) => row.text # "no column"
            /\ next' = next + 1
            /\ UNCHANGED <<stage, request, partial, images, texts, documents>>
         \/ /\ \/ row.image = "none"
               \/ row.image # "no row" /\ row.text = "no column" /\ FirstRecord(next)
            /\ End("refused")
            /\ UNCHANGED <<next, images, texts, documents>>
         \/ /\ row.image = "home" /\ (FirstRecord(next) => row.text # "no column")
            /\ images' = [images EXCEPT ![d] = row.of]
            /\ Build(row, d, IF row.text = "some" THEN row.of ELSE 0)
            /\ UNCHANGED <<stage, request, partial>>
  /\ UNCHANGED <<order, served, found>>

EntryId(i) == IF served[i].tells THEN i ELSE 1

\* snapshot_curated_layout then import_curated_corpus: all entries or none;
\* their images stay references.
Layout ==
  /\ stage = "reading" /\ order.source = "curated" /\ documents = <<>>
  /\ IF served = <<>> \/ \E i \in DOMAIN served : served[i].image = "bad"
       THEN End("refused") /\ UNCHANGED <<texts, documents, next>>
       ELSE /\ documents' = [i \in DOMAIN served |->
                              [id |-> EntryId(i), of |-> i, text |-> TRUE]]
            /\ texts' = [d \in Items |->
                  IF \E i \in DOMAIN served : EntryId(i) = d
                    THEN CHOOSE i \in DOMAIN served : EntryId(i) = d ELSE 0]
            /\ next' = Len(served) + 1
            /\ UNCHANGED <<stage, request, partial>>
  /\ UNCHANGED <<order, served, found, images>>

\* The libraries of Hugging Face: absent, or failing while they are read.
LibraryFails(outcome) ==
  /\ stage = "reading"
  /\ documents = <<>> \/ order.source = "huggingface"
  /\ \/ outcome = IF order.source = "curated" THEN "refused" ELSE "error"
     \/ outcome = "unavailable" /\ next = 1
  /\ End(outcome)
  /\ UNCHANGED <<order, served, found, next, images, texts, documents>>

-----------------------------------------------------------------------------
\* CorpusSpec: a corpus without documents is refused by the importers, and two
\* documents of one name by the specification, whose error no route expects.
UniqueIds == \A i, j \in DOMAIN documents : documents[i].id = documents[j].id => i = j

Specify ==
  /\ \/ stage = "fetching" /\ next > Len(found)
     \/ stage = "reading" /\ (next > Len(served) \/ LimitReached)
  /\ End(IF documents = <<>> THEN "refused" ELSE IF UniqueIds THEN "corpus" ELSE "error")
  /\ UNCHANGED <<order, served, found, next, images, texts, documents>>

AskNext == \E source \in Sources, limit \in 0..(MaxItems - 1), n \in 0..MaxItems :
  \E items \in [1..n -> ServedBy(source)] : Ask(source, limit, items)

ImportNext ==
  \/ AskNext
  \/ \E host \in Hosts : Redirected(host) \/ PartsPage(host)
  \/ Manifest \/ AskTranscription \/ Transcription \/ PartsLocated
  \/ AskImage \/ ImageStreams \/ ImageReplaced \/ TextWritten
  \/ \E kind \in {"address", "status", "transport"} : RequestFails(kind)
  \/ Row \/ Layout \/ \E outcome \in Outcomes : LibraryFails(outcome)
  \/ Specify

ImportSpec == ImportInit /\ [][ImportNext]_importVars

-----------------------------------------------------------------------------
Item == [image : {"none", "home", "away", "no row", "big", "bad"}, tells : BOOLEAN,
         text : {"none", "some", "no column"}]

ImportTypeOK ==
  /\ order \in [source : Sources \union {"none"}, limit : 0..MaxItems]
  /\ served \in Seq(Item) /\ Len(served) <= MaxItems
  /\ stage \in Outcomes \union {"idle", "listing", "transcribing", "fetching",
                               "downloading", "texting", "reading"}
  /\ next \in 1..(MaxItems + 1)
  /\ request \in [for : {"none", "list", "transcription", "image", "ocr"},
                  hops : 0..MaxRedirects, origin : Hosts, host : Hosts, auth : BOOLEAN]
  /\ partial \in 0..MaxItems
  /\ images \in [Items -> 0..MaxItems]
  /\ texts \in [Items -> 0..MaxItems]
  /\ documents \in Seq([id : Items, of : Items, text : BOOLEAN])

\* The item d came from says itself whose text is its own: all do but the views
\* of Gallica whose address does not tell their number.
TellsItsText(i) == order.source = "gallica" => served[i].tells

\* The token of an import is sent to the host it was given for, and no other,
\* wherever the pages, the images and the redirections lead.
TokenStaysHome == request.for # "none" /\ HopHeaders => request.host = "home"

\* An import that gives a corpus gives a document per item it can use, in their
\* order and within the limit, none is skipped between two, and the files of
\* each hold the image and the text of its own item, whatever was redirected,
\* skipped, empty or failed: no text slides to its neighbour.  And on the way
\* the token of the caller stayed home.
ImportIsFaithful ==
  /\ TokenStaysHome
  /\ stage = "corpus" =>
       /\ documents # <<>> /\ UniqueIds
       /\ order.limit # 0 /\ order.source # "curated" => Len(documents) <= order.limit
       /\ \A i, j \in DOMAIN documents : i < j => documents[i].of < documents[j].of
       /\ \A i \in DOMAIN documents : LET d == documents[i] IN
            /\ order.source # "curated" => images[d.id] = d.of
            /\ texts[d.id] # 0 <=> d.text
            /\ d.text /\ TellsItsText(d.of) => texts[d.id] = d.of /\ served[d.of].text = "some"
            /\ \A j \in 1..d.of :
                 \/ \E k \in DOMAIN documents : documents[k].of = j
                 \/ served[j].image \in {"none", "no row", "big"}
                 \/ order.source = "escriptorium" /\ ~served[j].tells
=============================================================================
