------------------------------ MODULE ListingForm ------------------------------
(***************************************************************************)
(* The forms of the web client that create and edit a listing              *)
(* (listings/create/page.tsx, listings/[id]/edit/page.tsx), with what      *)
(* listing-service stores of them: the pictures in their order, each with  *)
(* its thumbnail, and the place, which is chosen in three steps.           *)
(*                                                                         *)
(* Two things come back to a form in their own time: FileReaders, which    *)
(* show a picture once it is read, and answers of the place search.        *)
(***************************************************************************)
EXTENDS Naturals, Sequences, FiniteSets, SequencesExt

CONSTANTS Picture,     \* pictures a user can choose
          Plain,       \* those no thumbnail is made of (other formats, failures)
          Country,
          MaxShown,    \* pictures in a form (a bound)
          MaxEdits     \* times the listing is edited (a bound)

VARIABLES
  form,       \* the form that is open: "create", "edit", or "left" once sent
  files,      \* create: imageFiles
  shown,      \* create: imagePreviews; edit: imageSlots
  reading,    \* pictures whose FileReader has not finished, in order of choice
  place,      \* [country, city, quarter], as selected
  hints,      \* [city, quarter]: the suggestions shown under the two fields
  searches,   \* searches that are not answered
  stored,     \* the rows of listing_images by sort order: [pic, thumb]
  location,   \* the listing's location
  edits,
  oddities    \* history of the open form: what makes it show something else

pictureVars == <<files, shown, reading>>
placeVars == <<place, hints, searches>>
storedVars == <<stored, location>>
formVars == <<form, pictureVars, placeVars, storedVars, edits, oddities>>

\* A city belongs to a country; a quarter is named after the city it is in.
City == Country \X {"north", "south"}
Nowhere == <<>>
NoPlace == [country |-> Nowhere, city |-> Nowhere, quarter |-> Nowhere]
NoHints == [city |-> {}, quarter |-> {}]

FormInit ==
  /\ form = "create"
  /\ files = <<>> /\ shown = <<>> /\ reading = <<>>
  /\ place = NoPlace /\ hints = NoHints /\ searches = {}
  /\ stored = <<>> /\ location = NoPlace
  /\ edits = 0 /\ oddities = {}

Open == form \in {"create", "edit"}

----------------------------------------------------------------------------
(* Pictures.                                                               *)

\* Of the rows a listing has; the edit form also shows those as slots.
PicturesOf(rows) == [i \in DOMAIN rows |-> rows[i].pic]

Known == ToSet(shown) \cup ToSet(reading) \cup ToSet(PicturesOf(stored))

\* handleImageSelect: the create form takes the files at once.
SelectImages(chosen) ==
  /\ Open /\ Len(shown) + Len(reading) + Len(chosen) <= MaxShown
  /\ ToSet(chosen) \cap Known = {}
  /\ files' = IF form = "create" THEN files \o chosen ELSE files
  /\ reading' = reading \o chosen
  /\ UNCHANGED <<form, shown, placeVars, storedVars, edits, oddities>>

\* reader.onload, in any order.
ReaderLoaded(i) ==
  /\ Open /\ i \in DOMAIN reading
  /\ shown' = Append(shown, reading[i])
  /\ reading' = RemoveAt(reading, i)
  /\ oddities' = IF i = 1 THEN oddities ELSE oddities \cup {"overtaken"}
  /\ UNCHANGED <<form, files, placeVars, storedVars, edits>>

\* Faulty variant, in no specification: removes the preview, not the file.
RemoveShownOnly(i) ==
  /\ Open /\ i \in DOMAIN shown
  /\ shown' = RemoveAt(shown, i)
  /\ UNCHANGED <<form, files, reading, placeVars, storedVars, edits, oddities>>

\* removeImage, by position in both lists.
RemoveImage(i) ==
  /\ Open /\ i \in DOMAIN shown
  /\ shown' = RemoveAt(shown, i)
  /\ files' = IF form = "create" THEN RemoveAt(files, i) ELSE files
  /\ UNCHANGED <<form, reading, placeVars, storedVars, edits, oddities>>

\* handleDrop: what was at one position is put at another.
Moved(s, from, to) == InsertAt(RemoveAt(s, from), to, s[from])

DropImage(from, to) ==
  /\ Open /\ from \in DOMAIN shown /\ to \in DOMAIN shown \ {from}
  /\ shown' = Moved(shown, from, to)
  /\ files' = IF form = "create" THEN Moved(files, from, to) ELSE files
  /\ UNCHANGED <<form, reading, placeVars, storedVars, edits, oddities>>

----------------------------------------------------------------------------
(* The place: country, then city, then neighbourhood.                      *)

\* The fields a form has, from what is selected so far.
CountryField == place.country = Nowhere
CityField == ~CountryField /\ place.city = Nowhere
QuarterField == ~CountryField /\ place.city # Nowhere /\ place.quarter = Nowhere

\* Faulty variant, in no specification: keeps the city of the other country.
KeepCity(c) ==
  /\ Open /\ CountryField
  /\ place' = [place EXCEPT !.country = <<c>>]
  /\ hints' = NoHints
  /\ UNCHANGED <<form, pictureVars, searches, storedVars, edits, oddities>>

\* handleSelectCountry: everything below is reset.
SelectCountry(c) ==
  /\ Open /\ CountryField
  /\ place' = [NoPlace EXCEPT !.country = <<c>>]
  /\ hints' = NoHints
  /\ UNCHANGED <<form, pictureVars, searches, storedVars, edits, oddities>>

\* handleCitySearch and handleNeighbourhoodSearch: a request, after a pause,
\* for the country and the city selected when the text was typed.
SearchCity ==
  /\ Open /\ CityField
  /\ \/ searches' = searches \cup {[field |-> "city", in |-> place.country]} /\ hints' = hints
     \/ searches' = searches /\ hints' = [hints EXCEPT !.city = {}]
  /\ UNCHANGED <<form, pictureVars, place, storedVars, edits, oddities>>

SearchQuarter ==
  /\ Open /\ QuarterField
  /\ \/ searches' = searches \cup {[field |-> "quarter", in |-> place.city]} /\ hints' = hints
     \/ searches' = searches /\ hints' = [hints EXCEPT !.quarter = {}]
  /\ UNCHANGED <<form, pictureVars, place, storedVars, edits, oddities>>

\* The answer is shown whatever has been selected since; a failure shows none.
Answered(search) ==
  /\ Open /\ search \in searches
  /\ searches' = searches \ {search}
  /\ LET found == IF search.field = "city" THEN {c \in City : c[1] = search.in[1]}
                  ELSE {search.in}
         now == IF search.field = "city" THEN place.country ELSE place.city
     IN /\ hints' \in {[hints EXCEPT ![search.field] = found],
                       [hints EXCEPT ![search.field] = {}]}
        /\ oddities' = IF now \in {search.in, Nowhere} THEN oddities
                       ELSE oddities \cup {"late"}
  /\ UNCHANGED <<form, pictureVars, place, storedVars, edits>>

\* handleSelectCity.
SelectCity(c) ==
  /\ Open /\ CityField /\ c \in hints.city
  /\ place' = [place EXCEPT !.city = c, !.quarter = Nowhere]
  /\ hints' = NoHints
  /\ UNCHANGED <<form, pictureVars, searches, storedVars, edits, oddities>>

\* handleSelectNeighbourhood.
SelectQuarter(c) ==
  /\ Open /\ QuarterField /\ c \in hints.quarter
  /\ place' = [place EXCEPT !.quarter = c]
  /\ hints' = [hints EXCEPT !.quarter = {}]
  /\ UNCHANGED <<form, pictureVars, searches, storedVars, edits, oddities>>

\* The three buttons "change".
ChangeCountry ==
  /\ Open /\ ~CountryField
  /\ place' = NoPlace
  /\ UNCHANGED <<form, pictureVars, hints, searches, storedVars, edits, oddities>>

ChangeCity ==
  /\ Open /\ ~CountryField /\ place.city # Nowhere
  /\ place' = [place EXCEPT !.city = Nowhere, !.quarter = Nowhere]
  /\ UNCHANGED <<form, pictureVars, hints, searches, storedVars, edits, oddities>>

ChangeQuarter ==
  /\ Open /\ ~CountryField /\ place.city # Nowhere /\ place.quarter # Nowhere
  /\ place' = [place EXCEPT !.quarter = Nowhere]
  /\ UNCHANGED <<form, pictureVars, hints, searches, storedVars, edits, oddities>>

----------------------------------------------------------------------------
(* handleSubmit, up to the rows it leads to.                               *)

\* Which pictures have an own thumbnail.
Thumb(p) == IF p \in Plain THEN {} ELSE {p}

\* create: the thumbnails there are, in one list, matched by position: row i
\* gets the i-th of them.
ThumbsUpTo(j) == Cardinality({k \in 1..j : files[k] \notin Plain})
CreatedRows ==
  [i \in DOMAIN files |->
     [pic |-> files[i],
      thumb |-> {files[j] : j \in {k \in DOMAIN files : /\ files[k] \notin Plain
                                                       /\ ThumbsUpTo(k) = i}}]]

\* edit: pictures that were there before are sent without a thumbnail, and
\* the service replaces every row.
EditedRows ==
  LET kept == {stored[i].pic : i \in DOMAIN stored}
  IN [i \in DOMAIN shown |->
       [pic |-> shown[i], thumb |-> IF shown[i] \in kept THEN {} ELSE Thumb(shown[i])]]

\* A country and a city are required. A failure leaves the form as it is.
Submit ==
  /\ Open /\ place.country # Nowhere /\ place.city # Nowhere
  /\ stored' = IF form = "create" THEN CreatedRows ELSE EditedRows
  /\ location' = place
  /\ form' = "left"
  /\ UNCHANGED <<pictureVars, placeVars, edits, oddities>>

\* loadData of the edit form. The country is looked up by its name, which is
\* not found in another language, or found in the name of another country.
Load ==
  /\ form = "left" /\ edits < MaxEdits
  /\ form' = "edit" /\ edits' = edits + 1
  /\ shown' = PicturesOf(stored) /\ files' = <<>> /\ reading' = <<>>
  /\ hints' = NoHints /\ searches' = {}
  /\ \E c \in {<<x>> : x \in Country} \cup {Nowhere} :
       /\ place' = [location EXCEPT !.country = c]
       /\ oddities' = IF c \in {location.country, Nowhere} THEN oddities \ {"overtaken"}
                      ELSE (oddities \ {"overtaken"}) \cup {"late"}
  /\ UNCHANGED storedVars

FormNext ==
  \/ \E p \in Picture : SelectImages(<<p>>)
  \/ \E p, q \in Picture : p # q /\ SelectImages(<<p, q>>)
  \/ \E i \in 1..MaxShown : ReaderLoaded(i) \/ RemoveImage(i)
  \/ \E from, to \in 1..MaxShown : DropImage(from, to)
  \/ \E c \in Country : SelectCountry(c)
  \/ SearchCity \/ SearchQuarter
  \/ \E search \in searches : Answered(search)
  \/ \E c \in City : SelectCity(c) \/ SelectQuarter(c)
  \/ ChangeCountry \/ ChangeCity \/ ChangeQuarter
  \/ Submit \/ Load

FormSpec == FormInit /\ [][FormNext]_formVars

----------------------------------------------------------------------------
(* Properties.                                                             *)

\* The listing gets the pictures its form showed, in that order, through any
\* sequence of choosing, removing and dragging while pictures are still read;
\* and a thumbnail always shows the picture it stands for. The first only as
\* long as no FileReader of the create form overtook another: then positions
\* in the two lists of that form differ, and the wrong file is removed. The
\* second unless a picture without a thumbnail was among the first uploaded.
PicturesAsShown ==
  form = "left" =>
    /\ "overtaken" \in oddities \/ IsPrefix(shown, PicturesOf(stored))
    /\ \A i \in DOMAIN stored :
         \/ stored[i].thumb \subseteq {stored[i].pic}
         \/ \E j \in 1..i : stored[j].pic \in Plain

\* The place of a listing is one place, a quarter of a city of the country,
\* whatever was changed on the way; unless the answer to an old search came
\* late, or the country was found by part of its name.
PlaceAsChosen ==
  form = "left" /\ "late" \notin oddities =>
    /\ location.city[1] = location.country[1]
    /\ location.quarter \in {Nowhere, location.city}

=============================================================================
