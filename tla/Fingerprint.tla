------------------------------ MODULE Fingerprint ------------------------------
(***************************************************************************)
(* normalise/: which listings are one role.  Boards render the employer,   *)
(* the title and the location of a role in their own ways; the fingerprint *)
(* must be the same for all of them and differ between roles.              *)
(*                                                                         *)
(* A text is a sequence of tokens.  A token is a word up to case and       *)
(* accents (the code folds both before it compares), a dotted acronym, a   *)
(* number, a gender marker or a mark ("-", "|", "/": dropped as            *)
(* punctuation in the end).  A location is a sequence of segments.  The    *)
(* digest is taken to be as good as what it digests.                       *)
(***************************************************************************)
EXTENDS Integers, Sequences, FiniteSets

CONSTANTS
  Names,     \* employers: a name as the employer writes it
  Titles,    \* the job as the employer calls it
  Places,    \* [country, cities]: where it is; country NoCountry: nowhere stated
  Forms,     \* the legal forms a board may append to a name
  Glosses,   \* the name in Arabic, as a board may add it
  Tags,      \* the requisition ids and numbers a board may append to a title
  Noise,     \* what may follow the country: a postcode
  LEGAL_SUFFIXES, ARABIC, MARKS,
  NUMBERS,   \* of three digits or more
  Joined,    \* of a dotted acronym: as one word
  NAME_TO_ISO2, ARABIC_COUNTRY_ALIASES,   \* from segments to codes
  NoCountry

GENDER_MARKER == "(m/f/d)"
REMOTE_TOKEN  == "REMOTE"
UNKNOWN_TOKEN == "UNKNOWN"

Acronyms == DOMAIN Joined

KEYWORDS == {"req", "requisition", "ref", "id"}

In(text, S) == \E i \in DOMAIN text : text[i] \in S
Latin(w) == w \notin ARABIC \cup MARKS \cup NUMBERS
Known(s) == s \in DOMAIN NAME_TO_ISO2 \cup DOMAIN ARABIC_COUNTRY_ALIASES

\* A country's name stands for it.
CountryNames(c) == {n \in DOMAIN NAME_TO_ISO2 : NAME_TO_ISO2[n] = c}
                     \cup {n \in DOMAIN ARABIC_COUNTRY_ALIASES : ARABIC_COUNTRY_ALIASES[n] = c}

\* A tag is a number, a requisition id, or the one before the other.
TagNumbers == {<<>>} \cup {<<x>> : x \in NUMBERS}
RequisitionIds(x) == {<<>>} \cup {<<k, x>> : k \in KEYWORDS}
                       \cup {<<k, "id", x>> : k \in {"req", "requisition", "job"}}

ASSUME VocabularyAssumption ==
  /\ {"-", "|"} \subseteq MARKS
  /\ ARABIC \cap (MARKS \cup NUMBERS) = {} /\ MARKS \cap (NUMBERS \cup KEYWORDS) = {}
  /\ NUMBERS \cap (KEYWORDS \cup {"job"}) = {} /\ GENDER_MARKER \notin NUMBERS
  /\ \A w \in Acronyms : Latin(w) /\ Joined[w] \in STRING /\ Joined[w] \notin MARKS
  /\ Names \cup Forms \cup Titles \cup Tags \subseteq Seq(STRING) /\ Glosses \subseteq Seq(ARABIC)

\* A name has a word to it; a legal form is one the code knows.
ASSUME EmployersAssumption ==
  /\ \A n \in Names : \E i \in DOMAIN n : n[i] \notin MARKS
  /\ \A f \in Forms : \A i \in DOMAIN f :
       Latin(f[i]) /\ (IF f[i] \in Acronyms THEN Joined[f[i]] ELSE f[i]) \in LEGAL_SUFFIXES

ASSUME TitlesAssumption ==
  /\ \A t \in Titles : t # <<>>
  /\ \A t \in Titles \cup Tags : ~In(t, {GENDER_MARKER})
  /\ \A tag \in Tags \ {<<>>} :
       /\ tag[Len(tag)] \notin MARKS
       /\ \E number \in TagNumbers, id \in RequisitionIds(tag[Len(tag)]) : tag = number \o id

\* A postcode is no country, and a city that is called like its own country
\* ("Singapore") is not followed by one called like another.
ASSUME PlacesAssumption ==
  /\ \A n \in DOMAIN NAME_TO_ISO2 : NAME_TO_ISO2[n] \notin {NoCountry, REMOTE_TOKEN, UNKNOWN_TOKEN}
  /\ \A n \in DOMAIN ARABIC_COUNTRY_ALIASES :
       /\ ARABIC_COUNTRY_ALIASES[n] \notin {NoCountry, REMOTE_TOKEN, UNKNOWN_TOKEN}
       /\ n \in DOMAIN NAME_TO_ISO2 => NAME_TO_ISO2[n] = ARABIC_COUNTRY_ALIASES[n]
  /\ Noise \subseteq Seq(STRING) /\ \A z \in Noise : \A i \in DOMAIN z : ~Known(z[i])
  /\ \A p \in Places :
       /\ p.cities \in Seq(STRING)
       /\ \A i, j \in DOMAIN p.cities :
            i < j /\ p.cities[i] \in CountryNames(p.country) /\ Known(p.cities[j])
              => p.cities[j] \in CountryNames(p.country)

-------------------------------------------------------------------------------
\* What boards send.

\* The bare name with its form and, if it is Latin, with the Arabic name behind a
\* mark, before one, or run together with it.
Renderings(n, f, g) ==
  {n \o f} \cup IF In(n, ARABIC) THEN {}
               ELSE {n \o f \o <<"-">> \o g, g \o <<"|">> \o n \o f, n \o g \o f}
EmployerTexts(n) == UNION {Renderings(n, f, g) : f \in Forms, g \in Glosses}

\* With a tag, and a gender marker before it, after it or not at all.
TitleTexts(t) ==
  UNION {{t \o tag, t \o <<GENDER_MARKER>> \o tag, t \o tag \o <<GENDER_MARKER>>} : tag \in Tags}

LocationTexts(p) ==
  UNION {{p.cities \o z} \cup {p.cities \o <<n>> \o z : n \in CountryNames(p.country)} : z \in Noise}

ListingsOf(n, t, p) ==
  [name : {n}, title : {t}, place : {p}, is_remote : BOOLEAN,
   company : EmployerTexts(n), heading : TitleTexts(t), location : LocationTexts(p)]
Listings == UNION {ListingsOf(n, t, p) : n \in Names, t \in Titles, p \in Places}

-------------------------------------------------------------------------------
\* employer.py

\* The tokens of the text at these positions.
At(text, I) ==
  [k \in 1..Cardinality(I) |-> text[CHOOSE i \in I : Cardinality({h \in I : h < i}) = k - 1]]
Without(text, S) == At(text, {i \in DOMAIN text : text[i] \notin S})

\* The part of the text, between marks, that position i is in.
Part(text, i) ==
  {j \in DOMAIN text : /\ text[j] \notin MARKS
                       /\ \A h \in DOMAIN text : (i < h /\ h < j) \/ (j < h /\ h < i) => text[h] \notin MARKS}

\* The positions in parts that are Latin and nothing else.
LatinParts(text) ==
  {i \in DOMAIN text : /\ text[i] \notin MARKS
                       /\ \E j \in Part(text, i) : Latin(text[j])
                       /\ \A j \in Part(text, i) : text[j] \notin ARABIC}

\* For bilingual names: those parts, or if there are none the whole without its
\* Arabic words.
_prefer_latin(text) ==
  IF ~(In(text, ARABIC) /\ \E i \in DOMAIN text : Latin(text[i])) THEN text
  ELSE IF LatinParts(text) # {} THEN At(text, LatinParts(text))
  ELSE Without(text, ARABIC)

\* The words of a text: a dotted acronym is joined before its dots are lost as
\* punctuation.
AcronymApart(w) == w     \* Mutant: punctuation is stripped first, and "s a e" is no form.
AcronymWord(w) == IF w \in Acronyms THEN Joined[w] ELSE w

Words(text) ==
  LET kept == Without(text, MARKS) IN [i \in DOMAIN kept |-> AcronymWord(kept[i])]

\* Legal forms go from the tail, as many as there are.
WithoutForms(words) ==
  LET last == {i \in DOMAIN words : \A j \in DOMAIN words : j >= i => words[j] \in LEGAL_SUFFIXES}
  IN  SubSeq(words, 1, Len(words) - Cardinality(last))

normalise_employer(text) == WithoutForms(Words(_prefer_latin(text)))

-------------------------------------------------------------------------------
\* title.py.  The marker leaves a blank behind, and the two patterns that follow
\* are anchored at the very end of the text.

WithoutMarkers(text) ==
  [words |-> Without(text, {GENDER_MARKER}),
   blank |-> text # <<>> /\ text[Len(text)] = GENDER_MARKER]

\* A keyword and one token after it, at the end; the leftmost that fits.
REQ_IDs(words) ==
  LET n == Len(words) IN
    {i \in 1..(n - 1) : words[n] \notin MARKS /\
       \/ i = n - 1 /\ words[i] \in KEYWORDS
       \/ i = n - 2 /\ words[i] \in {"req", "requisition", "job"} /\ words[i + 1] = "id"}

WithoutReqId(t) ==
  IF t.blank \/ REQ_IDs(t.words) = {} THEN t
  ELSE [t EXCEPT !.words = SubSeq(@, 1, (CHOOSE i \in REQ_IDs(t.words) :
                                            \A j \in REQ_IDs(t.words) : i <= j) - 1)]

\* A number of three digits or more that something precedes.
WithoutNumber(t) ==
  IF ~t.blank /\ Len(t.words) > 1 /\ t.words[Len(t.words)] \in NUMBERS
  THEN [t EXCEPT !.words = SubSeq(@, 1, Len(@) - 1)] ELSE t

WithoutNumberThenReqId(t) == WithoutReqId(WithoutNumber(t))   \* Mutant.
WithoutTags(t) == WithoutNumber(WithoutReqId(t))

normalise_title(text) == Without(WithoutTags(WithoutMarkers(text)).words, MARKS)

-------------------------------------------------------------------------------
\* country.py and fingerprint.py

CodeOf(s) == IF s \in DOMAIN NAME_TO_ISO2 THEN NAME_TO_ISO2[s] ELSE ARABIC_COUNTRY_ALIASES[s]

\* Backwards from the last segment, past what is no country.
FirstKnown(segments) ==       \* Mutant: forwards.
  {i \in DOMAIN segments : Known(segments[i]) /\ \A j \in DOMAIN segments : j < i => ~Known(segments[j])}
LastKnown(segments) ==
  {i \in DOMAIN segments : Known(segments[i]) /\ \A j \in DOMAIN segments : j > i => ~Known(segments[j])}

parse_country(segments) ==
  IF LastKnown(segments) = {} THEN NoCountry
  ELSE CodeOf(segments[CHOOSE i \in LastKnown(segments) : TRUE])

Location(segments, is_remote) ==
  IF is_remote THEN REMOTE_TOKEN
  ELSE IF parse_country(segments) = NoCountry THEN UNKNOWN_TOKEN ELSE parse_country(segments)

PayloadUnseparated(employer, title, location) == employer \o title \o <<location>>  \* Mutant.
Payload(employer, title, location) == employer \o <<"|">> \o title \o <<"|", location>>

FingerprintParts(employer, title, location) ==
  [employer |-> employer, title |-> title, location |-> location,
   digest |-> Payload(employer, title, location)]

build_fingerprint(l) ==
  FingerprintParts(normalise_employer(l.company), normalise_title(l.heading),
                   Location(l.location, l.is_remote))

-------------------------------------------------------------------------------
VARIABLES listing,   \* the payload a board sent, and the role it is of
          parts      \* its fingerprint

Unbuilt == FingerprintParts(<<>>, <<>>, NoCountry)

Init == listing \in Listings /\ parts = Unbuilt

Build == /\ parts = Unbuilt
         /\ parts' = build_fingerprint(listing)
         /\ UNCHANGED listing

Spec == Init /\ [][Build]_<<listing, parts>>

-------------------------------------------------------------------------------
\* Where the rules cannot tell the role, and the properties promise nothing.

\* The employer is called what a legal form is called ("KK").
CalledLikeAForm(n) == Words(n)[Len(Words(n))] \in LEGAL_SUFFIXES

\* An Arabic name with a Latin form: only the form is taken for the name.
FormForName(n, text) == In(n, ARABIC) /\ \E i \in DOMAIN text : Latin(text[i])

\* A name with a mark in it, run together with its Arabic form: the part of the
\* name next to the Arabic is lost ("Coca-Cola" of "Coca" and "Cola ...").
TornByArabic(text) ==
  In(text, MARKS) /\ \E i \in DOMAIN text : text[i] \in ARABIC /\ \E j \in Part(text, i) : Latin(text[j])

\* A part of the name is a number and nothing else: in a bilingual text it is lost,
\* and if there is no other part the Arabic name stays ("Studio - 737").
LostNumber(n, text) ==
  /\ In(text, ARABIC) /\ ~In(n, ARABIC)
  /\ \E i \in DOMAIN text : text[i] \in NUMBERS /\ \A j \in Part(text, i) : ~Latin(text[j])

Unsure(n, text) ==
  CalledLikeAForm(n) \/ FormForName(n, text) \/ TornByArabic(text) \/ LostNumber(n, text)

\* The title itself ends like a tag ("ID Verification", "Pilot 737"), or as one
\* begins ("Dream Job", and then "ID 9981").
CalledLikeATag(t) == In(t, KEYWORDS \cup NUMBERS) \/ t[Len(t)] = "job"

\* A gender marker behind the tag.
MarkerLast(text) ==
  text[Len(text)] = GENDER_MARKER /\ In(text, KEYWORDS \cup NUMBERS)

-------------------------------------------------------------------------------
\* Properties.

Built == parts # Unbuilt
Plain(t) == Without(t, MARKS)

\* However a board writes the employer - legal form, dotted or not or several of
\* them, Arabic name before, behind or between - the key is the name, whole, with
\* its descriptors (FR-11, design 7.3).
EmployerKeyIsName ==
  Built /\ ~Unsure(listing.name, listing.company) => parts.employer = Words(listing.name)

\* Gender markers and requisition ids go, in every combination; every word of the
\* title, seniority and discipline included, stays (FR-12).
TitleKeyIsTitle ==
  Built /\ ~CalledLikeATag(listing.title) /\ ~MarkerLast(listing.heading)
    => parts.title = Plain(listing.title)

\* A location that names its country resolves to it, whatever surrounds it; one of
\* which no segment reads as a country resolves to none; a remote role has no
\* country (parse_country: "A wrong code merges unrelated postings across
\* countries").  Nothing is said of a location without its country in which a
\* state's or a city's name reads as one (CA): the code does guess there.
CountryNeverGuessed ==
  Built =>
    IF listing.is_remote THEN parts.location = REMOTE_TOKEN
    ELSE IF In(listing.location, CountryNames(listing.place.country))
         THEN parts.location = listing.place.country
         ELSE (\A i \in DOMAIN listing.location : ~Known(listing.location[i]))
                => parts.location = UNKNOWN_TOKEN

\* No rendering of a role has the fingerprint of another role: a posting shown
\* twice is a nuisance, one concealed behind a false merge is lost (design 7.3).
KeyOfName == [n \in Names |-> normalise_employer(n)]
KeyOfTitle == [t \in Titles |-> normalise_title(t)]
RolesStayApart ==
  Built /\ ~Unsure(listing.name, listing.company) /\ ~CalledLikeATag(listing.title) =>
    \A n \in {m \in Names : ~Unsure(m, m)}, t \in {u \in Titles : ~CalledLikeATag(u)} :
      Payload(KeyOfName[n], KeyOfTitle[t], parts.location) = parts.digest
        => Words(n) = Words(listing.name) /\ Plain(t) = Plain(listing.title)
===============================================================================
