--------------------------- MODULE ContactWatcher ---------------------------
(***************************************************************************)
(* libtelephonyservice/contactwatcher.cpp: the object behind a name on the *)
(* screen.  It searches the address book for an identifier, searches anew  *)
(* when the identifier, the fields or the address book change, and shows   *)
(* what the last search found.                                             *)
(*                                                                         *)
(* The address book and its engine are external.  It answers a search with *)
(* the contacts it holds at that moment, and its answers and its signals   *)
(* arrive in the order it sent them; a cancelled search is not answered.   *)
(* The fields of an account are abstracted to how a result is chosen:      *)
(* "tel" compares its numbers with the identifier, "other" takes the       *)
(* first.  Avatar and details go with the contact id.                      *)
(***************************************************************************)
EXTENDS Lists, SequencesExt

CONSTANTS
    Identifiers,    \* the identifiers the program sets, as it spells them
    Normalized,     \* normalizeIdentifier() of each
    Hidden,         \* the identifier of a private or unknown number
    Empty,          \* the empty identifier
    Cards,          \* the contacts of the address book
    NoCard,         \* no contact, and the empty name
    HiddenName,     \* "Private Number", "Unknown Number"
    MaxTurns        \* bound: changes of the address book, the identifier and
                    \* the fields, together

VARIABLES
    mIdentifier, mAddressableFields, mCompleted,
    mContactId, mAlias,
    mRequest,       \* the search: what for, and whether the book has answered
    book,           \* the address book: identifier and name of each contact
    news,           \* its answers and signals on the way
    turns           \* how many of these there were

watcherVars == <<mIdentifier, mAddressableFields, mCompleted, mContactId, mAlias,
                 mRequest, book, news, turns>>

Keyed == {Normalized[i] : i \in Identifiers}
Names == {1, 2}
NoSearch == [for |-> Empty, answered |-> FALSE]
Absent == [id |-> Empty, name |-> 1]

ASSUME WatcherAssumption ==
    /\ Hidden \notin Keyed /\ Empty \notin Keyed /\ Hidden # Empty
    /\ NoCard \notin Cards

\* The type of the state (contactwatcher.h): the address book answers the search
\* that runs, and no other, once.
WatcherTypeOK ==
    /\ mIdentifier \in Keyed \cup {Hidden, Empty}
    /\ mAddressableFields \in {"none", "tel", "other"} /\ mCompleted \in BOOLEAN
    /\ mContactId \in Cards \cup {NoCard}
    /\ mAlias \in (Cards \X Names) \cup {NoCard, HiddenName}
    /\ mRequest \in [for : Keyed \cup {Empty}, answered : BOOLEAN]
    /\ \A c \in Cards : book[c].id \in Keyed \cup {Empty} /\ book[c].name \in Names
    /\ (mRequest.answered <=> \E i \in 1 .. Len(news) : news[i].kind = "results")

Turn == turns < MaxTurns /\ turns' = turns + 1

Interactive(id) == id \notin {Hidden, Empty}

\* startSearching(): nothing while the component is not ready; otherwise the
\* search that runs is cancelled and a new one starts.
startSearching(id, fields, completed, heard) ==
    IF completed /\ Interactive(id) /\ fields # "none"
    THEN /\ mRequest' = [for |-> id, answered |-> FALSE]
         /\ news' = Keep(heard, {m \in ToSet(heard) : m.kind # "results"})
    ELSE mRequest' = mRequest /\ news' = heard

Search(heard) == startSearching(mIdentifier, mAddressableFields, mCompleted, heard)

Shows(card, name) == mContactId' = card /\ mAlias' = name
Clear == Shows(NoCard, NoCard)

updateAlias(id) ==
    mAlias' = CASE id = Empty -> NoCard [] id = Hidden -> HiddenName [] OTHER -> mAlias

setIdentifier(raw) ==
    LET id == IF Interactive(raw) THEN Normalized[raw] ELSE raw
    IN  /\ Turn /\ mIdentifier # raw
        /\ mIdentifier' = id
        /\ updateAlias(id)
        /\ IF Interactive(id)
           THEN /\ startSearching(id, mAddressableFields, mCompleted, news)
                /\ UNCHANGED mContactId
           ELSE mContactId' = NoCard /\ UNCHANGED <<mRequest, news>>
        /\ UNCHANGED <<mAddressableFields, mCompleted, book>>

setAddressableFields(fields) ==
    /\ Turn
    /\ mAddressableFields' = fields
    /\ startSearching(mIdentifier, fields, mCompleted, news)
    /\ UNCHANGED <<mIdentifier, mCompleted, mContactId, mAlias, book>>

componentComplete ==
    /\ ~mCompleted
    /\ mCompleted' = TRUE
    /\ updateAlias(mIdentifier)
    /\ startSearching(mIdentifier, mAddressableFields, TRUE, news)
    /\ UNCHANGED <<mIdentifier, mAddressableFields, mContactId, book, turns>>

onContactsAdded ==
    /\ IF mContactId # NoCard \/ mIdentifier = Empty
       THEN mRequest' = mRequest /\ news' = Tail(news)
       ELSE Search(Tail(news))
    /\ UNCHANGED <<mContactId, mAlias>>

\* Seeded bug: a contact that is known already is not looked up again.
onContactsChanged_Unknown == onContactsAdded

onContactsChanged == Search(Tail(news)) /\ UNCHANGED <<mContactId, mAlias>>

onContactsRemoved(card) ==
    IF card = mContactId
    THEN Clear /\ Search(Tail(news))
    ELSE mRequest' = mRequest /\ news' = Tail(news) /\ UNCHANGED <<mContactId, mAlias>>

\* The results that may be shown, of those found: the numbers are compared with
\* the identifier of now, which need not be the one that was searched for.
Showable(found) ==
    CASE mAddressableFields = "tel" -> {r \in found : r.id = mIdentifier}
      [] mAddressableFields = "other" -> found
      [] OTHER -> {}

\* onResultsAvailable()
onResultsAvailable(found) ==
    IF Showable(found) = {}
    THEN Clear
    ELSE \E r \in Showable(found) : Shows(r.card, <<r.card, r.name>>)

\* onRequestStateChanged(): the search is over; one without a result clears a
\* contact that is shown.
SearchEnds(found) ==
    /\ mRequest' = NoSearch
    /\ news' = Tail(news)
    /\ IF found # {} THEN onResultsAvailable(found)
       ELSE IF mContactId # NoCard THEN Clear
       ELSE UNCHANGED <<mContactId, mAlias>>

Hears ==
    /\ news # <<>>
    /\ LET m == Head(news)
       IN  CASE m.kind = "added" -> onContactsAdded
             [] m.kind = "changed" -> onContactsChanged
             [] m.kind = "removed" -> onContactsRemoved(m.card)
             [] m.kind = "results" -> SearchEnds(m.found)
    /\ UNCHANGED <<mIdentifier, mAddressableFields, mCompleted, book, turns>>

(***************************************************************************)
(* The address book.                                                       *)
(***************************************************************************)
News(kind, card, found) == [kind |-> kind, card |-> card, found |-> found]

Found(id) ==
    {[card |-> c, id |-> id, name |-> book[c].name] : c \in {d \in Cards : book[d].id = id}}

Answers ==
    /\ mRequest # NoSearch /\ ~mRequest.answered
    /\ mRequest' = [mRequest EXCEPT !.answered = TRUE]
    /\ news' = Append(news, News("results", NoCard, Found(mRequest.for)))
    /\ UNCHANGED <<mIdentifier, mAddressableFields, mCompleted, mContactId, mAlias,
                   book, turns>>

Edit(card, entry, kind) ==
    /\ Turn
    /\ book' = [book EXCEPT ![card] = entry]
    /\ news' = Append(news, News(kind, card, {}))
    /\ UNCHANGED <<mIdentifier, mAddressableFields, mCompleted, mContactId, mAlias,
                   mRequest>>

AddCard(card, id) == book[card] = Absent /\ Edit(card, [id |-> id, name |-> 1], "added")

ChangeCard(card, id, name) ==
    /\ book[card] \notin {Absent, [id |-> id, name |-> name]}
    /\ Edit(card, [id |-> id, name |-> name], "changed")

RemoveCard(card) == book[card] # Absent /\ Edit(card, Absent, "removed")

WatcherInit ==
    /\ mIdentifier = Empty /\ mAddressableFields = "none" /\ mCompleted = FALSE
    /\ mContactId = NoCard /\ mAlias = NoCard
    /\ mRequest = NoSearch /\ news = <<>>
    /\ book \in [Cards -> {Absent} \cup [id : Keyed, name : {1}]]
    /\ turns = 0

WatcherNext ==
    \/ \E raw \in Identifiers \cup {Hidden, Empty} : setIdentifier(raw)
    \/ \E fields \in {"none", "tel", "other"} : setAddressableFields(fields)
    \/ componentComplete
    \/ Hears
    \/ Answers
    \/ \E c \in Cards, id \in Keyed : AddCard(c, id)
    \/ \E c \in Cards, id \in Keyed, name \in Names : ChangeCard(c, id, name)
    \/ \E c \in Cards : RemoveCard(c)

\* The book answers and the event loop runs.
WatcherFairness == WF_watcherVars(Answers) /\ WF_watcherVars(Hears)
WatcherSpec == WatcherInit /\ [][WatcherNext]_watcherVars /\ WatcherFairness

(***************************************************************************)
(* Properties.                                                             *)
(***************************************************************************)
Ready == mCompleted /\ Interactive(mIdentifier) /\ mAddressableFields # "none"
AtRest == mRequest = NoSearch /\ news = <<>>

\* Once the searches and the signals are over, the contact is one the address
\* book has for the identifier, under the name it has now, and there is none only
\* if the book has none (contactwatcher.cpp:230-426): however the identifier, the
\* fields and the address book changed while a search was under way.
ShownIsOfIdentifier ==
    Ready /\ AtRest =>
      IF mContactId = NoCard
      THEN \A c \in Cards : book[c].id # mIdentifier
      ELSE /\ book[mContactId].id = mIdentifier
           /\ mAlias = <<mContactId, book[mContactId].name>>

\* Somebody who is not in the address book has no name.  It does not hold: after
\* "Private Number" a search without a result leaves the alias, as no contact was
\* shown (contactwatcher.cpp:422).
UnknownHasNoName == Ready /\ AtRest /\ mContactId = NoCard => mAlias = NoCard

\* A private number has no contact.  It does not hold: setIdentifier() leaves the
\* search that runs, and an account whose fields are not compared shows the result
\* (contactwatcher.cpp:251-256, 386).
HiddenHasNoContact == ~Interactive(mIdentifier) => mContactId = NoCard
=============================================================================
