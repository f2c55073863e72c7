---------------------------- MODULE Participants ----------------------------
(***************************************************************************)
(* The list of the people in a conversation as QML shows it                *)
(* (Ubuntu/Telephony/participantsmodel.cpp), behind the ChatEntry that     *)
(* tells of those who come and go (chatentry.cpp:674-720).                 *)
(*                                                                         *)
(* The people who are there when the model gets its entry wait in a sorted *)
(* cache and become rows a page at a time; those who come later become     *)
(* rows at once.  The entry makes a new Participant each time somebody     *)
(* comes, and deletes it when he goes: a row is a pointer to one.          *)
(***************************************************************************)
EXTENDS Integers, Lists, SequencesExt

CONSTANTS
  Entries,       \* ChatEntry objects
  NoEntry,       \* a null pointer
  People,        \* Participant objects
  Identifier,    \* the identifier of each, never empty
  Letters,       \* the identifiers that begin with a letter
  Place,         \* their order in the locale
  Page,          \* rows that fetchMore() adds at most: 15
  MaxSets        \* bound: calls of setChatEntry()

Identifiers == {Identifier[p] : p \in People}

ASSUME ParticipantsAssumption ==
  /\ NoEntry \notin Entries
  /\ Identifier \in [People -> Identifiers]
  /\ Letters \subseteq Identifiers
  /\ Place \in [Letters -> Nat]
  /\ Page \in Nat \ {0} /\ MaxSets \in Nat

VARIABLES
  allParticipants,     \* of each entry
  mChatEntry,
  connections,         \* how often the slots are connected to each entry
  rows,                \* mParticipants
  mParticipantsCache,
  sets                 \* calls of setChatEntry() so far

participantsVars == <<allParticipants, mChatEntry, connections, rows, mParticipantsCache, sets>>

\* The type of the state (participantsmodel.h, chatentry.h:218-221).
ParticipantsTypeOK ==
  /\ allParticipants \in [Entries -> Seq(People)]
  /\ mChatEntry \in Entries \cup {NoEntry}
  /\ connections \in [Entries -> 0..MaxSets]
  /\ rows \in Seq(People) /\ mParticipantsCache \in Seq(People)
  /\ sets \in 0..MaxSets

ParticipantsInit ==
  /\ allParticipants = [e \in Entries |-> <<>>]
  /\ mChatEntry = NoEntry
  /\ connections = [e \in Entries |-> 0]
  /\ rows = <<>> /\ mParticipantsCache = <<>>
  /\ sets = 0
-----------------------------------------------------------------------------
(* Where a participant goes *)

\* lessThan(): names that begin with a letter come first; the others are not
\* ordered among themselves.
lessThan(left, right) ==
  IF left \in Letters /\ right \in Letters THEN Place[left] < Place[right]
  ELSE left \in Letters /\ right \notin Letters

\* positionForItem(): a binary search. The bounds are ints, whose division
\* rounds towards zero.
positionForItem(item, s) ==
  LET find[bound \in [lower : 0..Len(s), upper : -1..(Len(s) - 1)]] ==
        LET lower == bound.lower
            upper == bound.upper
            pos == IF upper < 0 THEN 0 ELSE (lower + upper) \div 2
            posItem == Identifier[s[pos + 1]]
        IN IF lower = pos /\ lessThan(item, posItem) THEN pos
           ELSE IF lessThan(posItem, item)
                THEN IF pos + 1 > upper THEN pos + 1
                     ELSE find[[lower |-> pos + 1, upper |-> upper]]
                ELSE IF lower > upper THEN pos
                     ELSE find[[lower |-> lower, upper |-> pos - 1]]
  IN IF s = <<>> THEN 0 ELSE find[[lower |-> 0, upper |-> Len(s) - 1]]

\* addParticipant() to the rows, addParticipantCache() to the cache.
addParticipant(s, p) == InsertAt(s, positionForItem(Identifier[p], s) + 1, p)

\* The same for each of some participants in turn.
AddAll(s, ps) ==
  LET added[i \in 0..Len(ps)] == IF i = 0 THEN s ELSE addParticipant(added[i - 1], ps[i])
  IN added[Len(ps)]

\* indexOf() and removeAt(), if it is there.
removeAt(s, p) == IF p \in ToSet(s) THEN RemoveFirst(s, p) ELSE s
-----------------------------------------------------------------------------
(* The entry *)

\* Seeded bug: who has no row yet is not looked for.
removeParticipant_Rows(p) ==
  /\ rows' = removeAt(rows, p)
  /\ UNCHANGED mParticipantsCache

\* removeParticipant()
removeParticipant(p) ==
  /\ rows' = removeAt(rows, p)
  /\ mParticipantsCache' = removeAt(mParticipantsCache, p)

\* participantAdded(): updateParticipants() and addChannel() of the entry make a
\* new Participant. A slot that is connected twice runs twice.
ParticipantAdded(e, p) ==
  /\ \A d \in Entries : p \notin ToSet(allParticipants[d])
  /\ p \notin ToSet(rows) \cup ToSet(mParticipantsCache)
  /\ allParticipants' = [allParticipants EXCEPT ![e] = Append(@, p)]
  /\ rows' = AddAll(rows, [i \in 1..connections[e] |-> p])
  /\ UNCHANGED <<mChatEntry, connections, mParticipantsCache, sets>>

\* participantRemoved(). Slots that run again remove what is there twice.
ParticipantRemoved(e, p) ==
  /\ p \in ToSet(allParticipants[e])
  /\ allParticipants' = [allParticipants EXCEPT ![e] = RemoveFirst(@, p)]
  /\ CASE connections[e] = 0 -> UNCHANGED <<rows, mParticipantsCache>>
       [] connections[e] = 1 -> removeParticipant(p)
       [] OTHER ->
            /\ rows' = removeAt(removeAt(rows, p), p)
            /\ mParticipantsCache' = removeAt(removeAt(mParticipantsCache, p), p)
  /\ UNCHANGED <<mChatEntry, connections, sets>>

\* clearParticipants(), when a channel of the entry goes.
clearParticipants(e) ==
  LET gone == ToSet(allParticipants[e])
  IN /\ gone # {} /\ connections[e] < 2
     /\ allParticipants' = [allParticipants EXCEPT ![e] = <<>>]
     /\ IF connections[e] = 0 THEN UNCHANGED <<rows, mParticipantsCache>>
        ELSE /\ rows' = Keep(rows, People \ gone)
             /\ mParticipantsCache' = Keep(mParticipantsCache, People \ gone)
     /\ UNCHANGED <<mChatEntry, connections, sets>>
-----------------------------------------------------------------------------
(* The model *)

\* A page of the cache becomes rows.
Fetched(s, cache) ==
  LET n == IF Len(cache) < Page THEN Len(cache) ELSE Page
  IN /\ rows' = AddAll(s, SubSeq(cache, 1, n))
     /\ mParticipantsCache' = SubSeq(cache, n + 1, Len(cache))

\* fetchMore(), which a view calls when it shows the last row.
fetchMore ==
  /\ mParticipantsCache # <<>>
  /\ Fetched(rows, mParticipantsCache)
  /\ UNCHANGED <<allParticipants, mChatEntry, connections, sets>>

\* setChatEntry(). A null entry leaves the slots connected; another one leaves
\* the rows of the last.
setChatEntry(e) ==
  /\ sets < MaxSets /\ sets' = sets + 1
  /\ mChatEntry # e
  /\ mChatEntry' = e
  /\ IF e = NoEntry
     THEN UNCHANGED <<connections, rows, mParticipantsCache>>
     ELSE /\ connections' = [d \in Entries |-> IF d = e THEN connections[d] + 1
                                               ELSE IF d = mChatEntry THEN 0
                                               ELSE connections[d]]
          /\ Fetched(rows, AddAll(mParticipantsCache, allParticipants[e]))
  /\ UNCHANGED allParticipants
-----------------------------------------------------------------------------
ParticipantsNext ==
  \/ fetchMore
  \/ \E e \in Entries \cup {NoEntry} : setChatEntry(e)
  \/ \E e \in Entries : clearParticipants(e)
  \/ \E e \in Entries, p \in People : ParticipantAdded(e, p) \/ ParticipantRemoved(e, p)

ParticipantsSpec == ParticipantsInit /\ [][ParticipantsNext]_participantsVars
-----------------------------------------------------------------------------
(* Properties *)

Sorted(s) ==
  \A i, j \in DOMAIN s : i < j => ~lessThan(Identifier[s[j]], Identifier[s[i]])

\* While the model has the first entry it was given, its rows and its cache hold
\* every participant of the entry once and nobody else, in the order of
\* lessThan(), whoever came or went between two pages
\* (participantsmodel.cpp:48-108 and 135-196).
ModelShowsEntry ==
  mChatEntry # NoEntry /\ sets = 1 =>
    /\ IsInjective(rows \o mParticipantsCache)
    /\ ToSet(rows \o mParticipantsCache) = ToSet(allParticipants[mChatEntry])
    /\ Sorted(rows) /\ Sorted(mParticipantsCache)

\* The same of any entry. It does not hold: setChatEntry() never clears the rows
\* (participantsmodel.cpp:213-234), which then point to participants that the
\* last entry deletes unheard, and one that is set again after null is
\* connected, and listed, twice.
ModelShowsAnyEntry ==
  mChatEntry # NoEntry => ToSet(rows \o mParticipantsCache) \subseteq ToSet(allParticipants[mChatEntry])
=============================================================================
