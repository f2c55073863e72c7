---------------------------- MODULE MissedCalls ----------------------------
(***************************************************************************)
(* Missed calls and voicemail in the messaging menu of the indicator:      *)
(* CallChannelObserver follows the calls, MessagingMenu groups the missed  *)
(* ones by caller and places an item once the contact was looked up, and   *)
(* VoiceMailIndicator adds an item for each SIM card with voicemail.       *)
(*                                                                         *)
(* A caller is a number as the network writes it; Person maps the ways to  *)
(* write one number to the same person (AccountEntry::compareIds).         *)
(***************************************************************************)
EXTENDS Lists, SequencesExt, FiniteSets

CONSTANTS
  Calls,      \* calls that come and go
  Callers,    \* numbers
  Accounts,   \* SIM cards
  Call,       \* call -> [caller, account, incoming]
  Person,     \* number -> who it belongs to
  Hidden,     \* private and unknown numbers: no contact to look up
  MaxChanges  \* bound on voicemail changes and on items the user opens

ASSUME CallsAssumption ==
  /\ IsFiniteSet(Calls)
  /\ Call \in [Calls -> [caller : Callers, account : Accounts, incoming : BOOLEAN]]
  /\ DOMAIN Person = Callers
  /\ Hidden \subseteq Callers
  /\ MaxChanges \in Nat

People == {Person[t] : t \in Callers}

VARIABLES
  call,          \* the call of the network: [state, accepted, noAnswer]
  mCallStates,   \* CallChannelObserver: last state seen
  mCalls,        \* MessagingMenu: one entry per caller and account
  callerFetches, \* entries whose contact is being looked up
  callMenu,      \* items on the screen: id -> count they show
  mVoicemailIds, \* accounts with a voicemail item
  voicemail,     \* accounts with voicemail waiting
  gone,          \* accounts without a connection
  cleared,       \* history: missed calls of each person taken off the list
  changes        \* used up of MaxChanges

missedVars == <<call, mCallStates, mCalls, callerFetches, callMenu, mVoicemailIds, voicemail, gone,
                cleared, changes>>
callVars == <<call, mCallStates>>
voicemailVars == <<mVoicemailIds, voicemail>>

States == {"Initialised", "Accepted", "Active", "Ended"}
Entries == [target : Callers, account : Accounts, count : 1 .. Cardinality(Calls)]

MissedInit ==
  /\ call = [c \in Calls |-> [state |-> "none", accepted |-> FALSE, noAnswer |-> FALSE]]
  /\ mCallStates = [c \in Calls |-> "Unknown"]
  /\ mCalls = <<>>
  /\ callerFetches = <<>>
  /\ callMenu = <<>>
  /\ mVoicemailIds = {}
  /\ voicemail = {}
  /\ gone = {}
  /\ cleared = [p \in People |-> 0]
  /\ changes = 0

-----------------------------------------------------------------------------
(* The messaging menu (library): items are kept by id, and an item whose id *)
(* is taken is not added.                                                   *)

RemoveItem(items, id) == [i \in DOMAIN items \ {id} |-> items[i]]

AppendItem(items, id, n) ==
  [i \in DOMAIN items \cup {id} |-> IF i \in DOMAIN items THEN items[i] ELSE n]

(* Q_FOREACH over mCalls: the first entry of this caller on this account.   *)
Matches(e, t, a) == Person[e.target] = Person[t] /\ e.account = a

FirstMatch(t, a) == SelectInSeq(mCalls, LAMBDA e : Matches(e, t, a))

(* mCalls.removeOne(): Call::operator==() compares only the target.         *)
RemoveOne(s, e) == RemoveAt(s, SelectInSeq(s, LAMBDA x : x.target = e.target))

(* addCallToMessagingMenu(): the item and the entry appear together.        *)
Place(items, s, e) ==
  /\ callMenu' = AppendItem(items, e.target, e.count)
  /\ mCalls' = Append(s, e)

(* MessagingMenu::addCall().                                                *)
AddCall(t, a) ==
  LET i == FirstMatch(t, a)
      found == i # 0
      e == IF found THEN [mCalls[i] EXCEPT !.count = @ + 1]
                    ELSE [target |-> t, account |-> a, count |-> 1]
      rest == IF found THEN RemoveOne(mCalls, mCalls[i]) ELSE mCalls
      items == IF found THEN RemoveItem(callMenu, mCalls[i].target) ELSE callMenu
  IN IF t \in Hidden
       THEN Place(items, rest, e) /\ UNCHANGED callerFetches
       ELSE mCalls' = rest /\ callMenu' = items /\ callerFetches' = Append(callerFetches, e)

(* The contact was looked up. Requests may finish in any order.             *)
CallerFetched ==
  \E i \in 1 .. Len(callerFetches) :
    /\ Place(callMenu, mCalls, callerFetches[i])
    /\ callerFetches' = RemoveAt(callerFetches, i)
    /\ UNCHANGED <<callVars, voicemailVars, gone, cleared, changes>>

(* The history says the calls of this caller were seen: removeCall().       *)
ClearCallNotification(t, a) ==
  LET i == FirstMatch(t, a) IN
  /\ i # 0
  /\ mCalls' = RemoveOne(mCalls, mCalls[i])
  /\ callMenu' = RemoveItem(callMenu, mCalls[i].target)
  /\ cleared' = [cleared EXCEPT ![Person[t]] = @ + mCalls[i].count]
  /\ UNCHANGED <<callVars, callerFetches, voicemailVars, gone, changes>>

(* The user opens or swipes away an item: the menu drops it, the entry of   *)
(* mCalls stays.                                                            *)
ActivateCallItem(id) ==
  /\ id \in DOMAIN callMenu
  /\ changes < MaxChanges
  /\ changes' = changes + 1
  /\ callMenu' = RemoveItem(callMenu, id)
  /\ UNCHANGED <<callVars, mCalls, callerFetches, voicemailVars, gone, cleared>>

-----------------------------------------------------------------------------
(* CallChannelObserver.                                                     *)

CallChannelAvailable(c) ==
  /\ call[c].state = "none"
  /\ \E s \in States :
       /\ call' = [call EXCEPT ![c] = [state |-> s, accepted |-> s # "Initialised", noAnswer |-> FALSE]]
       /\ mCallStates' = [mCallStates EXCEPT ![c] = s]
  /\ UNCHANGED <<mCalls, callerFetches, callMenu, voicemailVars, gone, cleared, changes>>

(* The network takes a call further; nobody answers in time only before it  *)
(* was accepted.                                                            *)
NextStates(s) ==
  CASE s = "Initialised" -> {"Accepted", "Active", "Ended"}
    [] s = "Accepted" -> {"Active", "Ended"}
    [] s = "Active" -> {"Ended"}
    [] OTHER -> {}

Change(c, s, n) ==
  /\ call[c].state \in States
  /\ s \in NextStates(call[c].state)
  /\ n => s = "Ended" /\ call[c].state = "Initialised"
  /\ call' = [call EXCEPT ![c] = [state |-> s,
                                  accepted |-> @.accepted \/ s \in {"Accepted", "Active"},
                                  noAnswer |-> n]]

\* Seeded bug: only the reason of the network is looked at.
Missed_ReasonOnly(c) ==
  /\ Call[c].incoming
  /\ call'[c].noAnswer

(* Nobody answered, or the call went from Initialised to Ended directly.    *)
Missed(c) ==
  /\ Call[c].incoming
  /\ call'[c].noAnswer \/ mCallStates[c] = "Initialised"

(* The entry of an ended call is removed and written again at the end of    *)
(* the slot.                                                                *)
CallStateChanged(c) ==
  /\ \E s \in States, n \in BOOLEAN : Change(c, s, n)
  /\ IF Call[c].account \in gone
       THEN UNCHANGED <<mCallStates, mCalls, callerFetches, callMenu>>
       ELSE /\ mCallStates' = [mCallStates EXCEPT ![c] = call'[c].state]
            /\ IF call'[c].state = "Ended" /\ Missed(c)
                 THEN AddCall(Call[c].caller, Call[c].account)
                 ELSE UNCHANGED <<mCalls, callerFetches, callMenu>>
  /\ UNCHANGED <<voicemailVars, gone, cleared, changes>>

(* accountForConnection() finds no account once its connection is gone.     *)
ConnectionLost(a) ==
  /\ a \notin gone
  /\ gone' = gone \cup {a}
  /\ UNCHANGED <<callVars, mCalls, callerFetches, callMenu, voicemailVars, cleared, changes>>

-----------------------------------------------------------------------------
(* Voicemail items have the account as their id.                            *)

ShowVoicemailEntry(a, n) ==
  /\ callMenu' = AppendItem(RemoveItem(callMenu, a), a, n)
  /\ mVoicemailIds' = mVoicemailIds \cup {a}
HideVoicemailEntry(a) ==
  /\ callMenu' = RemoveItem(callMenu, a)
  /\ mVoicemailIds' = mVoicemailIds \ {a}

VoicemailIndicatorChanged(a) ==
  /\ changes < MaxChanges
  /\ changes' = changes + 1
  /\ \/ voicemail' = voicemail \cup {a} /\ ShowVoicemailEntry(a, 1)
     \/ voicemail' = voicemail \ {a} /\ HideVoicemailEntry(a)
  /\ UNCHANGED <<callVars, mCalls, callerFetches, gone, cleared>>

(* The list of accounts changed: every account is looked at again.          *)
AccountReady ==
  /\ changes < MaxChanges
  /\ changes' = changes + 1
  /\ callMenu' = [i \in (DOMAIN callMenu \ Accounts) \cup voicemail |->
                IF i \in Accounts THEN 1 ELSE callMenu[i]]
  /\ mVoicemailIds' = (mVoicemailIds \ Accounts) \cup voicemail
  /\ UNCHANGED <<callVars, mCalls, callerFetches, voicemail, gone, cleared>>

-----------------------------------------------------------------------------
MissedNext ==
  \/ \E c \in Calls : CallChannelAvailable(c) \/ CallStateChanged(c)
  \/ CallerFetched
  \/ \E t \in Callers, a \in Accounts : ClearCallNotification(t, a)
  \/ \E id \in Callers \cup Accounts : ActivateCallItem(id)
  \/ \E a \in Accounts : ConnectionLost(a) \/ VoicemailIndicatorChanged(a)
  \/ AccountReady

MissedSpec == MissedInit /\ [][MissedNext]_missedVars

-----------------------------------------------------------------------------
(* Every variable has its type.                                             *)
MissedTypeOK ==
  /\ call \in [Calls -> [state : States \cup {"none"}, accepted : BOOLEAN, noAnswer : BOOLEAN]]
  /\ mCallStates \in [Calls -> States \cup {"Unknown"}]
  /\ mCalls \in Seq(Entries)
  /\ callerFetches \in Seq(Entries)
  /\ DOMAIN callMenu \subseteq Callers \cup Accounts
  /\ mVoicemailIds \subseteq Accounts
  /\ voicemail \subseteq Accounts
  /\ gone \subseteq Accounts
  /\ cleared \in [People -> 0 .. Cardinality(Calls)]
  /\ changes \in 0 .. MaxChanges

(* Whoever calls on one account only.                                       *)
OneAccount(p) ==
  \A c, d \in Calls : /\ Person[Call[c].caller] = p
                      /\ Person[Call[d].caller] = p
                      => Call[c].account = Call[d].account

(* How many calls of a person each entry of a list stands for.             *)
Counts(s, p) == [i \in 1 .. Len(s) |-> IF Person[s[i].target] = p THEN s[i].count ELSE 0]

(* The calls of a person that nobody accepted.                             *)
MissedOf(p) == {c \in Calls : /\ Person[Call[c].caller] = p
                             /\ Call[c].incoming
                             /\ call[c].state = "Ended"
                             /\ ~call[c].accepted}

(* No missed call is lost or counted twice: whatever the order in which    *)
(* calls end, contacts are fetched and entries are cleared, the entries of *)
(* mCalls and those under way (addCall() takes an entry out of mCalls and   *)
(* puts it back from the callback of the contact request) add up to the     *)
(* calls nobody accepted. Calls that were over before the observer saw them *)
(* and people who call on two SIM cards are left out: the code loses those. *)
MissedAreCounted ==
  gone = {} => \A p \in People : OneAccount(p) =>
    Total(Counts(mCalls, p)) + Total(Counts(callerFetches, p)) + cleared[p]
      = Cardinality(MissedOf(p))

(* An item the user can touch belongs to an entry: callBack() looks up the *)
(* account of the entry with this id and uses it without a check, and      *)
(* callsActivateCallback() takes an id it does not know for a missed call.  *)
ItemIsKnown ==
  \A id \in DOMAIN callMenu :
    \/ id \in mVoicemailIds
    \/ \E i \in 1 .. Len(mCalls) : mCalls[i].target = id
=============================================================================
