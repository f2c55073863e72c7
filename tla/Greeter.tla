------------------------------ MODULE Greeter ------------------------------
(***************************************************************************)
(* The settings and the contacts a process reads from AccountsService      *)
(* (libtelephonyservice/greetercontacts.cpp), the thread that plays the    *)
(* ringtone by them (ringtone.cpp), and the copy of one setting that       *)
(* TelepathyHelper keeps (telepathyhelper.cpp:102, 651-658).               *)
(*                                                                         *)
(* Two threads share the cache.  A getter takes mMutex, asks the service   *)
(* when the cached value is invalid, and BLOCKS with the mutex held until  *)
(* the answer is there; the slot that hears of a change writes the cache   *)
(* without the mutex.  The main thread is one action per slot; the worker  *)
(* takes one step up to its call, and another one after the answer.        *)
(*                                                                         *)
(* AccountsService and the greeter are external.  Each answers what it is  *)
(* asked in the order of the requests, with an error if it likes, and its  *)
(* answers and its signals reach the main thread in the order it sent      *)
(* them; the answer to a blocking call goes to the caller and may overtake *)
(* them, and is never an error.                                            *)
(***************************************************************************)
EXTENDS Naturals, Sequences

CONSTANTS
    UserList,       \* the users of AccountsService, as ListCachedUsers gives them
    SessionUser,    \* the one this process runs as, outside of the greeter
    Contacts,       \* the contacts a user's session publishes
    Numbers,        \* the numbers that call
    NumberOf,       \* Contacts -> Numbers
    Changing,       \* the settings that change in this instance
    None,           \* no user, no contact, no filter
    Nobody,         \* an ActiveEntry that is no user of the system
    MaxMoves        \* bound: changes of settings, contacts and active entry,
                    \* orders to the ringtone and filters set, together

VARIABLES
    greeterMode,    \* isGreeterMode(): constant for the life of the process
    mActiveUser, cache, mContacts, mFilter,   \* the members of GreeterContacts
    shown,          \* the contact of the last contactUpdated()
    mMmsEnabled,    \* TelepathyHelper::mMmsEnabled
    worker,         \* where the thread of the ringtone is
    commands,       \* the slots queued to that thread
    lastAsked,      \* the last order about the sound of calls
    callPlays, messagePlays,        \* mCallAudioPlayer, mMessageAudioPlayer
    value, info,    \* the service: the settings and CurrentContact of each user
    requests,       \* asynchronous requests the service has not answered
    mail,           \* its answers and signals on the way to the main thread
    unknown,        \* history: users whose contact was last read in vain
    entry,          \* the greeter: ActiveEntry
    listAsked,      \* requests for it that are not answered
    listMail,       \* answers and signals of the greeter on their way
    entryUnknown,   \* history: so was the entry
    moves           \* how many of these there were

members == <<mActiveUser, cache, mContacts, mFilter, shown, mMmsEnabled>>
ringtone == <<worker, commands, lastAsked, callPlays, messagePlays>>
service == <<value, info, requests, mail, unknown>>
greeter == <<entry, listAsked, listMail, entryUnknown>>
vars == <<greeterMode, members, ringtone, service, greeter, moves>>

Users == {UserList[i] : i \in 1 .. Len(UserList)}

ASSUME GreeterAssumption ==
    /\ UserList \in Seq(Users)
    /\ SessionUser \in Users
    /\ NumberOf \in [Contacts -> Numbers]
    /\ None \notin Users \cup Contacts \cup Numbers
    /\ "invalid" \notin Contacts \cup {None}
    /\ Nobody \notin Users \cup {None}
    /\ "error" \notin Users \cup {None, Nobody}

SoundKeys == {"SilentMode", "IncomingCallSound", "IncomingMessageSound"}
Keys == SoundKeys \cup {"MmsEnabled"}

ASSUME ChangingAssumption == Changing \subseteq Keys

Values == {"on", "off"}
Valid(v) == v \in Values
Uncached == [k \in Keys |-> "invalid"]
Orders == {"playCall", "stopCall", "playMessage", "stopMessage"}

\* What the service answers for a setting of a user; there is none of no user.
Setting(u, k) == IF u = None THEN "invalid" ELSE value[u][k]

\* A message of the service: a change, the list of users, the contact of one, or
\* an error in place of one of these.
Message(kind, u, k, v) == [kind |-> kind, user |-> u, key |-> k, val |-> v]

\* mMutex: only the worker keeps it from one step to the next.
Held == worker.step # "runs"
Resting == [key |-> "none", step |-> "runs", user |-> None, reply |-> "invalid"]

Move == moves < MaxMoves /\ moves' = moves + 1

(***************************************************************************)
(* GreeterContacts, on the main thread.                                    *)
(***************************************************************************)
\* lookupContact(): the contact of the active user, when the filter takes it.
Lookup(contacts, u, filter) ==
    IF u # None /\ contacts[u] # None /\ filter # None /\ NumberOf[contacts[u]] = filter
    THEN contacts[u] ELSE None

\* signalIfNeeded(): contactUpdated(), when there is a contact.
SignalIfNeeded(contacts, u, filter) ==
    LET found == Lookup(contacts, u, filter)
    IN  shown' = IF found # None THEN found ELSE shown

setContactFilter(n) ==
    /\ greeterMode /\ ~Held /\ Move
    /\ mFilter' = n
    /\ SignalIfNeeded(mContacts, mActiveUser, n)
    /\ UNCHANGED <<greeterMode, mActiveUser, cache, mContacts, mMmsEnabled,
                   ringtone, service, greeter>>

\* Seeded bug: the contact of the new user waits for the next change.
updateActiveUser_Quiet(u) ==
    IF u \notin Users
    THEN UNCHANGED members
    ELSE /\ mActiveUser' = u
         /\ cache' = Uncached
         /\ UNCHANGED <<mContacts, mFilter, shown, mMmsEnabled>>

\* For a name that getpwnam() does not know the user before stays the active one.
updateActiveUser(u) ==
    IF u \notin Users
    THEN UNCHANGED members
    ELSE /\ mActiveUser' = u
         /\ cache' = Uncached
         /\ SignalIfNeeded(mContacts, u, mFilter)
         /\ UNCHANGED <<mContacts, mFilter, mMmsEnabled>>

\* The getters from the main thread: with the answer when nothing valid is
\* cached.
mainReads(k, c) == [c EXCEPT ![k] = IF Valid(@) THEN @ ELSE Setting(mActiveUser, k)]

\* silentMode(), of incomingCallVibrate() and incomingMessageVibrate().
ReadsSilentMode ==
    /\ ~Held
    /\ cache' = mainReads("SilentMode", cache)
    /\ cache' # cache
    /\ UNCHANGED <<greeterMode, mActiveUser, mContacts, mFilter, shown, mMmsEnabled,
                   ringtone, service, greeter, moves>>

\* Seeded bug: phoneSettingsChanged() of a value that came with the signal alone.
SettingChanged_Told(m) ==
    IF m.user # mActiveUser
    THEN UNCHANGED members
    ELSE /\ cache' = [cache EXCEPT ![m.key] = m.val]
         /\ mMmsEnabled' = IF m.key = "MmsEnabled" /\ Valid(m.val)
                           THEN m.val = "on" ELSE mMmsEnabled
         /\ UNCHANGED <<mActiveUser, mContacts, mFilter, shown>>

(* accountsPropertiesChanged(): a setting that is not of the active user is *)
(* not looked at; CurrentContact is kept for every user, and asked for again *)
(* when it is only invalidated.                                             *)
SettingChanged(m) ==
    LET written == [cache EXCEPT ![m.key] = m.val]
    IN  IF m.user # mActiveUser
        THEN UNCHANGED members
        ELSE /\ IF m.key = "MmsEnabled"
                THEN \* phoneSettingsChanged(): onPhoneSettingsChanged() reads it
                     /\ ~Held
                     /\ cache' = mainReads(m.key, written)
                     /\ mMmsEnabled' = (cache'[m.key] = "on")
                ELSE cache' = written /\ UNCHANGED mMmsEnabled
             /\ UNCHANGED <<mActiveUser, mContacts, mFilter, shown>>

ContactKnown(u, c) ==
    /\ mContacts' = [mContacts EXCEPT ![u] = c]
    /\ SignalIfNeeded(mContacts', mActiveUser, mFilter)
    /\ UNCHANGED <<mActiveUser, cache, mFilter, mMmsEnabled>>

accountsPropertiesChanged(m) ==
    IF m.key # "CurrentContact"
    THEN SettingChanged(m) /\ UNCHANGED requests
    ELSE IF m.val # "invalid"
         THEN ContactKnown(m.user, m.val) /\ UNCHANGED requests
         ELSE requests' = Append(requests, m.user) /\ UNCHANGED members

\* accountsGetUsersReply(): queryContact() of every user.
accountsGetUsersReply == requests' = requests \o UserList /\ UNCHANGED members

\* Whose contact was asked for in vain; all, when the list could not be read.
UnknownAfter(m) ==
    CASE m.kind = "error" -> IF m.user = None THEN Users ELSE unknown \cup {m.user}
      [] m.key = "CurrentContact" /\ m.val # "invalid" -> unknown \ {m.user}
      [] OTHER -> unknown

MainHearsService ==
    /\ mail # <<>>
    /\ LET m == Head(mail)
       IN  CASE m.kind = "changed" -> accountsPropertiesChanged(m)
             [] m.kind = "users" -> accountsGetUsersReply
             [] m.kind = "contact" -> ContactKnown(m.user, m.val) /\ UNCHANGED requests
             [] m.kind = "error" -> UNCHANGED <<members, requests>>
    /\ unknown' = UnknownAfter(Head(mail))
    /\ mail' = Tail(mail)
    /\ UNCHANGED <<greeterMode, ringtone, value, info, greeter, moves>>

\* greeterListPropertiesChanged() and greeterGetEntryReply().
MainHearsGreeter ==
    /\ listMail # <<>>
    /\ listMail' = Tail(listMail)
    /\ LET e == Head(listMail)
       IN  CASE e = None -> listAsked' = listAsked + 1 /\ UNCHANGED <<members, entryUnknown>>
             [] e = "error" -> entryUnknown' = TRUE /\ UNCHANGED <<members, listAsked>>
             [] OTHER -> updateActiveUser(e) /\ entryUnknown' = FALSE /\ UNCHANGED listAsked
    /\ UNCHANGED <<greeterMode, ringtone, service, entry, moves>>

(***************************************************************************)
(* The ringtone: orders are queued to the thread, which asks for the       *)
(* settings itself.                                                        *)
(***************************************************************************)
\* Seeded bug: the sound stops at once, from the thread that asks.
Queue_Direct(order) ==
    /\ IF order = "stopCall"
       THEN callPlays' = FALSE /\ UNCHANGED commands
       ELSE commands' = Append(commands, order) /\ UNCHANGED callPlays
    /\ UNCHANGED <<worker, messagePlays>>

\* invokeMethod(..., Qt::QueuedConnection)
Queue(order) ==
    /\ commands' = Append(commands, order)
    /\ UNCHANGED <<worker, callPlays, messagePlays>>

Order(order) ==
    /\ Move
    /\ lastAsked' = IF order \in {"playCall", "stopCall"} THEN order ELSE lastAsked
    /\ Queue(order)
    /\ UNCHANGED <<greeterMode, members, service, greeter>>

Done == commands' = Tail(commands) /\ worker' = Resting

\* stopIncomingCallSound(), stopIncomingMessageSound()
WorkerStops ==
    \/ Head(commands) = "stopCall" /\ callPlays' = FALSE /\ UNCHANGED messagePlays
    \/ Head(commands) = "stopMessage" /\ messagePlays' = FALSE /\ UNCHANGED callPlays

Take ==
    /\ commands # <<>> /\ worker = Resting
    /\ \/ WorkerStops /\ Done
       \/ /\ Head(commands) \in {"playCall", "playMessage"}
          /\ worker' = [Resting EXCEPT !.key = "SilentMode"]
          /\ UNCHANGED <<commands, callPlays, messagePlays>>

\* playIncomingCallSound() from the answer of silentMode() on: the player goes
\* away before the tone is read, and a new one plays.
CallSound(v) ==
    IF worker.key # "SilentMode"
    THEN callPlays' = TRUE /\ Done /\ UNCHANGED messagePlays
    ELSE IF v = "on"
         THEN Done /\ UNCHANGED <<callPlays, messagePlays>>
         ELSE /\ callPlays' = FALSE
              /\ worker' = [Resting EXCEPT !.key = "IncomingCallSound"]
              /\ UNCHANGED <<commands, messagePlays>>

\* playIncomingMessageSound(): one that still plays is left alone.
MessageSound(v) ==
    IF worker.key # "SilentMode"
    THEN messagePlays' = TRUE /\ Done /\ UNCHANGED callPlays
    ELSE IF v = "on" \/ messagePlays
         THEN Done /\ UNCHANGED <<callPlays, messagePlays>>
         ELSE /\ worker' = [Resting EXCEPT !.key = "IncomingMessageSound"]
              /\ UNCHANGED <<commands, callPlays, messagePlays>>

Learns(v) == IF Head(commands) = "playCall" THEN CallSound(v) ELSE MessageSound(v)

\* Seeded bug: the second getter is called with the mutex of the first one held.
Look_Nested ==
    /\ worker.key = "SilentMode" /\ worker.step = "runs"
    /\ IF Valid(cache[worker.key])
       THEN Learns(cache[worker.key])
       ELSE /\ worker' = [worker EXCEPT !.step = "asked", !.user = mActiveUser]
            /\ UNCHANGED <<commands, callPlays, messagePlays>>
    /\ UNCHANGED cache

\* The getter on the worker: the cached value, or a call with the mutex held.
Look ==
    /\ worker.key # "none" /\ worker.step = "runs"
    /\ IF Valid(cache[worker.key])
       THEN Learns(cache[worker.key])
       ELSE /\ worker' = [worker EXCEPT !.step = "asked", !.user = mActiveUser]
            /\ UNCHANGED <<commands, callPlays, messagePlays>>
    /\ UNCHANGED cache

Answered ==
    /\ worker.step = "asked"
    /\ worker' = [worker EXCEPT !.step = "answered", !.reply = Setting(worker.user, worker.key)]
    /\ UNCHANGED <<cache, commands, callPlays, messagePlays>>

Store ==
    /\ worker.step = "answered"
    /\ cache' = [cache EXCEPT ![worker.key] = worker.reply]
    /\ Learns(worker.reply)

Worker ==
    /\ \/ Take /\ UNCHANGED cache
       \/ Look
       \/ Answered
       \/ Store
    /\ UNCHANGED <<greeterMode, mActiveUser, mContacts, mFilter, shown, mMmsEnabled,
                   lastAsked, service, greeter, moves>>

\* The sound of a message is over, or its player has failed.
MessageSoundEnds ==
    /\ messagePlays /\ messagePlays' = FALSE
    /\ UNCHANGED <<greeterMode, members, worker, commands, lastAsked, callPlays,
                   service, greeter, moves>>

(***************************************************************************)
(* AccountsService and the greeter.                                        *)
(***************************************************************************)
\* A change is told with the value or without it.
Tells(u, k, v) ==
    \E told \in {v, "invalid"} : mail' = Append(mail, Message("changed", u, k, told))

\* A setter of this process or of another one reaches the service.
SettingIsSet(u, k) ==
    LET new == IF value[u][k] = "on" THEN "off" ELSE "on"
    IN  /\ Move
        /\ value' = [value EXCEPT ![u][k] = new]
        /\ Tells(u, k, new)
        /\ UNCHANGED <<greeterMode, members, ringtone, info, requests, unknown, greeter>>

\* emitContact() of the session of a user.
ContactIsPublished(u, c) ==
    /\ greeterMode /\ c # info[u]
    /\ Move
    /\ info' = [info EXCEPT ![u] = c]
    /\ Tells(u, "CurrentContact", c)
    /\ UNCHANGED <<greeterMode, members, ringtone, value, requests, unknown, greeter>>

ServiceAnswers ==
    /\ requests # <<>>
    /\ LET u == Head(requests)
           answer == IF u = None THEN Message("users", None, "none", None)
                     ELSE Message("contact", u, "CurrentContact", info[u])
       IN  \E m \in {answer, Message("error", u, "none", None)} : mail' = Append(mail, m)
    /\ requests' = Tail(requests)
    /\ UNCHANGED <<greeterMode, members, ringtone, value, info, unknown, greeter, moves>>

EntryChanges(u) ==
    /\ greeterMode /\ u # entry
    /\ Move
    /\ entry' = u
    /\ \E told \in {u, None} : listMail' = Append(listMail, told)
    /\ UNCHANGED <<greeterMode, members, ringtone, service, listAsked, entryUnknown>>

GreeterAnswers ==
    /\ listAsked > 0
    /\ listAsked' = listAsked - 1
    /\ \E answer \in {entry, "error"} : listMail' = Append(listMail, answer)
    /\ UNCHANGED <<greeterMode, members, ringtone, service, entry, entryUnknown, moves>>

(***************************************************************************)
(* The constructors of GreeterContacts and, after it, of TelepathyHelper,  *)
(* which reads MmsEnabled: in the greeter there is no user to read it of.  *)
(***************************************************************************)
Init ==
    /\ greeterMode \in BOOLEAN
    /\ value \in [Users -> {[k \in Keys |-> "off"]}]
    /\ info \in [Users -> {None} \cup Contacts]
    /\ entry \in Users \cup {Nobody}
    /\ greeterMode \/ (entry = SessionUser /\ info = [u \in Users |-> None])
    /\ mActiveUser = IF greeterMode THEN None ELSE SessionUser
    /\ cache = mainReads("MmsEnabled", Uncached)
    /\ mMmsEnabled = (cache["MmsEnabled"] = "on")
    /\ mContacts = [u \in Users |-> None]
    /\ mFilter = None /\ shown = None
    /\ requests = IF greeterMode THEN <<None>> ELSE <<>>
    /\ listAsked = IF greeterMode THEN 1 ELSE 0
    /\ mail = <<>> /\ listMail = <<>>
    /\ unknown = {} /\ entryUnknown = FALSE
    /\ worker = Resting /\ commands = <<>> /\ lastAsked = "stopCall"
    /\ callPlays = FALSE /\ messagePlays = FALSE
    /\ moves = 0

Next ==
    \/ \E n \in Numbers : setContactFilter(n)
    \/ ReadsSilentMode
    \/ MainHearsService
    \/ MainHearsGreeter
    \/ \E order \in Orders : Order(order)
    \/ Worker
    \/ MessageSoundEnds
    \/ \E u \in Users, k \in Changing : SettingIsSet(u, k)
    \/ \E u \in Users, c \in Contacts : ContactIsPublished(u, c)
    \/ ServiceAnswers
    \/ \E u \in Users \cup {Nobody} : EntryChanges(u)
    \/ GreeterAnswers

\* The thread runs and the service answers a blocking call.
Spec == Init /\ [][Next]_vars /\ WF_vars(Worker)

(***************************************************************************)
(* Properties.                                                             *)
(***************************************************************************)
\* The type of the state (greetercontacts.h:108-123, ringtone.h).
TypeOK ==
    /\ greeterMode \in BOOLEAN
    /\ mActiveUser \in Users \cup {None}
    /\ cache \in [Keys -> Values \cup {"invalid"}]
    /\ mContacts \in [Users -> Contacts \cup {None}]
    /\ mFilter \in Numbers \cup {None}
    /\ shown \in Contacts \cup {None}
    /\ mMmsEnabled \in BOOLEAN
    /\ worker \in [key : SoundKeys \cup {"none"}, step : {"runs", "asked", "answered"},
                   user : Users \cup {None}, reply : Values \cup {"invalid"}]
    /\ commands \in Seq(Orders) /\ (Held => worker.key # "none" /\ commands # <<>>)
    /\ callPlays \in BOOLEAN /\ messagePlays \in BOOLEAN

\* Once every change that was told has been heard, the value of MmsEnabled that
\* greetercontacts.cpp:191 hands out is the one the service has for the active
\* user, and outside of the greeter the copy of telepathyhelper.cpp:655 that
\* decides whether a message goes out by MMS is, too: whatever blocking read
\* overtook which signal, told with the value or without.
MmsIsCurrent ==
    mail = <<>> =>
      /\ Valid(cache["MmsEnabled"]) => cache["MmsEnabled"] = Setting(mActiveUser, "MmsEnabled")
      /\ ~greeterMode => mMmsEnabled = (value[SessionUser]["MmsEnabled"] = "on")

\* Once the answers and signals of both buses have been heard, the active user is
\* the one in front, every contact is the one its session has published, and the
\* greeter shows that of the active user when the number that calls is his
\* (greetercontacts.cpp:384-486): in whatever order the list of users, the
\* contacts, the active entry and the filter came.  What was last answered with
\* an error stays as it was; and when the entry in front is no user of the
\* system, the user before stays active, and his contact is the one shown.
ContactIsCurrent ==
    greeterMode /\ mail = <<>> /\ requests = <<>> /\ listMail = <<>> /\ listAsked = 0 =>
      /\ mActiveUser = entry \/ entry = Nobody \/ entryUnknown
      /\ \A u \in Users \ unknown : mContacts[u] = info[u]
      /\ mActiveUser \in Users \ unknown =>
           LET found == Lookup(info, mActiveUser, mFilter) IN found # None => shown = found

\* When the thread has served its orders, no call rings after the last order
\* was to stop (ringtone.cpp:133-141): also when the order came while the
\* thread waited for a setting.
StopsRinging ==
    commands = <<>> /\ lastAsked = "stopCall" => ~callPlays

\* Every order is served: the thread never waits for the mutex it holds
\* (ringtone.cpp:33-52, greetercontacts.cpp:129-136).
OrdersAreServed == commands # <<>> ~> commands = <<>>

\* The setting of the main thread and of the worker alike.  It does not hold:
\* the slot writes the cache without mMutex, and a worker that has its answer
\* writes the older value over it (greetercontacts.cpp:133 and 336).
SilentIsCurrent ==
    mail = <<>> /\ ~Held /\ Valid(cache["SilentMode"]) =>
      cache["SilentMode"] = Setting(mActiveUser, "SilentMode")
=============================================================================
