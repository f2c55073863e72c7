------------------------------- MODULE Accounts -------------------------------
(***************************************************************************)
(* The accounts a process of the service works with: TelepathyHelper,      *)
(* which tells when they are all set up and which one is the default, the  *)
(* AccountEntry of each, with the OfonoAccountEntry of a SIM card, and the *)
(* AccountList that QML reads.                                             *)
(*                                                                         *)
(* An entry postpones part of its set-up to the event loop (invokeMethod   *)
(* with a queued connection), so the account's connection may have changed *)
(* when that runs. D-Bus signals of a connection queue up as well.         *)
(* The accounts are those of supported protocols.                          *)
(***************************************************************************)
EXTENDS Lists, FiniteSets, SequencesExt

CONSTANTS
  Order,       \* the accounts as onNewAccount() sorts them: SIMs first
  Sims,        \* ofono accounts; each stands for its modem as well
  Settings,    \* what the user may choose: a SIM, "ask", or nothing yet: "unset"
  NoAccount,   \* no account
  MaxConns,    \* bound: account -> connections it gets
  MaxSignals   \* bound: D-Bus signals of one account under way

AllAccounts == ToSet(Order)

ASSUME AccountsAssumption ==
  /\ Order \in Seq(AllAccounts) /\ IsInjective(Order)
  /\ Sims \subseteq AllAccounts
  /\ Settings \subseteq Sims \cup {"ask", "unset"}
  /\ NoAccount \notin AllAccounts
  /\ MaxConns \in [AllAccounts -> Nat \ {0}] /\ MaxSignals \in Nat \ {0}

VARIABLES
  valid,        \* accounts in Telepathy's account manager
  conn,         \* the connection of each: 0, or its number
  conns,        \* connections each has had
  online,       \* accounts whose own contact has a presence other than Offline
  count,        \* voicemail count of each SIM in the network
  signals,      \* VoicemailCountChanged of each SIM on their way
  accountManager, \* AccountManager: becoming "pending", "ready" or "failed"
  mAccounts,    \* the accounts of TelepathyHelper
  entries,      \* accounts with an entry, the removed ones included
  events,       \* queued calls of the entries
  watched,      \* connections whose presence an entry follows
  heard,        \* connections whose D-Bus signals an entry receives
  mVoicemailCount,
  mPendingAccountReady,
  mReady,
  awaited,      \* accounts the manager knew when it became ready
  ready,        \* entries that have emitted accountReady()
  setupReady,   \* times setupReady() was emitted
  calls, messages,        \* settings DefaultSimForCalls, DefaultSimForMessages
  mDefaultCallAccount,
  mDefaultMessagingAccount,
  toldActive    \* active accounts as QML last read them

network == <<valid, conn, conns, online, count>>
entry == <<entries, watched, heard, mVoicemailCount>>
setup == <<accountManager, mPendingAccountReady, mReady, awaited, ready, setupReady>>
defaults == <<calls, messages, mDefaultCallAccount, mDefaultMessagingAccount>>
accountsVars == <<network, signals, mAccounts, entry, events, setup, defaults, toldActive>>

Connection == UNION {{a} \X (1..MaxConns[a]) : a \in AllAccounts}

\* The type of the state (telepathyhelper.h:160-181, accountentry.h:136-140).
AccountsTypeOK ==
  /\ valid \in SUBSET AllAccounts /\ online \in SUBSET AllAccounts
  /\ conn \in [AllAccounts -> Nat] /\ conns \in [AllAccounts -> Nat]
  /\ \A a \in AllAccounts : conn[a] <= conns[a] /\ conns[a] <= MaxConns[a]
  /\ count \in [Sims -> 0..1] /\ mVoicemailCount \in [Sims -> 0..1]
  /\ signals \in [Sims -> Seq(0..1)]
  /\ accountManager \in {"pending", "ready", "failed"}
  /\ mAccounts \in SUBSET entries /\ entries \in SUBSET AllAccounts
  /\ events \in Seq([slot : {"onConnectionChanged"}, of : AllAccounts, conn : Nat]
                    \cup [slot : {"accountReady"}, of : AllAccounts])
  /\ watched \in SUBSET Connection /\ heard \in SUBSET Connection
  /\ mPendingAccountReady \in 0..Len(Order)
  /\ mReady \in BOOLEAN /\ setupReady \in 0..1 /\ ready \in SUBSET entries
  /\ awaited \in SUBSET AllAccounts
  /\ calls \in Settings /\ messages \in Settings
  /\ {mDefaultCallAccount, mDefaultMessagingAccount} \subseteq AllAccounts \cup {NoAccount}
  /\ toldActive \in SUBSET AllAccounts

\* Any accounts exist, on or off line, when the process starts.
AccountsInit ==
  /\ valid \in SUBSET AllAccounts
  /\ conn \in [AllAccounts -> 0..1] /\ \A a \in AllAccounts : conn[a] = 1 => a \in valid
  /\ conns = conn
  /\ online = {a \in AllAccounts : conn[a] = 1}
  /\ count \in [Sims -> 0..1] /\ mVoicemailCount = [a \in Sims |-> 0]
  /\ signals = [a \in Sims |-> <<>>]
  /\ accountManager = "pending"
  /\ mAccounts = {} /\ entries = {} /\ events = <<>> /\ watched = {} /\ heard = {}
  /\ mPendingAccountReady = 0 /\ mReady = FALSE /\ setupReady = 0
  /\ awaited = {} /\ ready = {}
  /\ calls \in Settings /\ messages \in Settings
  /\ mDefaultCallAccount = NoAccount /\ mDefaultMessagingAccount = NoAccount
  /\ toldActive = {}

\* active(): connected, and the own contact is not offline.
Active(a) == conn[a] # 0 /\ a \in online
activeAccounts == {a \in mAccounts : Active(a)}
-----------------------------------------------------------------------------
(* Default accounts *)

FirstAccount(S) ==
  LET s == Keep(Order, S)
  IN IF s = <<>> THEN NoAccount ELSE Head(s)

\* The first account whose modem has the name in the setting. A setting never
\* made is the empty string, which is the modem of every account but SIMs.
AccountOfSetting(s, accounts) ==
  FirstAccount({a \in accounts : \/ a = s
                                 \/ s = "unset" /\ a \notin Sims})

\* Calls prefer a VoIP account that is active at this moment.
DefaultForCalls(accounts, s) ==
  LET others == {a \in accounts \ Sims : Active(a)}
  IN IF others # {} THEN FirstAccount(others) ELSE AccountOfSetting(s, accounts)

\* onPhoneSettingsChanged() for both keys, after the accounts have changed.
RefreshDefaults ==
  /\ mDefaultMessagingAccount' = AccountOfSetting(messages, mAccounts')
  /\ mDefaultCallAccount' = DefaultForCalls(mAccounts', calls)
  /\ UNCHANGED <<calls, messages>>

\* onPhoneSettingsChanged() for one key.
SettingChanged ==
  \/ /\ calls' \in Settings \ {calls}
     /\ mDefaultCallAccount' = DefaultForCalls(mAccounts, calls')
     /\ UNCHANGED <<messages, mDefaultMessagingAccount, network, signals, mAccounts, entry,
                    events, setup, toldActive>>
  \/ /\ messages' \in Settings \ {messages}
     /\ mDefaultMessagingAccount' = AccountOfSetting(messages', mAccounts)
     /\ UNCHANGED <<calls, mDefaultCallAccount, network, signals, mAccounts, entry,
                    events, setup, toldActive>>
-----------------------------------------------------------------------------
(* Accounts come and go *)

\* Seeded bug: an account that is there already is set up at once.
initialize_Direct(a) == <<[slot |-> "accountReady", of |-> a]>>

\* AccountEntry::initialize(): what it leaves to the event loop.
initialize(a) ==
  <<[slot |-> "onConnectionChanged", of |-> a, conn |-> conn[a]],
    [slot |-> "accountReady", of |-> a]>>

\* The same for each of some accounts.
initializeAll(accounts) == FlattenSeq([i \in 1..Len(accounts) |-> initialize(accounts[i])])

\* onNewAccount() for some accounts: accountsChanged() makes the lists filter
\* again and QML read them.
onNewAccounts(new) ==
  /\ entries' = entries \cup new
  /\ mAccounts' = mAccounts \cup new
  /\ events' = events \o initializeAll(Keep(Order, new))
  /\ UNCHANGED <<network, signals, watched, heard, mVoicemailCount>>
  /\ toldActive' = activeAccounts'
  /\ RefreshDefaults

\* onAccountManagerReady()
onAccountManagerReady ==
  /\ accountManager = "pending"
  /\ \/ /\ accountManager' = "failed"
        /\ UNCHANGED <<mPendingAccountReady, mReady, awaited, ready, setupReady, network, signals,
                       mAccounts, entry, events, defaults, toldActive>>
     \/ /\ accountManager' = "ready"
        /\ onNewAccounts(valid)
        /\ mPendingAccountReady' = Cardinality(mAccounts')
        /\ mReady' = (valid = {})
        /\ setupReady' = IF valid = {} THEN setupReady + 1 ELSE setupReady
        /\ awaited' = valid
        /\ UNCHANGED ready

\* An account is added. TelepathyHelper hears of it once the manager is ready.
NewAccount(a) ==
  /\ a \notin valid \cup entries
  /\ valid' = valid \cup {a}
  /\ IF accountManager = "ready"
     THEN /\ entries' = entries \cup {a}
          /\ mAccounts' = mAccounts \cup {a}
          /\ events' = events \o initialize(a)
          /\ UNCHANGED <<conn, conns, online, count, signals, watched, heard, mVoicemailCount,
                         setup>>
          /\ toldActive' = activeAccounts'
          /\ RefreshDefaults
     ELSE UNCHANGED <<conn, conns, online, count, signals, mAccounts, entry, events, setup,
                      defaults, toldActive>>

\* Seeded bug: the default accounts are not looked up again.
onAccountRemoved_Stale(a) ==
  /\ a \in mAccounts /\ a \in valid
  /\ valid' = valid \ {a}
  /\ mAccounts' = mAccounts \ {a}
  /\ UNCHANGED <<conn, conns, online, count, signals, entry, events, setup, defaults>>
  /\ toldActive' = activeAccounts'

\* onAccountRemoved(): the entry itself is kept.
onAccountRemoved(a) ==
  /\ a \in valid
  /\ valid' = valid \ {a}
  /\ UNCHANGED <<conn, conns, online, count, signals, entry, events, setup>>
  /\ IF a \in mAccounts
     THEN /\ mAccounts' = mAccounts \ {a}
          /\ toldActive' = activeAccounts'
          /\ RefreshDefaults
     ELSE UNCHANGED <<mAccounts, toldActive, defaults>>

\* Seeded bug: an account that was removed meanwhile is not waited for.
onAccountReady_Removed(a) ==
  /\ ready' = ready \cup {a}
  /\ IF mReady \/ a \notin mAccounts
     THEN UNCHANGED <<mPendingAccountReady, mReady, setupReady>>
     ELSE /\ mPendingAccountReady' = mPendingAccountReady - 1
          /\ mReady' = (mPendingAccountReady = 1)
          /\ setupReady' = IF mPendingAccountReady = 1 THEN setupReady + 1 ELSE setupReady
  /\ UNCHANGED <<accountManager, awaited, network, signals, mAccounts, entry, defaults, toldActive>>

\* Seeded bug: the first account that is ready ends the set-up.
onAccountReady_First(a) ==
  /\ ready' = ready \cup {a}
  /\ mReady' = TRUE
  /\ setupReady' = IF mReady THEN setupReady ELSE setupReady + 1
  /\ UNCHANGED <<mPendingAccountReady, accountManager, awaited, network, signals, mAccounts, entry,
                 defaults, toldActive>>

\* onAccountReady(), called from the queue.
onAccountReady(a) ==
  /\ ready' = ready \cup {a}
  /\ IF mReady
     THEN UNCHANGED <<mPendingAccountReady, mReady, setupReady>>
     ELSE /\ mPendingAccountReady' = mPendingAccountReady - 1
          /\ mReady' = (mPendingAccountReady = 1)
          /\ setupReady' = IF mPendingAccountReady = 1 THEN setupReady + 1 ELSE setupReady
  /\ UNCHANGED <<accountManager, awaited, network, signals, mAccounts, entry, defaults, toldActive>>
-----------------------------------------------------------------------------
(* Connections *)

\* activeChanged() of an entry in the list makes QML read the active accounts.
activeChanged(a) == toldActive' = IF a \in mAccounts THEN activeAccounts' ELSE toldActive

\* Seeded bug: the count is only read the first time.
onConnectionChanged_Once(a, c) ==
  /\ watched' = IF c # 0 /\ conn'[a] # 0 THEN watched \cup {<<a, conn'[a]>>} ELSE watched
  /\ heard' = IF a \in Sims /\ c # 0 THEN heard \cup {<<a, c>>} ELSE heard
  /\ mVoicemailCount' = IF a \in Sims /\ c # 0 /\ c = conn'[a] /\ conns[a] = 1
                        THEN [mVoicemailCount EXCEPT ![a] = count[a]] ELSE mVoicemailCount
  /\ UNCHANGED <<entries, mAccounts>>
  /\ activeChanged(a)

\* onConnectionChanged(), of AccountEntry and of OfonoAccountEntry: the presence
\* of the connection the account has now is followed; a SIM's entry connects to
\* the signals of c, then asks c for the count, in vain if c is gone. When the
\* connection is lost, mConnectionInfo is cleared before it would be used to
\* disconnect, so the entry stays connected.
onConnectionChanged(a, c) ==
  /\ watched' = IF c # 0 /\ conn'[a] # 0 THEN watched \cup {<<a, conn'[a]>>} ELSE watched
  /\ heard' = IF a \in Sims /\ c # 0 THEN heard \cup {<<a, c>>} ELSE heard
  /\ mVoicemailCount' = IF a \in Sims /\ c # 0 /\ c = conn'[a]
                        THEN [mVoicemailCount EXCEPT ![a] = count[a]] ELSE mVoicemailCount
  /\ UNCHANGED <<entries, mAccounts>>
  /\ activeChanged(a)

\* The account gets a connection or loses it. The bus keeps the order: what the
\* last connection said was heard before.
ConnectionChanged(a) ==
  /\ a \in valid
  /\ a \in Sims => signals[a] = <<>>
  /\ \/ /\ conn[a] = 0 /\ conns[a] < MaxConns[a]
        /\ conns' = [conns EXCEPT ![a] = @ + 1]
        /\ conn' = [conn EXCEPT ![a] = conns'[a]]
        /\ online' = online \cup {a}
     \/ /\ conn[a] # 0
        /\ conn' = [conn EXCEPT ![a] = 0]
        /\ online' = online \ {a}
        /\ UNCHANGED conns
  /\ UNCHANGED <<valid, count, signals, setup, defaults, events>>
  /\ IF a \in entries THEN onConnectionChanged(a, conn'[a])
     ELSE UNCHANGED <<entry, mAccounts, toldActive>>

\* presenceChanged() of the own contact.
PresenceChanged(a) ==
  /\ conn[a] # 0
  /\ online' = IF a \in online THEN online \ {a} ELSE online \cup {a}
  /\ UNCHANGED <<valid, conn, conns, count, signals, mAccounts, entry, events, setup, defaults>>
  /\ IF <<a, conn[a]>> \in watched THEN activeChanged(a) ELSE UNCHANGED toldActive

\* The event loop runs the next queued call.
ProcessEvent ==
  /\ events # <<>>
  /\ events' = Tail(events)
  /\ LET e == Head(events)
     IN IF e.slot = "accountReady"
        THEN onAccountReady(e.of)
        ELSE /\ UNCHANGED <<network, signals, setup, defaults>>
             /\ onConnectionChanged(e.of, e.conn)

\* A voicemail arrives or is heard, the SIM being on line or not: the connection,
\* if there is one, says so to those that are connected to it.
VoicemailCount(a) ==
  /\ count' = [count EXCEPT ![a] = 1 - @]
  /\ IF <<a, conn[a]>> \in heard
     THEN /\ Len(signals[a]) < MaxSignals
          /\ signals' = [signals EXCEPT ![a] = Append(@, count'[a])]
     ELSE UNCHANGED signals
  /\ UNCHANGED <<valid, conn, conns, online, mAccounts, entry, events, setup, defaults, toldActive>>

\* onVoicemailCountChanged()
onVoicemailCountChanged(a) ==
  /\ signals[a] # <<>>
  /\ mVoicemailCount' = [mVoicemailCount EXCEPT ![a] = Head(signals[a])]
  /\ signals' = [signals EXCEPT ![a] = Tail(@)]
  /\ UNCHANGED <<network, mAccounts, entries, watched, heard, events, setup, defaults, toldActive>>
-----------------------------------------------------------------------------
AccountsNext ==
  \/ onAccountManagerReady \/ ProcessEvent \/ SettingChanged
  \/ \E a \in AllAccounts :
       NewAccount(a) \/ onAccountRemoved(a) \/ ConnectionChanged(a) \/ PresenceChanged(a)
  \/ \E a \in Sims : VoicemailCount(a) \/ onVoicemailCountChanged(a)

\* The event loop goes on; nothing else has to happen.
AccountsFairness == WF_accountsVars(ProcessEvent)

AccountsSpec == AccountsInit /\ [][AccountsNext]_accountsVars /\ AccountsFairness
-----------------------------------------------------------------------------
(* Properties *)

\* The process is told once that its accounts are set up, and not before every
\* account the manager knew at that time has announced itself, although
\* accounts are added and removed meanwhile and all count down the same
\* counter (telepathyhelper.cpp:501-550).
SetupIsComplete ==
  /\ setupReady = (IF mReady THEN 1 ELSE 0)
  /\ mReady => awaited \subseteq ready

\* The set-up ends whatever happens to the accounts before they are ready.
SetupEnds == accountManager = "ready" ~> setupReady = 1

\* A default account is one the process still has, and the one for messages is
\* the one the setting names, after accounts and settings changed in any order
\* (telepathyhelper.cpp:455-499 and 605-663). The default for
\* calls may be a VoIP account that went off line since.
DefaultsAreKnown ==
  /\ mDefaultCallAccount \in mAccounts \cup {NoAccount}
  /\ mDefaultMessagingAccount = AccountOfSetting(messages, mAccounts)
  /\ mDefaultCallAccount # NoAccount =>
       \/ mDefaultCallAccount \notin Sims
       \/ mDefaultCallAccount = calls

\* QML knows which accounts are active once the queued calls have run, even if
\* the connection or the presence changed before the entry followed them
\* (accountentry.cpp:212-271 and 305-324).
ActiveIsTold == events = <<>> => toldActive = activeAccounts

\* The voicemail count of a SIM whose connection the entry listens to is the one
\* the network has when no signal is under way, though the count changed while
\* the SIM was off line and nobody said so (ofonoaccountentry.cpp:171-272).
VoicemailIsKnown ==
  \A a \in Sims : <<a, conn[a]>> \in heard /\ signals[a] = <<>> =>
                     mVoicemailCount[a] = count[a]

\* "disconnect any previous dbus connections" (ofonoaccountentry.cpp:178): a SIM
\* without a connection is not connected to the signals of the last one.
OldConnectionIsLeft ==
  events = <<>> => \A a \in Sims \cap entries : conn[a] = 0 =>
                     ~ \E c \in 1..MaxConns[a] : <<a, c>> \in heard
=============================================================================
