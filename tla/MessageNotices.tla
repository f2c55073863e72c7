--------------------------- MODULE MessageNotices ---------------------------
(***************************************************************************)
(* New messages as the indicator shows them. TextChannelObserver waits     *)
(* 1.5 seconds for another client to read the message, looks up the        *)
(* contact, and shows a notification; MessagingMenu looks the contact up   *)
(* again and adds an item, from which the user may open the message or     *)
(* reply to it. Reading a message anywhere takes it off the channel's      *)
(* queue and must take the item away.                                      *)
(***************************************************************************)
EXTENDS Naturals, FiniteSets

CONSTANTS
  Messages,    \* messages that arrive
  Flash,       \* class 0 messages: they come on channels of their own
  Quiet,       \* scrollback, delivery reports, rescued or own messages, rooms without a mention
  Direct,      \* messages on accounts without phone numbers: no contact is looked up
  Anonymous,   \* messages that may come without a sender
  Groups,      \* group chats the user is added to
  MaxEvents    \* bound on opened items, replies and new groups

ASSUME MessagesAssumption ==
  /\ Flash \subseteq Messages /\ Quiet \subseteq Messages /\ Direct \subseteq Messages
  /\ Anonymous \subseteq Messages \ Flash   \* the code uses the sender of a class 0 message
  /\ Groups \cap Messages = {}
  /\ MaxEvents \in Nat

VARIABLES
  inbox,            \* the message of the network: "none", "pending" on its channel's queue, "read"
  channel,          \* channel of each message: "new", "observed", "closed"
  mUnreadMessages,  \* TextChannelObserver: messages that were not read yet
  timers,           \* messages whose 1.5 seconds run
  fetches,          \* contact requests of triggerNotificationForMessage()
  mNotifications,   \* notifications on the screen: [kind, message]
  mMessages,        \* MessagingMenu: messages it has data for
  menuFetches,      \* contact requests of MessagingMenu::addMessage()
  menu,             \* items on the screen
  account,          \* "connected", "offline" or "removed"
  events,           \* used up of MaxEvents
  greeter,          \* the indicator runs in the greeter: never changes
  unsigned          \* the messages that came without a sender: never changes

vars == <<greeter, unsigned, inbox, channel, mUnreadMessages, timers, fetches, mNotifications,
          mMessages, menuFetches, menu, account, events>>
menuVars == <<mMessages, menuFetches, menu>>
waits == <<timers, fetches>>
mode == <<greeter, unsigned>>
idle == <<events, mode>>

Kinds == {"message", "flash", "failed", "sim", "group"}

Init ==
  /\ inbox = [m \in Messages |-> "none"]
  /\ channel = [m \in Messages |-> "new"]
  /\ mUnreadMessages = {}
  /\ timers = {}
  /\ fetches = {}
  /\ mNotifications = {}
  /\ mMessages = {}
  /\ menuFetches = {}
  /\ menu = {}
  /\ account = "connected"
  /\ events = 0
  /\ greeter \in BOOLEAN
  /\ unsigned \in SUBSET Anonymous

Notice(kind, m) == [kind |-> kind, message |-> m]

-----------------------------------------------------------------------------
(* MessagingMenu.                                                           *)

(* addFlashMessage(): no contact is looked up.                              *)
AddFlashMessages(ms) ==
  /\ mMessages' = mMessages \cup ms
  /\ menu' = menu \cup ms
  /\ UNCHANGED menuFetches

(* addMessage(): the item waits for the contact, unless none is looked up.  *)
AddMessage(m) ==
  IF account = "removed"
    THEN UNCHANGED menuVars
    ELSE /\ mMessages' = mMessages \cup {m}
         /\ IF m \in Direct THEN menu' = menu \cup {m} /\ UNCHANGED menuFetches
                            ELSE menuFetches' = menuFetches \cup {m} /\ UNCHANGED menu

\* Seeded bug: the item is added although the message was removed meanwhile.
StillThere_Always(m) == TRUE

\* Seeded bug: the check is the wrong way around.
StillThere_Inverted(m) == m \notin mMessages

(* The ack may come before the contact does.                                *)
StillThere(m) == m \in mMessages

MenuContactFetched(m) ==
  /\ m \in menuFetches
  /\ menuFetches' = menuFetches \ {m}
  /\ menu' = IF StillThere(m) THEN menu \cup {m} ELSE menu
  /\ UNCHANGED <<inbox, channel, mUnreadMessages, waits, mNotifications, mMessages, account, idle>>

(* removeMessage().                                                         *)
RemoveMessage(m) ==
  /\ mMessages' = mMessages \ {m}
  /\ menu' = menu \ {m}

-----------------------------------------------------------------------------
(* TextChannelObserver: a message comes in.                                 *)

(* The screen and the menu get a class 0 message at once.                   *)
ShowFlash(ms) ==
  /\ mNotifications' = mNotifications \cup {Notice("flash", m) : m \in ms}
  /\ AddFlashMessages(ms)

(* processMessageReceived(): a message worth a notice starts its timer.     *)
Process(ms) ==
  LET noisy == IF account = "connected" THEN ms \ Quiet ELSE {} IN
  /\ mUnreadMessages' = mUnreadMessages \cup noisy
  /\ timers' = timers \cup noisy

(* The messages already on the queue are processed when the channel is      *)
(* seen; all of a flash channel's are shown, quiet or not.                  *)
TextChannelAvailable(m) ==
  /\ channel[m] = "new"
  /\ channel' = [channel EXCEPT ![m] = "observed"]
  /\ LET ms == {x \in {m} : inbox[x] = "pending"} IN
     IF m \in Flash
       THEN /\ IF account = "connected" THEN ShowFlash(ms) ELSE UNCHANGED <<mNotifications, menuVars>>
            /\ UNCHANGED <<mUnreadMessages, timers>>
       ELSE Process(ms) /\ UNCHANGED <<mNotifications, menuVars>>
  /\ UNCHANGED <<inbox, fetches, account, idle>>

(* The network delivers a message, before or after its channel is seen.     *)
MessageReceived(m) ==
  /\ inbox[m] = "none"
  /\ channel[m] # "closed"
  /\ inbox' = [inbox EXCEPT ![m] = "pending"]
  /\ CASE channel[m] = "new" ->
            UNCHANGED <<mUnreadMessages, timers, mNotifications, menuVars>>
       [] m \in Flash /\ channel[m] = "observed" ->
            /\ IF m \notin Quiet /\ account = "connected"
                 THEN ShowFlash({m}) ELSE UNCHANGED <<mNotifications, menuVars>>
            /\ UNCHANGED <<mUnreadMessages, timers>>
       [] OTHER -> Process({m}) /\ UNCHANGED <<mNotifications, menuVars>>
  /\ UNCHANGED <<channel, fetches, account, idle>>

(* Some client read the message: onPendingMessageRemoved().                 *)
PendingMessageRemoved(m) ==
  /\ inbox[m] = "pending"
  /\ inbox' = [inbox EXCEPT ![m] = "read"]
  /\ IF channel[m] = "observed"
       THEN mUnreadMessages' = mUnreadMessages \ {m} /\ RemoveMessage(m)
       ELSE UNCHANGED <<mUnreadMessages, mMessages, menu>>
  /\ UNCHANGED <<channel, waits, mNotifications, menuFetches, account, idle>>

TextChannelInvalidated(m) ==
  /\ channel[m] = "observed"
  /\ channel' = [channel EXCEPT ![m] = "closed"]
  /\ UNCHANGED <<inbox, mUnreadMessages, waits, mNotifications, menuVars, account, idle>>

-----------------------------------------------------------------------------
\* Seeded bug: the check of triggerNotificationForMessage() is thought enough.
ToShow_Always(m) == TRUE

(* showNotificationForMessage(): outside the greeter a message read in the  *)
(* meantime only makes a sound.                                             *)
ToShow(m) == m \in mUnreadMessages \/ greeter

ShowMessage(m) ==
  IF ToShow(m)
    THEN AddMessage(m) /\ mNotifications' = mNotifications \cup {Notice("message", m)}
    ELSE UNCHANGED <<menuVars, mNotifications>>

(* triggerNotificationForMessage(): in the greeter the notification is      *)
(* shown at once, otherwise the contact is looked up where there is one.    *)
LooksUp(m) == ~greeter /\ m \notin Direct

(* A message without a sender is dropped before anything else is looked at. *)
TimerTimeout(m) ==
  /\ m \in timers
  /\ timers' = timers \ {m}
  /\ IF m \in unsigned \/ m \notin mUnreadMessages \/ (account = "removed" /\ ~greeter)
       THEN UNCHANGED <<fetches, menuVars, mNotifications>>
       ELSE IF LooksUp(m)
         THEN fetches' = fetches \cup {m} /\ UNCHANGED <<menuVars, mNotifications>>
         ELSE ShowMessage(m) /\ UNCHANGED fetches
  /\ UNCHANGED <<inbox, channel, mUnreadMessages, account, idle>>

ContactFetched(m) ==
  /\ m \in fetches
  /\ fetches' = fetches \ {m}
  /\ ShowMessage(m)
  /\ UNCHANGED <<inbox, channel, mUnreadMessages, timers, account, idle>>

(* The history tells of a group somebody added the user to.                 *)
NewGroup(g) ==
  /\ g \notin mMessages
  /\ events < MaxEvents
  /\ events' = events + 1
  /\ mNotifications' = mNotifications \cup {Notice("group", g)}
  /\ IF account = "removed" THEN UNCHANGED menuVars ELSE AddFlashMessages({g})
  /\ UNCHANGED <<inbox, channel, mUnreadMessages, waits, account, mode>>

-----------------------------------------------------------------------------
(* The user.                                                                *)

(* sendMessage(): a reply that cannot be sent leads to a notification. An   *)
(* account that is gone is replaced by an active one, if there is one.      *)
SendMessage(shown, m) ==
  mNotifications' = IF account = "offline" THEN shown \cup {Notice("failed", m)} ELSE shown

(* The menu drops the item the user touches. Opening it changes nothing     *)
(* more; a reply is sent, or held back until a SIM card is chosen when      *)
(* there are several and no default. sendMessageReply() also reports the    *)
(* message as read, by an id that matches no message: nothing is read.      *)
ActivateItem(m) ==
  /\ m \in menu
  /\ events < MaxEvents
  /\ events' = events + 1
  /\ menu' = menu \ {m}
  /\ \/ UNCHANGED mNotifications
     \/ /\ m \notin Flash
        /\ account # "removed"
        /\ \/ SendMessage(mNotifications, m)
           \/ mNotifications' = mNotifications \cup {Notice("sim", m)}
  /\ UNCHANGED <<inbox, channel, mUnreadMessages, waits, mMessages, menuFetches, account, mode>>

(* sim_selection_action(): the reply is sent.                               *)
SelectSim(m) ==
  /\ Notice("sim", m) \in mNotifications
  /\ SendMessage(mNotifications \ {Notice("sim", m)}, m)
  /\ UNCHANGED <<inbox, channel, mUnreadMessages, waits, menuVars, account, idle>>

(* A notification is opened, saved, dismissed, or closed because            *)
(* ClearNotifications() asked for it. (The button of a "group" one uses a   *)
(* list that was never set: the indicator does not survive it.)             *)
NotificationClosed(n) ==
  /\ mNotifications' = mNotifications \ {n}
  /\ UNCHANGED <<inbox, channel, mUnreadMessages, waits, menuVars, account, idle>>

(* The account goes offline or online, or is removed for good.              *)
AccountChanged ==
  /\ account # "removed"
  /\ account' \in {"connected", "offline", "removed"} \ {account}
  /\ UNCHANGED <<inbox, channel, mUnreadMessages, waits, mNotifications, menuVars, idle>>

-----------------------------------------------------------------------------
Next ==
  \/ \E m \in Messages : \/ TextChannelAvailable(m) \/ TextChannelInvalidated(m)
                         \/ MessageReceived(m) \/ PendingMessageRemoved(m)
                         \/ TimerTimeout(m) \/ ContactFetched(m) \/ MenuContactFetched(m)
  \/ \E g \in Groups : NewGroup(g)
  \/ \E m \in Messages \cup Groups : ActivateItem(m) \/ SelectSim(m)
  \/ \E n \in mNotifications : NotificationClosed(n)
  \/ AccountChanged

(* The event loop runs every timer that is due, and the contacts service    *)
(* answers every request.                                                   *)
Fairness ==
  \A m \in Messages : /\ WF_vars(TimerTimeout(m))
                      /\ WF_vars(ContactFetched(m))
                      /\ WF_vars(MenuContactFetched(m))

Spec == Init /\ [][Next]_vars /\ Fairness

-----------------------------------------------------------------------------
(* Every variable has its type, a contact is looked up only where there is  *)
(* one, and for the menu only after it was for the notification.            *)
TypeOK ==
  /\ inbox \in [Messages -> {"none", "pending", "read"}]
  /\ channel \in [Messages -> {"new", "observed", "closed"}]
  /\ mUnreadMessages \subseteq Messages \ (Quiet \cup Flash)
  /\ timers \subseteq Messages
  /\ fetches \subseteq Messages \ Direct
  /\ timers \cap fetches = {}
  /\ \A n \in mNotifications : n.kind \in Kinds /\ n.message \in Messages \cup Groups
  /\ mMessages \subseteq Messages \cup Groups
  /\ menuFetches \subseteq Messages \ Direct
  /\ menuFetches \cap (timers \cup fetches) = {}
  /\ menu \subseteq Messages \cup Groups
  /\ account \in {"connected", "offline", "removed"}
  /\ events \in 0 .. MaxEvents
  /\ greeter \in BOOLEAN
  /\ unsigned \subseteq Anonymous

(* A message that was read is not in the menu, although a timer and two     *)
(* contact requests lie between its arrival and its item, and what is in    *)
(* the menu has data: showMessage() and sendMessageReply() would otherwise  *)
(* make up an empty entry.                                                  *)
ReadLeavesMenu ==
  \A m \in menu : /\ m \in mMessages
                  /\ m \in Messages /\ channel[m] = "observed" => inbox[m] = "pending"

(* The user is not told of a message that was read while its timer or the   *)
(* contact request ran.                                                     *)
NotifiedWasUnread ==
  [][\A m \in Messages : /\ Notice("message", m) \in mNotifications' \ mNotifications
                         /\ channel[m] = "observed"
                         => inbox[m] = "pending"]_vars

(* A message whose timer runs gets its item, unless it is read or its       *)
(* account is removed first, or it has no sender: then the code gives up    *)
(* ("if (!contact) return;", textchannelobserver.cpp:396-399) and the user  *)
(* hears nothing of it. No other early return of the callbacks drops one.   *)
UnreadIsAnnounced ==
  \A m \in Messages :
    m \in timers \ unsigned ~> (m \in menu \/ inbox[m] = "read" \/ account = "removed")
=============================================================================
