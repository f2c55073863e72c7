------------------------------- MODULE Dialogs -------------------------------
(***************************************************************************)
(* The dialogs of the indicator: those of the USSD sessions of the SIM     *)
(* cards (src/indicator/ussdindicator.cpp, behind one USSDManager for each *)
(* card) and those of accounts that could not log in (authhandler.cpp).    *)
(*                                                                         *)
(* They hang on one notification daemon.  The call that opens a dialog     *)
(* blocks the indicator until the daemon has named it; the one that closes *)
(* a dialog does not; and the daemon tells every listener of the process   *)
(* of each dialog that was answered or closed.                             *)
(***************************************************************************)
EXTENDS Integers, Sequences, SequencesExt, Functions

CONSTANTS
  Cards,       \* SIM cards
  Logins,      \* accounts that log in
  MaxDialogs   \* bound: dialogs opened

ASSUME DialogsAssumption == Cards \cap Logins = {} /\ MaxDialogs \in Nat

VARIABLES
  mState,               \* of each USSDManager
  m_notificationId,
  mUSSDRequests,        \* dialog -> the card it is of
  m_response,           \* the dialog in which the text of m_menuRequest was typed, or 0
  mAuthFailureRequests, \* dialog -> the account it is about
  mIgnoredAccounts,
  dialog,               \* the daemon: a record for each call of Notify()
  closing,              \* CloseNotification() calls on their way
  answers               \* ActionInvoked and NotificationClosed on their way

ussd == <<m_notificationId, mUSSDRequests, m_response>>
auth == <<mAuthFailureRequests, mIgnoredAccounts>>
daemon == <<dialog, closing, answers>>
dialogsVars == <<mState, ussd, auth, daemon>>

State == {"idle", "active", "user-response"}
Opening == {"NotificationReceived", "RequestReceived", "InitiateUSSDComplete", "RespondComplete"}
Keys == {"ok_id", "reply_id", "cancel_id", "yes_id", "no_id"}
NoDialog == -1
Ids == 1..MaxDialogs

\* The type of the state (ussdindicator.h:55-61, ussdmanager.h, authhandler.h).
DialogsTypeOK ==
  /\ mState \in [Cards -> State]
  /\ m_notificationId \in Ids \cup {0, NoDialog}
  /\ DOMAIN mUSSDRequests \subseteq Ids \cup {0} /\ Range(mUSSDRequests) \subseteq Cards
  /\ m_response \in Ids \cup {0}
  /\ DOMAIN mAuthFailureRequests \subseteq Ids \cup {0} /\ Range(mAuthFailureRequests) \subseteq Logins
  /\ mIgnoredAccounts \subseteq Logins
  /\ dialog \in Seq([kind : {"request", "notification", "login"}, of : Cards \cup Logins, open : BOOLEAN])
  /\ Len(dialog) <= MaxDialogs /\ closing \subseteq Ids
  /\ answers \in Seq([id : Ids, key : Keys \cup {"closed"}])

DialogsInit ==
  /\ mState = [s \in Cards |-> "idle"]
  /\ m_notificationId = NoDialog /\ mUSSDRequests = <<>> /\ m_response = 0
  /\ mAuthFailureRequests = <<>> /\ mIgnoredAccounts = {}
  /\ dialog = <<>> /\ closing = {} /\ answers = <<>>

Put(f, id, x) == [i \in DOMAIN f \cup {id} |-> IF i = id THEN x ELSE f[i]]
Without(f, id) == Restrict(f, DOMAIN f \ {id})
-----------------------------------------------------------------------------
(* The daemon *)

\* The dialogs once the daemon has closed those of C, and what it tells of that.
Shut(C) == [id \in DOMAIN dialog |-> [dialog[id] EXCEPT !.open = @ /\ id \notin C]]
Told(C) == answers \o SetToSeq({[id |-> i, key |-> "closed"] : i \in {c \in C : dialog[c].open}})

\* Notify() waits for an answer, so the calls sent before it were served first.
\* The id it answers with is 0 if it failed.
Notify(kind, a, served) ==
  /\ Len(dialog) < MaxDialogs
  /\ dialog' = Append(Shut(closing), [kind |-> kind, of |-> a, open |-> served])
  /\ answers' = Told(closing)
  /\ closing' = {}

NotifyId(served) == IF served THEN Len(dialog) + 1 ELSE 0

\* CloseNotification() is served.
CloseNotification(id) ==
  /\ id \in closing
  /\ closing' = closing \ {id}
  /\ dialog' = Shut({id}) /\ answers' = Told({id})
  /\ UNCHANGED <<mState, ussd, auth>>

KeysOf(kind) == CASE kind = "request" -> {"reply_id", "cancel_id"}
                  [] kind = "notification" -> {"ok_id", "cancel_id"}
                  [] kind = "login" -> {"yes_id", "no_id"}

\* The user presses a key, which closes the dialog, or sends it away.
Answered(id) ==
  /\ id \in DOMAIN dialog /\ dialog[id].open
  /\ dialog' = [dialog EXCEPT ![id].open = FALSE]
  /\ \/ \E key \in KeysOf(dialog[id].kind) :
          answers' = answers \o <<[id |-> id, key |-> key], [id |-> id, key |-> "closed"]>>
     \/ answers' = Append(answers, [id |-> id, key |-> "closed"])
  /\ UNCHANGED <<mState, ussd, auth, closing>>

\* He types into a dialog that has a text field (responseChangedCallback()).
Typed(id) ==
  /\ id \in DOMAIN dialog /\ dialog[id].open /\ dialog[id].kind = "request"
  /\ m_response' = id
  /\ UNCHANGED <<mState, m_notificationId, mUSSDRequests, auth, daemon>>
-----------------------------------------------------------------------------
(* USSD *)

\* onConnectionChanged(): without a connection the state stays; of a new one it is
\* read before connectAllSignals() has reached the bus, so it may be stale.
onConnectionChanged(s) ==
  /\ \E state \in State : mState' = [mState EXCEPT ![s] = state]
  /\ UNCHANGED <<ussd, auth, daemon>>

\* A reply is asked for by a request, and by an answer in the state "user-response".
replyRequired(s, signal) ==
  \/ signal = "RequestReceived"
  \/ signal \in {"InitiateUSSDComplete", "RespondComplete"} /\ mState[s] = "user-response"

\* showUSSDNotification(), from the four signals that bring a message; a
\* respondComplete() that reports a failure shows nothing.
showUSSDNotification(s, signal, served) ==
  /\ Notify(IF replyRequired(s, signal) THEN "request" ELSE "notification", s, served)
  /\ m_notificationId' = NotifyId(served)
  /\ mUSSDRequests' = Put(mUSSDRequests, NotifyId(served), s)
  /\ UNCHANGED <<mState, m_response, auth>>

\* onStateChanged() of the manager and of the indicator: any card that becomes
\* idle closes the last dialog, whose id and request stay until it is closed.
onStateChanged(s, state) ==
  /\ mState' = [mState EXCEPT ![s] = state]
  /\ closing' = IF state = "idle" /\ m_notificationId \in DOMAIN dialog THEN closing \cup {m_notificationId}
                ELSE closing
  /\ UNCHANGED <<ussd, auth, dialog, answers>>

\* USSDIndicator::actionInvoked(): the card of the last dialog is answered, or its
\* session cancelled, and the text forgotten.
USSDAction(id) ==
  IF id # m_notificationId \/ id \notin DOMAIN mUSSDRequests THEN UNCHANGED ussd
  ELSE m_notificationId' = NoDialog /\ mUSSDRequests' = Without(mUSSDRequests, id) /\ m_response' = 0

\* Seeded bug: the end of any dialog is taken for that of the last one.
notificationClosed_Any(id) ==
  /\ m_notificationId' = NoDialog
  /\ UNCHANGED <<mUSSDRequests, m_response>>

\* USSDIndicator::notificationClosed()
notificationClosed(id) ==
  /\ m_notificationId' = IF id = m_notificationId THEN NoDialog ELSE m_notificationId
  /\ UNCHANGED <<mUSSDRequests, m_response>>
-----------------------------------------------------------------------------
(* Authentication *)

\* processStatusChange() of an account that is disconnected because it could not
\* log in.
AuthenticationFailed(a) ==
  /\ a \notin mIgnoredAccounts
  /\ \E served \in BOOLEAN :
       /\ Notify("login", a, served)
       /\ mAuthFailureRequests' = Put(mAuthFailureRequests, NotifyId(served), a)
  /\ UNCHANGED <<mState, ussd, mIgnoredAccounts>>

\* AuthHandler::actionInvoked()
AuthAction(id, key) ==
  /\ mIgnoredAccounts' = IF id \in DOMAIN mAuthFailureRequests /\ key # "yes_id"
                         THEN mIgnoredAccounts \cup {mAuthFailureRequests[id]}
                         ELSE mIgnoredAccounts
  /\ UNCHANGED <<mAuthFailureRequests, closing>>

\* AuthHandler::notificationClosed(), which closes it once more.
AuthClosed(id) ==
  /\ mAuthFailureRequests' = Without(mAuthFailureRequests, id)
  /\ closing' = IF id \in DOMAIN mAuthFailureRequests THEN closing \cup {id} ELSE closing
  /\ UNCHANGED mIgnoredAccounts
-----------------------------------------------------------------------------
(* Both *)

\* What the daemon tells reaches both, who look at the id.
Heard ==
  /\ answers # <<>>
  /\ answers' = Tail(answers)
  /\ LET id == Head(answers).id
         key == Head(answers).key
     IN IF key = "closed" THEN notificationClosed(id) /\ AuthClosed(id)
        ELSE USSDAction(id) /\ AuthAction(id, key)
  /\ UNCHANGED <<mState, dialog>>

\* ClearNotifications on the bus: clear() of both. Id 0 names no dialog.
clear ==
  /\ m_notificationId # NoDialog \/ mAuthFailureRequests # <<>>
  /\ closing' = closing \cup (({m_notificationId} \cup DOMAIN mAuthFailureRequests) \cap DOMAIN dialog)
  /\ mUSSDRequests' = Without(mUSSDRequests, m_notificationId)
  /\ m_notificationId' = NoDialog
  /\ mAuthFailureRequests' = <<>>
  /\ UNCHANGED <<mState, m_response, mIgnoredAccounts, dialog, answers>>
-----------------------------------------------------------------------------
DialogsNext ==
  \/ Heard \/ clear
  \/ \E s \in Cards : onConnectionChanged(s)
  \/ \E s \in Cards, state \in State : onStateChanged(s, state)
  \/ \E s \in Cards, signal \in Opening, served \in BOOLEAN : showUSSDNotification(s, signal, served)
  \/ \E a \in Logins : AuthenticationFailed(a)
  \/ \E id \in Ids : CloseNotification(id) \/ Answered(id) \/ Typed(id)

DialogsSpec == DialogsInit /\ [][DialogsNext]_dialogsVars
-----------------------------------------------------------------------------
(* Properties *)

\* No USSD dialog was opened, or failed to, after this one.
Newest(id) == \A i \in DOMAIN dialog : i > id => dialog[i].kind = "login"

\* Pressing a key of a dialog that is on the screen, and that nobody has asked to
\* close, has its effect for the card or the account the dialog is of, whatever
\* happened to the other dialogs: each about an account, and of those about the
\* cards the last one (ussdindicator.cpp:138-187, authhandler.cpp:114-146).
DialogsWork ==
  \A id \in DOMAIN dialog : dialog[id].open /\ id \notin closing =>
    IF dialog[id].kind = "login"
    THEN id \in DOMAIN mAuthFailureRequests /\ mAuthFailureRequests[id] = dialog[id].of
    ELSE Newest(id) => /\ m_notificationId = id
                       /\ id \in DOMAIN mUSSDRequests /\ mUSSDRequests[id] = dialog[id].of

\* The text that is sent to a card was typed in the dialog that is answered. It
\* does not hold: a dialog that is closed leaves its text (ussdindicator.cpp:169-187),
\* and every request has the same text field (line 114).
RepliesAreOwn ==
  [][\A id \in Ids : answers # <<>> /\ Head(answers) = [id |-> id, key |-> "reply_id"]
       /\ answers' = Tail(answers) /\ id = m_notificationId => m_response \in {0, id}]_dialogsVars
=============================================================================
