----------------------------- MODULE MCContacts -----------------------------
(***************************************************************************)
(* The two ways in which a process learns whose number it is, checked side *)
(* by side: from AccountsService (Greeter) and from the address book       *)
(* (ContactWatcher).  They share no state, and neither do the contacts and *)
(* the settings of AccountsService but for the active user: a behaviour is *)
(* about one of the three.                                                 *)
(***************************************************************************)
EXTENDS Greeter, ContactWatcher, TLC

CONSTANTS u1, u2, alice, n1, n2, a, aSip, b, x, y

VARIABLE subject

mcUserList == <<u1, u2>>
mcNumberOf == (alice :> n1)
mcNormalized == (a :> a) @@ (aSip :> a) @@ (b :> b)

\* No errors, and a user of the system in front.
AllIsWell ==
    /\ \A i \in DOMAIN mail : mail[i].kind # "error"
    /\ \A i \in DOMAIN listMail : listMail[i] \notin {"error", Nobody}
    /\ entry # Nobody

mcInit ==
    /\ subject \in {"settings", "contacts", "watcher"}
    /\ Init /\ WatcherInit
    /\ greeterMode => entry \in {u1, Nobody} /\ info[u2] = None
    /\ subject = "settings" => info[u1] = None /\ AllIsWell
    /\ subject = "contacts" => greeterMode
    /\ subject = "watcher" => ~greeterMode
    /\ subject # "watcher" => book = [c \in Cards |-> Absent]

mcNext ==
    /\ UNCHANGED subject
    /\ \/ /\ subject = "settings" /\ Next /\ UNCHANGED <<info, mFilter, watcherVars>>
          /\ AllIsWell'
       \/ subject = "contacts" /\ Next /\ UNCHANGED <<value, commands, watcherVars>>
       \/ subject = "watcher" /\ WatcherNext /\ UNCHANGED vars

mcSpec ==
    /\ mcInit
    /\ [][mcNext]_<<vars, watcherVars, subject>>
    /\ WF_vars(Worker)
=============================================================================
