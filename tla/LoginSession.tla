----------------------------- MODULE LoginSession -----------------------------
(* The login screen, the root of the app.  A login reads the account and then  *)
(* its counts, each in the callback of a snapshot listener that the callback   *)
(* of the one before it has added; the innermost presents the dashboard.  No   *)
(* listener is ever removed: each goes on being called when its data changes,  *)
(* during the session and after it, and each call adds the next level again.   *)
EXTENDS Naturals, Sequences

CONSTANTS
    Users,          \* the accounts used on this device
    RoleOf,         \* the type in each account's users document
    MaxLogins,      \* bound: taps of the login button
    MaxChanges,     \* bound: calls of listeners beyond the first of each
    None            \* nothing read yet, nothing presented

Roles == {"tenants", "management", "maintenance"}

Field == {"address", "requestCount", "workOrderCount", "messageCount", "announcementCount"}

(* What prepare hands to a dashboard: whose it is, and whose each value is. *)
Dashboard == [account : Users, fields : [Field -> Users \union {None}]]

LoginAssumption ==
    /\ RoleOf \in [Users -> Roles]
    /\ MaxLogins \in Nat
    /\ None \notin Users \union Dashboard

ASSUME LoginAssumption

(* What the nested listeners of each role read, from the outermost in.  With   *)
(* workOrderCount comes the Maintenance object, assigned beside it.            *)
Reads(role) ==
    CASE role = "tenants" ->
            <<"address", "workOrderCount", "messageCount", "announcementCount">>
      [] role = "management" -> <<"requestCount", "workOrderCount", "messageCount">>
      [] role = "maintenance" -> <<"workOrderCount">>

Level == 1 .. 4

(* One call of authUser: it signs in, reads the account's two documents, and   *)
(* adds the first listener.  An error on the way is only printed.              *)
Login == [user : Users, step : {"signIn", "reading", "done"}, failed : BOOLEAN]

(* The listeners one login has added at one level: those not called yet, and    *)
(* whether any that was called is alive.  They all listen to the same query.   *)
Added == [fresh : Nat, live : BOOLEAN]

VARIABLES
    logins,         \* the calls of authUser, in order
    listeners,      \* the snapshot listeners of each login and level
    account,        \* uid, uType and name of the login screen
    fields,         \* the accounts whose data its other variables hold
    presented,      \* what is presented over the login screen
    shown,          \* what prepare gave the presented dashboard
    asked,          \* history: a login was tapped since the last sign-out
    mixed,          \* history: an account was read beside another's listeners
    changes

loginVars == <<logins, listeners, account, fields, presented, shown, asked, mixed, changes>>

LoginTypeOK ==
    /\ logins \in Seq(Login)
    /\ listeners \in [1 .. MaxLogins -> [Level -> Added]]
    /\ account \in Users \union {None}
    /\ fields \in [Field -> Users \union {None}]
    /\ presented \in {"none", "alert", "dashboard"}
    /\ shown \in Dashboard \union {None}
    /\ shown = None <=> presented # "dashboard"
    /\ asked \in BOOLEAN
    /\ mixed \in BOOLEAN
    /\ changes \in Nat

LoginInit ==
    /\ logins = <<>>
    /\ listeners = [i \in 1 .. MaxLogins |-> [l \in Level |-> [fresh |-> 0, live |-> FALSE]]]
    /\ account = None
    /\ fields = [f \in Field |-> None]
    /\ presented = "none"
    /\ shown = None
    /\ asked = FALSE
    /\ mixed = FALSE
    /\ changes = 0

sessionVars == <<account, fields, mixed, listeners>>

(* The login screen presents one thing at a time; a second is dropped. *)
Alert ==
    /\ presented' = IF presented = "none" THEN "alert" ELSE presented
    /\ UNCHANGED shown

(* loginButtonTapped; the button is not disabled while a login is on its way. *)
LoginButtonTapped(u) ==
    /\ presented = "none"
    /\ Len(logins) < MaxLogins
    /\ logins' = Append(logins, [user |-> u, step |-> "signIn", failed |-> FALSE])
    /\ asked' = TRUE
    /\ UNCHANGED <<sessionVars, presented, shown, changes>>

TappedWithEmptyFields ==
    /\ presented = "none"
    /\ Alert
    /\ UNCHANGED <<sessionVars, logins, asked, changes>>

AlertDismissed ==
    /\ presented = "alert"
    /\ presented' = "none"
    /\ UNCHANGED <<sessionVars, logins, shown, asked, changes>>

(* authUser: the answers of Auth and of the two documents of the account.      *)
SignInRefused(i) ==
    /\ logins[i].step = "signIn"
    /\ logins' = [logins EXCEPT ![i].step = "done", ![i].failed = TRUE]
    /\ Alert
    /\ UNCHANGED <<sessionVars, asked, changes>>

SignedIn(i) ==
    /\ logins[i].step = "signIn"
    /\ logins' = [logins EXCEPT ![i].step = "reading"]
    /\ UNCHANGED <<sessionVars, presented, shown, asked, changes>>

ReadFailed(i) ==
    /\ logins[i].step = "reading"
    /\ logins' = [logins EXCEPT ![i].step = "done", ![i].failed = TRUE]
    /\ UNCHANGED <<sessionVars, presented, shown, asked, changes>>

(* The listeners that may still be called. *)
Listening(i, l) == listeners[i][l].fresh > 0 \/ listeners[i][l].live

AnotherListens(u) ==
    \E i \in DOMAIN logins, l \in Level : logins[i].user # u /\ Listening(i, l)

DataRead(i) ==
    /\ logins[i].step = "reading"
    /\ logins' = [logins EXCEPT ![i].step = "done"]
    /\ account' = logins[i].user
    /\ listeners' = [listeners EXCEPT ![i][1].fresh = @ + 1]
    /\ mixed' = (mixed \/ AnotherListens(logins[i].user))
    /\ UNCHANGED <<fields, presented, shown, asked, changes>>

(* prepare: the values the role of the account, not of the listener, calls for. *)
Given(values) ==
    LET asRole == {Reads(RoleOf[account])[l] : l \in DOMAIN Reads(RoleOf[account])}
    IN  [account |-> account, fields |-> [f \in Field |-> IF f \in asRole THEN values[f] ELSE None]]

(* Mutant of Present: the segue is performed in the first session only. *)
Present_Once(values) ==
    IF presented = "none" /\ Len(logins) = 1
    THEN presented' = "dashboard" /\ shown' = Given(values)
    ELSE UNCHANGED <<presented, shown>>

(* dashboardSegue, dropped while anything is presented. *)
Present(values) ==
    IF presented = "none"
    THEN presented' = "dashboard" /\ shown' = Given(values)
    ELSE UNCHANGED <<presented, shown>>

(* Mutant of ListenerCalled: the dashboard is presented one listener too early. *)
ListenerCalled_SegueBeforeLast(i, l, counted) ==
    LET u      == logins[i].user
        reads  == Reads(RoleOf[u])
        values == [fields EXCEPT ![reads[l]] = u]
        last   == l = Len(reads) - 1 \/ Len(reads) = 1
    IN  /\ fields' = values
        /\ \/ /\ ~last /\ l < Len(reads)
              /\ listeners' = [listeners EXCEPT ![i][l] = counted, ![i][l + 1].fresh = @ + 1]
              /\ UNCHANGED <<presented, shown>>
           \/ /\ last \/ l = Len(reads)
              /\ listeners' = [listeners EXCEPT ![i][l] = counted]
              /\ Present(values)
        /\ UNCHANGED <<logins, account, asked, mixed>>

(* The callback of a listener of login i at level l. *)
ListenerCalled(i, l, counted) ==
    LET u      == logins[i].user
        reads  == Reads(RoleOf[u])
        values == [fields EXCEPT ![reads[l]] = u]
    IN  /\ fields' = values
        /\ \/ /\ l < Len(reads)
              /\ listeners' = [listeners EXCEPT ![i][l] = counted, ![i][l + 1].fresh = @ + 1]
              /\ UNCHANGED <<presented, shown>>
           \/ /\ l = Len(reads)
              /\ listeners' = [listeners EXCEPT ![i][l] = counted]
              /\ Present(values)
        /\ UNCHANGED <<logins, account, asked, mixed>>

FirstCall(i, l) ==
    /\ listeners[i][l].fresh > 0
    /\ ListenerCalled(i, l, [fresh |-> listeners[i][l].fresh - 1, live |-> TRUE])
    /\ UNCHANGED changes

(* The data changed, whoever changed it. *)
ChangeCall(i, l) ==
    /\ listeners[i][l].live
    /\ changes < MaxChanges
    /\ changes' = changes + 1
    /\ ListenerCalled(i, l, listeners[i][l])

(* An error is printed, and is the last call the listeners of a query get.  A  *)
(* server whose rules ask for a signed-in user may answer so after a sign-out.  *)
ListenerFailed(i, l) ==
    /\ Listening(i, l)
    /\ listeners' = [listeners EXCEPT ![i][l] = [fresh |-> 0, live |-> FALSE]]
    /\ logins' = [logins EXCEPT ![i].failed = TRUE]
    /\ UNCHANGED <<account, fields, presented, shown, asked, mixed, changes>>

(* Mutant of SignOut: the dashboard's values are kept. *)
SignOut_Keeps ==
    /\ presented = "dashboard"
    /\ presented' = "none"
    /\ asked' = FALSE
    /\ UNCHANGED <<sessionVars, logins, shown, changes>>

(* signOutTapped on the dashboard, confirmed. *)
SignOut ==
    /\ presented = "dashboard"
    /\ presented' = "none"
    /\ shown' = None
    /\ asked' = FALSE
    /\ UNCHANGED <<sessionVars, logins, changes>>

Answer(i) ==
    \/ SignInRefused(i)
    \/ SignedIn(i)
    \/ ReadFailed(i)
    \/ DataRead(i)

LoginNext ==
    \/ \E u \in Users : LoginButtonTapped(u)
    \/ TappedWithEmptyFields
    \/ AlertDismissed
    \/ SignOut
    \/ \E i \in DOMAIN logins :
        \/ Answer(i)
        \/ \E l \in Level : FirstCall(i, l) \/ ChangeCall(i, l) \/ ListenerFailed(i, l)

LoginSpec == LoginInit /\ [][LoginNext]_loginVars

(* Auth and Firestore answer every call, if only with an error. *)
LoginFairness ==
    \A i \in 1 .. MaxLogins :
        /\ WF_loginVars(i \in DOMAIN logins /\ Answer(i))
        /\ WF_loginVars(i \in DOMAIN logins /\ \E l \in Level : FirstCall(i, l))

LoginLiveSpec == LoginSpec /\ LoginFairness

------------------------------------------------------------------------------
(* Properties. *)

(* As long as no account was read while listeners of another were alive, every *)
(* dashboard has every field its role shows, all of them of its own account,   *)
(* whatever an earlier account, or an earlier login, left in the variables.    *)
DashboardIsOwn ==
    presented = "dashboard" /\ ~mixed =>
        \A l \in DOMAIN Reads(RoleOf[shown.account]) :
            shown.fields[Reads(RoleOf[shown.account])[l]] = shown.account

(* A login still waiting for an answer ends in a dashboard, or in an alert, or *)
(* with an error that was printed: a second login, or one whose alert was      *)
(* dismissed while it went on, is not forgotten either.                        *)
Waiting(i) ==
    /\ i \in DOMAIN logins
    /\ ~logins[i].failed
    /\ logins[i].step # "done" \/ \E l \in Level : listeners[i][l].fresh > 0

LoginIsAnswered ==
    \A i \in 1 .. MaxLogins :
        Waiting(i) ~> (i \in DOMAIN logins /\ (presented # "none" \/ logins[i].failed))

(* DashboardViewController.swift:172, of signOutTapped: "log out of             *)
(* application".  After it no dashboard is shown until someone logs in.        *)
SignedOutStaysOut == presented = "dashboard" => asked
==============================================================================
