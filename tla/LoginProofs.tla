----------------------------- MODULE LoginProofs -----------------------------
(* Proofs about the login screen, for any accounts, logins and changes: every  *)
(* variable keeps its type, and a dashboard is made of its own account's data. *)
(* While no account was read beside the listeners of another, all listeners    *)
(* that may still be called are of the account of the screen, and what the     *)
(* listeners outside one of them read is of that account.                      *)
EXTENDS LoginSession, SequenceTheorems, TLAPS

Listeners == [1 .. MaxLogins -> [Level -> Added]]

(* What the variables hold when a listener of level l is called. *)
ReadBefore(l) ==
    \A k \in DOMAIN Reads(RoleOf[account]) : k < l => fields[Reads(RoleOf[account])[k]] = account

OwnListeners ==
    \A i \in 1 .. MaxLogins, l \in Level : Listening(i, l) =>
        /\ i \in DOMAIN logins
        /\ account \in Users
        /\ ~mixed => logins[i].user = account /\ ReadBefore(l)

LoginInv ==
    /\ LoginTypeOK
    /\ Len(logins) <= MaxLogins
    /\ OwnListeners
    /\ DashboardIsOwn

-----------------------------------------------------------------------------
(* The role of an account reads one to four fields. *)
LEMMA ReadsAreFields ==
    ASSUME NEW u \in Users
    PROVE  /\ Reads(RoleOf[u]) \in Seq(Field)
           /\ DOMAIN Reads(RoleOf[u]) = 1 .. Len(Reads(RoleOf[u]))
           /\ Len(Reads(RoleOf[u])) \in Level
           /\ \A l \in 1 .. Len(Reads(RoleOf[u])) : Reads(RoleOf[u])[l] \in Field
<1>1. RoleOf[u] \in Roles
  BY LoginAssumption DEF LoginAssumption
<1>2. CASE RoleOf[u] = "tenants"
  BY <1>2 DEF Reads, Field, Level
<1>3. CASE RoleOf[u] = "management"
  BY <1>3 DEF Reads, Field, Level
<1>4. CASE RoleOf[u] = "maintenance"
  BY <1>4 DEF Reads, Field, Level
<1> QED BY <1>1, <1>2, <1>3, <1>4 DEF Roles

LEMMA Types ==
    ASSUME LoginInv
    PROVE  /\ logins \in Seq(Login) /\ Len(logins) \in Nat
           /\ DOMAIN logins = 1 .. Len(logins) /\ DOMAIN logins \subseteq 1 .. MaxLogins
           /\ \A i \in DOMAIN logins : logins[i] \in Login /\ logins[i].user \in Users
           /\ listeners \in Listeners
           /\ account \in Users \union {None} /\ None \notin Users
           /\ fields \in [Field -> Users \union {None}]
           /\ mixed \in BOOLEAN /\ asked \in BOOLEAN /\ changes \in Nat
           /\ MaxLogins \in Nat
<1>1. logins \in Seq(Login) /\ MaxLogins \in Nat /\ Len(logins) <= MaxLogins
  BY LoginAssumption DEF LoginInv, LoginTypeOK, LoginAssumption
<1>2. Len(logins) \in Nat /\ DOMAIN logins = 1 .. Len(logins)
      /\ \A i \in DOMAIN logins : logins[i] \in Login
  BY <1>1
<1>3. \A i \in DOMAIN logins : logins[i].user \in Users
  BY <1>2 DEF Login
<1> QED BY <1>1, <1>2, <1>3, LoginAssumption DEF LoginInv, LoginTypeOK, LoginAssumption, Listeners

(* One more listener of a group. *)
LEMMA OneMore ==
    ASSUME NEW L \in Listeners, NEW i \in 1 .. MaxLogins, NEW l \in Level
    PROVE  [L[i][l] EXCEPT !.fresh = @ + 1] \in Added
BY DEF Listeners, Added

(* What a step may do that calls no listener and adds none: the logins go on,  *)
(* listeners may end, and the account and its data stay.                       *)
LEMMA NoCallOk ==
    ASSUME LoginInv,
           logins' \in Seq(Login), Len(logins') <= MaxLogins, Len(logins') >= Len(logins),
           \A i \in DOMAIN logins : logins'[i].user = logins[i].user,
           listeners' \in Listeners,
           \A i \in 1 .. MaxLogins, l \in Level : Listening(i, l)' => Listening(i, l),
           account' = account, fields' = fields, mixed' = mixed,
           asked' \in BOOLEAN, changes' \in Nat,
           \/ presented' = presented /\ shown' = shown
           \/ presented' \in {"none", "alert"} /\ shown' = None
    PROVE  LoginInv'
<1>1. LoginTypeOK'
  BY Types DEF LoginInv, LoginTypeOK, Listeners
<1>2. DashboardIsOwn'
  BY DEF LoginInv, DashboardIsOwn
<1>3. OwnListeners'
  <2> SUFFICES ASSUME NEW i \in 1 .. MaxLogins, NEW l \in Level, Listening(i, l)'
               PROVE  /\ i \in DOMAIN logins'
                      /\ account' \in Users
                      /\ ~mixed' => logins'[i].user = account' /\ ReadBefore(l)'
    BY DEF OwnListeners
  <2>1. /\ i \in DOMAIN logins /\ account \in Users
        /\ ~mixed => logins[i].user = account /\ ReadBefore(l)
    BY DEF LoginInv, OwnListeners
  <2>2. i \in DOMAIN logins'
    BY <2>1, Types
  <2> QED BY <2>1, <2>2 DEF ReadBefore
<1> QED BY <1>1, <1>2, <1>3 DEF LoginInv

(* One login goes on. *)
LEMMA LoginWritten ==
    ASSUME LoginInv, NEW i \in DOMAIN logins, NEW v \in Login, v.user = logins[i].user
    PROVE  LET new == [logins EXCEPT ![i] = v]
           IN  /\ new \in Seq(Login) /\ Len(new) = Len(logins) /\ Len(new) <= MaxLogins
               /\ Len(new) >= Len(logins) /\ DOMAIN new = DOMAIN logins
               /\ \A j \in DOMAIN logins : new[j].user = logins[j].user
<1> DEFINE new == [logins EXCEPT ![i] = v]
<1>1. new \in [1 .. Len(logins) -> Login] /\ \A j \in DOMAIN logins : new[j].user = logins[j].user
  BY Types
<1> HIDE DEF new
<1>2. new \in Seq(Login) /\ Len(new) = Len(logins) /\ DOMAIN new = DOMAIN logins
  BY <1>1, Types
<1> QED BY <1>1, <1>2, Types DEF new, LoginInv

LEMMA ListeningKept ==
    ASSUME listeners' = listeners
    PROVE  \A i \in 1 .. MaxLogins, l \in Level : Listening(i, l)' => Listening(i, l)
BY DEF Listening

LEMMA ShownOrNot ==
    ASSUME LoginInv, presented # "dashboard" PROVE shown = None
BY DEF LoginInv, LoginTypeOK

LEMMA LoginButtonTappedOk ==
    ASSUME LoginInv, NEW u \in Users, LoginButtonTapped(u) PROVE LoginInv'
<1> DEFINE v == [user |-> u, step |-> "signIn", failed |-> FALSE]
<1>1. v \in Login
  BY DEF Login
<1> HIDE DEF v
<1>2. logins' = Append(logins, v) /\ Len(logins) < MaxLogins
  BY DEF LoginButtonTapped, v
<1>3. /\ logins' \in Seq(Login) /\ Len(logins') = Len(logins) + 1
      /\ \A i \in DOMAIN logins : logins'[i] = logins[i]
  BY <1>1, <1>2, Types
<1>4. Len(logins') <= MaxLogins /\ Len(logins') >= Len(logins)
      /\ \A i \in DOMAIN logins : logins'[i].user = logins[i].user
  BY <1>2, <1>3, Types
<1> QED BY <1>3, <1>4, Types, NoCallOk, ListeningKept DEF LoginButtonTapped, sessionVars

LEMMA AlertOk ==
    ASSUME LoginInv, Alert
    PROVE  \/ presented' = presented /\ shown' = shown
           \/ presented' \in {"none", "alert"} /\ shown' = None
BY ShownOrNot DEF Alert

LEMMA SameLogins ==
    ASSUME LoginInv, logins' = logins
    PROVE  /\ logins' \in Seq(Login) /\ Len(logins') <= MaxLogins /\ Len(logins') >= Len(logins)
           /\ \A i \in DOMAIN logins : logins'[i].user = logins[i].user
BY Types DEF LoginInv

LEMMA ScreenOk ==
    ASSUME LoginInv, TappedWithEmptyFields \/ AlertDismissed \/ SignOut PROVE LoginInv'
<1>1. /\ logins' = logins /\ UNCHANGED sessionVars /\ changes' = changes
      /\ asked' \in BOOLEAN
      /\ \/ presented' = presented /\ shown' = shown
         \/ presented' \in {"none", "alert"} /\ shown' = None
  BY AlertOk, ShownOrNot, Types DEF TappedWithEmptyFields, AlertDismissed, SignOut
<1> QED BY <1>1, SameLogins, ListeningKept, NoCallOk, Types DEF sessionVars

LEMMA GoesOnOk ==
    ASSUME LoginInv, NEW i \in DOMAIN logins, SignInRefused(i) \/ SignedIn(i) \/ ReadFailed(i)
    PROVE  LoginInv'
<1> DEFINE done == [logins[i] EXCEPT !.step = "done", !.failed = TRUE]
           reading == [logins[i] EXCEPT !.step = "reading"]
<1>1. /\ done \in Login /\ done.user = logins[i].user
      /\ reading \in Login /\ reading.user = logins[i].user
  BY Types DEF Login
<1>2. /\ UNCHANGED sessionVars /\ changes' = changes /\ asked' = asked
      /\ \/ presented' = presented /\ shown' = shown
         \/ presented' \in {"none", "alert"} /\ shown' = None
  BY AlertOk DEF SignInRefused, SignedIn, ReadFailed
<1>3. logins' = [logins EXCEPT ![i] = done] \/ logins' = [logins EXCEPT ![i] = reading]
  BY Types DEF SignInRefused, SignedIn, ReadFailed
<1> HIDE DEF done, reading
<1>4. /\ logins' \in Seq(Login) /\ Len(logins') <= MaxLogins /\ Len(logins') >= Len(logins)
      /\ \A j \in DOMAIN logins : logins'[j].user = logins[j].user
  BY <1>1, <1>3, LoginWritten
<1> QED BY <1>2, <1>4, ListeningKept, NoCallOk, Types DEF sessionVars

LEMMA ListenerFailedOk ==
    ASSUME LoginInv, NEW i \in DOMAIN logins, NEW l \in Level, ListenerFailed(i, l)
    PROVE  LoginInv'
<1> DEFINE failed == [logins[i] EXCEPT !.failed = TRUE]
           none == [fresh |-> 0, live |-> FALSE]
<1>1. failed \in Login /\ failed.user = logins[i].user
  BY Types DEF Login
<1>2. none \in Added /\ ~(none.fresh > 0 \/ none.live)
  BY DEF Added
<1>3. i \in 1 .. MaxLogins
  BY Types
<1>4. logins' = [logins EXCEPT ![i] = failed] /\ listeners' = [listeners EXCEPT ![i][l] = none]
  BY DEF ListenerFailed
<1> HIDE DEF failed, none
<1>5. /\ logins' \in Seq(Login) /\ Len(logins') <= MaxLogins /\ Len(logins') >= Len(logins)
      /\ \A j \in DOMAIN logins : logins'[j].user = logins[j].user
  BY <1>1, <1>4, LoginWritten
<1>6. /\ listeners' \in Listeners /\ listeners'[i][l] = none
      /\ \A j \in 1 .. MaxLogins, m \in Level :
            j # i \/ m # l => listeners'[j][m] = listeners[j][m]
  <2>1. listeners \in Listeners
    BY Types
  <2>2. /\ [listeners EXCEPT ![i][l] = none] \in Listeners
        /\ [listeners EXCEPT ![i][l] = none][i][l] = none
        /\ \A j \in 1 .. MaxLogins, m \in Level :
             j # i \/ m # l => [listeners EXCEPT ![i][l] = none][j][m] = listeners[j][m]
    BY <1>2, <1>3, <2>1 DEF Listeners
  <2> QED BY <1>4, <2>2
<1>7. \A j \in 1 .. MaxLogins, m \in Level : Listening(j, m)' => Listening(j, m)
  <2> SUFFICES ASSUME NEW j \in 1 .. MaxLogins, NEW m \in Level, Listening(j, m)'
               PROVE  Listening(j, m)
    OBVIOUS
  <2>1. j # i \/ m # l
    BY <1>2, <1>6 DEF Listening
  <2> QED BY <1>6, <2>1 DEF Listening
<1> QED BY <1>5, <1>6, <1>7, NoCallOk, Types DEF ListenerFailed

-----------------------------------------------------------------------------
(* The account is read: whoever may still be called is of the new account, or  *)
(* the session is mixed from here on.                                          *)
LEMMA DataReadOk ==
    ASSUME LoginInv, NEW i \in DOMAIN logins, DataRead(i) PROVE LoginInv'
<1> DEFINE done == [logins[i] EXCEPT !.step = "done"]
           u == logins[i].user
<1>1. done \in Login /\ done.user = u
  BY Types DEF Login
<1>2. i \in 1 .. MaxLogins /\ 1 \in Level /\ listeners \in Listeners /\ u \in Users
  BY Types DEF Level
<1>3. /\ logins' = [logins EXCEPT ![i] = done]
      /\ listeners' = [listeners EXCEPT ![i][1].fresh = @ + 1]
      /\ account' = u /\ mixed' = (mixed \/ AnotherListens(u))
      /\ fields' = fields /\ presented' = presented /\ shown' = shown
      /\ asked' = asked /\ changes' = changes
  BY DEF DataRead
<1> HIDE DEF done
<1>4. /\ logins' \in Seq(Login) /\ Len(logins') <= MaxLogins /\ DOMAIN logins' = DOMAIN logins
      /\ \A j \in DOMAIN logins : logins'[j].user = logins[j].user
  BY <1>1, <1>3, LoginWritten
<1>5. /\ listeners' \in Listeners
      /\ \A j \in 1 .. MaxLogins, m \in Level :
            j # i \/ m # 1 => listeners'[j][m] = listeners[j][m]
  <2> DEFINE c == [listeners[i][1] EXCEPT !.fresh = @ + 1]
  <2>1. c \in Added
    BY <1>2, OneMore
  <2>2. listeners' = [listeners EXCEPT ![i][1] = c]
    BY <1>3
  <2> HIDE DEF c
  <2>3. /\ [listeners EXCEPT ![i][1] = c] \in Listeners
        /\ \A j \in 1 .. MaxLogins, m \in Level :
             j # i \/ m # 1 => [listeners EXCEPT ![i][1] = c][j][m] = listeners[j][m]
    <3>1. i \in 1 .. MaxLogins
      BY <1>2
    <3>2. 1 \in Level
      BY <1>2
    <3>3. listeners \in Listeners
      BY <1>2
    <3> HIDE DEF u
    <3> QED BY <2>1, <3>1, <3>2, <3>3 DEF Listeners
  <2> QED BY <2>2, <2>3
<1>6. mixed' \in BOOLEAN /\ (~mixed' => ~mixed /\ ~AnotherListens(u))
  BY <1>3
<1>7. LoginTypeOK'
  BY <1>2, <1>3, <1>4, <1>5, <1>6 DEF LoginInv, LoginTypeOK, Listeners
<1>8. DashboardIsOwn'
  BY <1>3, <1>6 DEF LoginInv, DashboardIsOwn
<1>9. OwnListeners'
  <2> SUFFICES ASSUME NEW j \in 1 .. MaxLogins, NEW m \in Level, Listening(j, m)'
               PROVE  /\ j \in DOMAIN logins'
                      /\ account' \in Users
                      /\ ~mixed' => logins'[j].user = account' /\ ReadBefore(m)'
    BY DEF OwnListeners
  <2>1. CASE j = i /\ m = 1
    <3>1. ReadBefore(m)'
      BY <1>2, <1>3, <2>1, ReadsAreFields DEF ReadBefore
    <3> QED BY <1>2, <1>3, <1>4, <2>1, <3>1
  <2>2. CASE j # i \/ m # 1
    <3>1. Listening(j, m)
      BY <1>5, <2>2 DEF Listening
    <3>2. /\ j \in DOMAIN logins /\ account \in Users
          /\ ~mixed => logins[j].user = account /\ ReadBefore(m)
      BY <3>1 DEF LoginInv, OwnListeners
    <3>3. ~mixed' => logins[j].user = u
      BY <1>6, <3>1, <3>2 DEF AnotherListens
    <3> QED BY <1>2, <1>3, <1>4, <1>6, <3>2, <3>3 DEF ReadBefore
  <2> QED BY <2>1, <2>2
<1> QED BY <1>4, <1>7, <1>8, <1>9 DEF LoginInv

(* What prepare hands over is the account's, if all that it reads is. *)
LEMMA GivenIsOwn ==
    ASSUME account \in Users, NEW values \in [Field -> Users \union {None}]
    PROVE  /\ Given(values) \in Dashboard
           /\ Given(values).account = account
           /\ \A l \in DOMAIN Reads(RoleOf[account]) :
                Given(values).fields[Reads(RoleOf[account])[l]] = values[Reads(RoleOf[account])[l]]
<1> DEFINE asRole == {Reads(RoleOf[account])[l] : l \in DOMAIN Reads(RoleOf[account])}
           given == [f \in Field |-> IF f \in asRole THEN values[f] ELSE None]
<1>1. given \in [Field -> Users \union {None}]
  OBVIOUS
<1>2. \A l \in DOMAIN Reads(RoleOf[account]) :
        given[Reads(RoleOf[account])[l]] = values[Reads(RoleOf[account])[l]]
  <2> SUFFICES ASSUME NEW l \in DOMAIN Reads(RoleOf[account])
               PROVE  given[Reads(RoleOf[account])[l]] = values[Reads(RoleOf[account])[l]]
    OBVIOUS
  <2>1. Reads(RoleOf[account])[l] \in Field /\ Reads(RoleOf[account])[l] \in asRole
    BY ReadsAreFields
  <2> HIDE DEF asRole
  <2> QED BY <2>1
<1>3. Given(values) = [account |-> account, fields |-> given]
  BY DEF Given
<1> HIDE DEF given
<1> QED BY <1>1, <1>2, <1>3 DEF Dashboard

(* A listener of the account is called: the next level has one more field, and *)
(* the last one has them all.                                                  *)
LEMMA ListenerCalledOk ==
    ASSUME LoginInv, NEW i \in DOMAIN logins, NEW l \in Level, Listening(i, l),
           NEW counted \in Added, ListenerCalled(i, l, counted), changes' \in Nat
    PROVE  LoginInv'
<1> DEFINE u == logins[i].user
           reads == Reads(RoleOf[u])
           values == [fields EXCEPT ![reads[l]] = u]
           L1 == [listeners EXCEPT ![i][l] = counted]
<1>1. /\ i \in 1 .. MaxLogins /\ listeners \in Listeners /\ u \in Users
      /\ account \in Users /\ (~mixed => u = account /\ ReadBefore(l))
  BY Types DEF LoginInv, OwnListeners
<1>2. /\ logins' = logins /\ account' = account /\ asked' = asked /\ mixed' = mixed
      /\ fields' = values
      /\ \/ l < Len(reads) /\ listeners' = [listeners EXCEPT ![i][l] = counted, ![i][l + 1].fresh = @ + 1]
            /\ presented' = presented /\ shown' = shown
         \/ l = Len(reads) /\ listeners' = L1 /\ Present(values)
  BY Zenon DEF ListenerCalled
<1>3. l \in 1 .. Len(reads) /\ Len(reads) \in Level /\ DOMAIN reads = 1 .. Len(reads)
      /\ reads[l] \in Field
  BY <1>1, <1>2, ReadsAreFields DEF Level
<1>4. values \in [Field -> Users \union {None}] /\ values[reads[l]] = u
      /\ \A f \in Field : values[f] = fields[f] \/ values[f] = u
  BY <1>1, <1>3, Types
<1>5. ~mixed => \A k \in DOMAIN reads : k <= l => values[reads[k]] = account
  <2> SUFFICES ASSUME ~mixed, NEW k \in DOMAIN reads, k <= l
               PROVE  values[reads[k]] = account
    OBVIOUS
  <2>1. reads[k] \in Field
    BY <1>1, ReadsAreFields
  <2>2. CASE k = l
    BY <1>1, <1>4, <2>2
  <2>3. CASE k # l
    <3>1. k < l
      BY <1>3, <2>3 DEF Level
    <3>2. fields[reads[k]] = account
      BY <1>1, <3>1 DEF ReadBefore
    <3> QED BY <1>1, <1>4, <2>1, <3>2
  <2> QED BY <2>2, <2>3
<1>6. /\ listeners' \in Listeners
      /\ \A j \in 1 .. MaxLogins, m \in Level : Listening(j, m)' =>
            Listening(j, m) \/ (j = i /\ m = l + 1)
  <2>0. i \in 1 .. MaxLogins /\ listeners \in Listeners
    BY <1>1
  <2>3. /\ L1 \in Listeners
        /\ \A j \in 1 .. MaxLogins, m \in Level : j # i \/ m # l => L1[j][m] = listeners[j][m]
    <3> HIDE DEF u, reads, values
    <3> QED BY <2>0 DEF Listeners
  <2>1. CASE listeners' = L1
    <3> HIDE DEF L1
    <3> QED BY <2>1, <2>3 DEF Listening
  <2>2. CASE l < Len(reads)
             /\ listeners' = [listeners EXCEPT ![i][l] = counted, ![i][l + 1].fresh = @ + 1]
    <3> DEFINE c == [listeners[i][l + 1] EXCEPT !.fresh = @ + 1]
               L2 == [L1 EXCEPT ![i][l + 1] = c]
    <3>1. l + 1 \in Level
      <4> DEFINE n == Len(reads)
      <4>1. l \in 1 .. 4 /\ n \in 1 .. 4 /\ l < n
        BY <1>3, <2>2 DEF Level
      <4> HIDE DEF n
      <4> QED BY <4>1 DEF Level
    <3>2. c \in Added
      BY <2>0, <3>1, OneMore
    <3>3. listeners' = L2
      <4>1. L1[i][l + 1] = listeners[i][l + 1]
        BY <2>0, <2>3, <3>1 DEF Level
      <4>2. listeners' = [L1 EXCEPT ![i][l + 1].fresh = listeners[i][l + 1].fresh + 1]
        BY <2>2
      <4> HIDE DEF L1
      <4> QED BY <4>1, <4>2
    <3> HIDE DEF L1, c
    <3>4. /\ L2 \in Listeners
          /\ \A j \in 1 .. MaxLogins, m \in Level : j # i \/ m # l + 1 => L2[j][m] = L1[j][m]
      <4> HIDE DEF u, reads, values
      <4>1. L1 \in Listeners
        BY <2>3
      <4>2. i \in 1 .. MaxLogins
        BY <2>0
      <4> QED BY <4>1, <4>2, <3>1, <3>2 DEF Listeners
    <3> HIDE DEF L2
    <3> QED BY <2>3, <3>3, <3>4 DEF Listening
  <2> QED BY <1>2, <2>1, <2>2
<1> HIDE DEF values, L1
<1>8. OwnListeners'
  <2> SUFFICES ASSUME NEW j \in 1 .. MaxLogins, NEW m \in Level, Listening(j, m)'
               PROVE  /\ j \in DOMAIN logins'
                      /\ account' \in Users
                      /\ ~mixed' => logins'[j].user = account' /\ ReadBefore(m)'
    BY DEF OwnListeners
  <2>1. CASE Listening(j, m)
    <3>1. j \in DOMAIN logins /\ (~mixed => logins[j].user = account /\ ReadBefore(m))
      BY <2>1 DEF LoginInv, OwnListeners
    <3>2. ASSUME ~mixed, NEW k \in DOMAIN Reads(RoleOf[account]), k < m
          PROVE  fields'[Reads(RoleOf[account])[k]] = account
      <4>1. fields[Reads(RoleOf[account])[k]] = account /\ u = account
        BY <1>1, <3>1, <3>2 DEF ReadBefore
      <4>2. Reads(RoleOf[account])[k] \in Field
        BY <1>1, ReadsAreFields
      <4> QED BY <1>2, <1>4, <4>1, <4>2
    <3>3. ~mixed => ReadBefore(m)'
      BY <1>2, <3>2 DEF ReadBefore
    <3> QED BY <1>1, <1>2, <3>1, <3>3
  <2>2. CASE j = i /\ m = l + 1
    <3>1. ASSUME ~mixed, NEW k \in DOMAIN Reads(RoleOf[account]), k < m
          PROVE  fields'[Reads(RoleOf[account])[k]] = account
      <4>1. u = account /\ k \in DOMAIN reads
        BY <1>1, <3>1
      <4>2. k <= l
        BY <1>3, <2>2, <3>1, <4>1 DEF Level
      <4> QED BY <1>2, <1>5, <3>1, <4>1, <4>2
    <3>2. ~mixed => ReadBefore(m)'
      BY <1>2, <3>1 DEF ReadBefore
    <3> QED BY <1>1, <1>2, <2>2, <3>2
  <2> QED BY <1>6, <2>1, <2>2
<1>9. /\ presented' \in {"none", "alert", "dashboard"} /\ shown' \in Dashboard \union {None}
      /\ shown' = None <=> presented' # "dashboard"
      /\ DashboardIsOwn'
  <2>1. CASE presented' = presented /\ shown' = shown
    BY <1>2, <2>1 DEF LoginInv, LoginTypeOK, DashboardIsOwn
  <2>2. CASE l = Len(reads) /\ presented' = "dashboard" /\ shown' = Given(values)
    <3>1. /\ shown' \in Dashboard /\ shown'.account = account
          /\ \A k \in DOMAIN Reads(RoleOf[account]) :
                shown'.fields[Reads(RoleOf[account])[k]] = values[Reads(RoleOf[account])[k]]
      BY <1>1, <1>4, <2>2, GivenIsOwn
    <3>2. shown' # None
      BY <3>1, LoginAssumption DEF LoginAssumption
    <3>3. ASSUME ~mixed, NEW k \in DOMAIN Reads(RoleOf[account])
          PROVE  shown'.fields[Reads(RoleOf[account])[k]] = account
      <4>1. u = account /\ k \in DOMAIN reads
        BY <1>1, <3>3
      <4>2. k <= l
        BY <1>3, <2>2, <4>1
      <4> QED BY <1>5, <3>1, <3>3, <4>1, <4>2
    <3>4. DashboardIsOwn'
      BY <1>2, <3>1, <3>3 DEF DashboardIsOwn
    <3> QED BY <2>2, <3>1, <3>2, <3>4
  <2> QED BY <1>2, <2>1, <2>2, Zenon DEF Present
<1>10. LoginTypeOK'
  BY <1>1, <1>2, <1>4, <1>6, <1>9, Types DEF LoginInv, LoginTypeOK, Listeners
<1> QED BY <1>2, <1>8, <1>9, <1>10 DEF LoginInv

-----------------------------------------------------------------------------
LEMMA LoginInitOk == LoginInit => LoginInv
<1> SUFFICES ASSUME LoginInit PROVE LoginInv
  OBVIOUS
<1>1. \A i \in 1 .. MaxLogins, l \in Level : ~Listening(i, l)
  BY DEF LoginInit, Listening
<1>2. LoginTypeOK
  <2>1. [fresh |-> 0, live |-> FALSE] \in Added
    BY DEF Added
  <2>2. listeners \in [1 .. MaxLogins -> [Level -> Added]]
    BY <2>1, Zenon DEF LoginInit
  <2>3. logins \in Seq(Login)
    BY DEF LoginInit
  <2>4. fields \in [Field -> Users \union {None}]
    BY DEF LoginInit
  <2>5. /\ account \in Users \union {None} /\ shown \in Dashboard \union {None}
        /\ presented \in {"none", "alert", "dashboard"} /\ presented # "dashboard" /\ shown = None
        /\ changes \in Nat
    BY DEF LoginInit
  <2>6. asked \in BOOLEAN /\ mixed \in BOOLEAN
    BY DEF LoginInit
  <2> QED BY <2>2, <2>3, <2>4, <2>5, <2>6, Zenon DEF LoginTypeOK
<1> QED BY <1>1, <1>2, LoginAssumption
        DEF LoginInit, LoginInv, OwnListeners, DashboardIsOwn, LoginAssumption

LEMMA CallsOk ==
    ASSUME LoginInv, NEW i \in DOMAIN logins, NEW l \in Level, FirstCall(i, l) \/ ChangeCall(i, l)
    PROVE  LoginInv'
<1>1. listeners[i][l] \in Added
  BY Types DEF Listeners
<1>2. CASE FirstCall(i, l)
  <2> DEFINE counted == [fresh |-> listeners[i][l].fresh - 1, live |-> TRUE]
  <2>1. listeners[i][l].fresh > 0 /\ ListenerCalled(i, l, counted) /\ changes' = changes
    BY <1>2 DEF FirstCall
  <2>2. counted \in Added
    BY <1>1, <2>1 DEF Added
  <2>3. Listening(i, l)
    BY <2>1 DEF Listening
  <2> HIDE DEF counted
  <2> QED BY <2>1, <2>2, <2>3, ListenerCalledOk, Types
<1>3. CASE ChangeCall(i, l)
  <2>1. /\ ListenerCalled(i, l, listeners[i][l]) /\ changes' = changes + 1 /\ Listening(i, l)
    BY <1>3 DEF ChangeCall, Listening
  <2>2. changes' \in Nat
    BY <2>1, Types
  <2> QED BY <1>1, <2>1, <2>2, ListenerCalledOk
<1> QED BY <1>2, <1>3

LEMMA LoginNextOk == LoginInv /\ [LoginNext]_loginVars => LoginInv'
<1> SUFFICES ASSUME LoginInv, [LoginNext]_loginVars PROVE LoginInv'
  OBVIOUS
<1>1. CASE \E u \in Users : LoginButtonTapped(u)
  BY <1>1, LoginButtonTappedOk
<1>2. CASE TappedWithEmptyFields \/ AlertDismissed \/ SignOut
  BY <1>2, ScreenOk
<1>3. CASE \E i \in DOMAIN logins : Answer(i)
  BY <1>3, GoesOnOk, DataReadOk DEF Answer
<1>4. CASE \E i \in DOMAIN logins, l \in Level :
            FirstCall(i, l) \/ ChangeCall(i, l) \/ ListenerFailed(i, l)
  BY <1>4, CallsOk, ListenerFailedOk
<1>5. CASE UNCHANGED loginVars
  BY <1>5, NoCallOk, SameLogins, ListeningKept, Types DEF loginVars
<1> QED BY <1>1, <1>2, <1>3, <1>4, <1>5 DEF LoginNext

LEMMA LoginInvariant == LoginSpec => []LoginInv
BY LoginInitOk, LoginNextOk, PTL DEF LoginSpec

(* The login screen's variables keep their types, and a dashboard is presented *)
(* exactly when prepare has given it something, however many logins overlap.   *)
THEOREM LoginTypeCorrect == LoginSpec => []LoginTypeOK
<1>1. LoginInv => LoginTypeOK  BY DEF LoginInv
<1> QED BY <1>1, LoginInvariant, PTL

(* authUser and prepare: a dashboard shows its own account's values, unless an *)
(* account was read while listeners of another were alive.                     *)
THEOREM DashboardStaysOwn == LoginSpec => []DashboardIsOwn
<1>1. LoginInv => DashboardIsOwn  BY DEF LoginInv
<1> QED BY <1>1, LoginInvariant, PTL
=============================================================================
