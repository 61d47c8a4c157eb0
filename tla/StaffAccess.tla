---------------------------- MODULE StaffAccess ----------------------------
(***************************************************************************)
(* Staff accounts: logging in with a password and, when two-step login is  *)
(* on, a code; the sessions that come of it; the gate every staff request  *)
(* passes; and the Staff page, where one person changes another's account. *)
(*                                                                         *)
(* A handler is a request that runs one database statement (or one section *)
(* under the pending logins' lock) at a time, in a slot of its own, so any *)
(* two handlers interleave as their statements do.  A password is only as  *)
(* much as the properties tell apart: "own", chosen by its owner, or       *)
(* "given", known to somebody else (the published seed, the creator, the   *)
(* helper).  A code is the number of its 30-second step.  Of a device's    *)
(* sessions only the one its cookie names is kept: no request can name the *)
(* others.                                                                 *)
(***************************************************************************)
EXTENDS Integers, Sequences, FiniteSets

CONSTANTS
  Users,            \* staff accounts
  Admins,           \* those whose role is admin
  Seeded,           \* accounts a fresh database starts with
  SetUp,            \* seeded accounts whose owners finished setting them up
  Devices,          \* browsers
  Slots,            \* requests the server may be handling at once
  NoUser,
  MaxCodeAttempts,  \* code checks per password check (5 in the code)
  Departments,      \* departments an account may be given
  PageChoices,      \* custom page sets the access form may send
  MaxLogins,        \* bound: logins that reach the code step
  MaxSecrets,       \* bound: authenticator secrets ever made
  MaxStep,          \* bound: 30-second steps
  MaxStaffOps,      \* bound: operations of the Staff page and the console
  MaxOverlaps,      \* bound: requests that start while another is handled
  MaxFaults         \* bound: failing statements and restarts

ASSUME AccountsAssumption ==
  /\ Admins \subseteq Users /\ Seeded \subseteq Users /\ SetUp \subseteq Seeded
  /\ NoUser \notin Users
ASSUME AttemptsAssumption == MaxCodeAttempts \in Nat \ {0}

VARIABLES
  account,   \* the users table
  session,   \* the account the session row of a device's cookie names
  logins,    \* pendingLogins, in memory: password checked, code still to come
  loginOf,   \* the pending-login cookie of a device (0: none)
  req,       \* requests being handled
  room,      \* bound: times a request may still start while another is handled
  step,      \* the 30-second step of the clock
  made,      \* secrets made so far
  left,      \* bounds: operations and faults still to come
  codes,     \* history: code steps accepted since two-step login went on
  checks,    \* history: codes checked for each pending login
  half       \* history: accounts whose last given password was not marked

vars == <<account, session, logins, loginOf, req, room, step, made, left, codes, checks, half>>
people == <<account, session>>
memory == <<logins, loginOf, checks>>

-----------------------------------------------------------------------------
(* Pages and who may open them.                                            *)

\* models.BackOfficePages: the key of every page, and those only admins open.
BackOfficePages == {"dashboard", "bookings", "floor", "menu", "map", "orders",
                    "live", "logs", "team", "staff", "settings", "system"}
AdminOnlyPages == {"live", "staff", "settings", "system"}

\* saveAccess keeps of a form only keys of the list.
ASSUME PagesAssumption == PageChoices \subseteq SUBSET BackOfficePages

DefaultPages(dept) ==
  CASE dept = "superworker" -> {"dashboard", "bookings", "floor", "menu", "orders", "logs", "team"}
    [] dept = "waiter" -> {"bookings", "floor"}
    [] OTHER -> {}

Can(u, a, key) ==
  \/ u \in Admins
  \/ /\ key \notin AdminOnlyPages
     /\ key \in IF a.custom THEN a.pages ELSE DefaultPages(a.dept)

NeedsTwoFactor(u) == u \in Admins
TwoFactor(a) == a.secret # 0

\* The two pages outside the back office an account is sent to by the gate.
TwoFactorExemptNoPassword == {"account/2fa"}
TwoFactorExempt == {"account/2fa", "change-password"}

\* Where RequireRole lets a request for path end up: path itself, or the page
\* it redirects to.
RequireRole(u, a, path) ==
  IF a.must /\ path # "change-password" THEN "change-password"
  ELSE IF NeedsTwoFactor(u) /\ ~TwoFactor(a) /\ path \notin TwoFactorExempt THEN "account/2fa"
  ELSE path

workModePages == {"floor", "bookings", "live"}

hasAdminMode(u, a) ==
  u \notin Admins /\ \E key \in BackOfficePages \ workModePages : Can(u, a, key)

adminPagesNoMap == <<"dashboard", "orders", "menu", "logs", "team", "bookings", "floor">>
adminPages == <<"dashboard", "orders", "menu", "logs", "team", "map", "bookings", "floor">>

\* The first of them the account may open; "worker" is the staff app.
adminStart(u, a) ==
  LET open == {i \in DOMAIN adminPages : Can(u, a, adminPages[i])}
  IN  IF open = {} THEN "worker" ELSE adminPages[CHOOSE i \in open : \A j \in open : i <= j]

mayHelp(me, target) ==
  \/ me \in Admins
  \/ target \notin Admins /\ account[target].dept # "superworker" /\ target # me

-----------------------------------------------------------------------------
(* Requests.  at is the statement to run next; num is the code step or the *)
(* secret the handler holds; tries is the attempt number of a code.        *)

Idle == [op |-> "none", at |-> "", dev |-> CHOOSE d \in Devices : TRUE, who |-> NoUser,
         login |-> 0, tries |-> 0, num |-> 0]

Ops == {"none", "login", "code", "change", "page", "enable", "disable",
        "reset", "console", "create", "update", "kick"}
Stages == {"", "session", "verify", "use", "password", "drop", "fresh", "read", "store",
           "confirm", "enable", "check", "given", "must", "off", "active", "kick", "access"}

\* A seeded account must change its password; one set up long ago has its own.
NewAccount(u) ==
  [exists |-> u \in Seeded, active |-> TRUE,
   pw |-> IF u \in SetUp THEN "own" ELSE "given", must |-> u \in Seeded \ SetUp,
   secret |-> IF u \in SetUp /\ u \in Admins THEN 1 ELSE 0, pending |-> 0, lastStep |-> 0,
   dept |-> IF u \in Admins THEN "superworker" ELSE "bar", custom |-> FALSE, pages |-> {}]

Init ==
  /\ account = [u \in Users |-> NewAccount(u)]
  /\ session = [d \in Devices |-> NoUser]
  /\ logins = <<>>
  /\ loginOf = [d \in Devices |-> 0]
  /\ req = [s \in Slots |-> Idle]
  /\ room = MaxOverlaps
  /\ step = 0
  /\ made = 1
  /\ left = [ops |-> MaxStaffOps, faults |-> MaxFaults]
  /\ codes = [u \in Users |-> <<>>]
  /\ checks = <<>>
  /\ half = {}

Done(s) == req' = [req EXCEPT ![s] = Idle]
Goto(s, at) == req' = [req EXCEPT ![s].at = at]
\* A slot takes a request.
Free(s) ==
  /\ req[s] = Idle
  /\ IF \A x \in Slots : req[x] = Idle THEN UNCHANGED room ELSE room > 0 /\ room' = room - 1
Start(s, op, at, d, u) ==
  /\ Free(s)
  /\ req' = [req EXCEPT ![s] = [Idle EXCEPT !.op = op, !.at = at, !.dev = d, !.who = u]]
At(s, at) == req[s].at = at
Fault == left.faults > 0 /\ left' = [left EXCEPT !.faults = @ - 1]
StaffOp == left.ops > 0 /\ left' = [left EXCEPT !.ops = @ - 1]

\* Codes the clock's window accepts: one step of drift either way.
CodesNow == {k \in step - 1 .. step + 1 : k > 0}

\* The account a device is signed in as, when the gate lets it have path.
Serves(d, path) ==
  LET u == session[d]
  IN  u # NoUser /\ account[u].active /\ RequireRole(u, account[u], path) = path

\* GetUserBySessionID drops the row of an account that is no longer active.
Refuse(d) ==
  /\ session[d] # NoUser /\ ~account[session[d]].active
  /\ session' = [session EXCEPT ![d] = NoUser]
  /\ UNCHANGED <<account, logins, loginOf, req, step, room, made, left, codes, checks, half>>

-----------------------------------------------------------------------------
(* Logging in.                                                             *)

startPendingLogin(d, u) ==
  /\ Len(logins) < MaxLogins
  /\ logins' = Append(logins, [user |-> u, tries |-> 0])
  /\ loginOf' = [loginOf EXCEPT ![d] = Len(logins) + 1]
  /\ checks' = Append(checks, 0)

clearPendingLogin(d, t) ==
  /\ logins' = [logins EXCEPT ![t].user = NoUser]
  /\ loginOf' = [loginOf EXCEPT ![d] = 0]

\* The right password of an active account; a wrong one changes nothing.
LoginSubmit(s, d, u) ==
  /\ account[u].exists /\ account[u].active
  /\ \/ ~TwoFactor(account[u]) /\ Start(s, "login", "session", d, u) /\ UNCHANGED memory
     \/ TwoFactor(account[u]) /\ startPendingLogin(d, u) /\ req[s] = Idle /\ UNCHANGED <<req, room>>
  /\ UNCHANGED <<people, step, made, left, codes, half>>

\* Under the lock: the attempt is counted before the code is looked at.
TooManyLate(n) == n > MaxCodeAttempts + 1
TooMany(n) == n > MaxCodeAttempts
LoginCodeSubmit(s, d) ==
  LET t == loginOf[d]
      n == logins[t].tries + 1
  IN  /\ t # 0
      /\ IF logins[t].user = NoUser \/ TooMany(n)
         THEN clearPendingLogin(d, t) /\ req[s] = Idle /\ UNCHANGED <<req, room>>
         ELSE /\ Free(s)
              /\ logins' = [logins EXCEPT ![t].tries = n]
              /\ req' = [req EXCEPT ![s] = [Idle EXCEPT !.op = "code", !.at = "verify", !.dev = d,
                                            !.who = logins[t].user, !.login = t, !.tries = n]]
              /\ UNCHANGED loginOf
      /\ UNCHANGED <<people, step, made, left, codes, checks, half>>

WrongCode(s) ==
  /\ Done(s)
  /\ IF req[s].tries >= MaxCodeAttempts
     THEN clearPendingLogin(req[s].dev, req[s].login)
     ELSE UNCHANGED <<logins, loginOf>>

\* The account and its secret are read, and the code is compared.
VerifyLoginCode(s) ==
  LET a == account[req[s].who]
  IN  /\ At(s, "verify")
      /\ IF ~a.active \/ ~TwoFactor(a)
         THEN clearPendingLogin(req[s].dev, req[s].login) /\ Done(s) /\ UNCHANGED checks
         ELSE /\ checks' = [checks EXCEPT ![req[s].login] = @ + 1]
              /\ \/ WrongCode(s)
                 \/ \E k \in CodesNow :
                      /\ req' = [req EXCEPT ![s].at = "use", ![s].num = k]
                      /\ UNCHANGED <<logins, loginOf>>
      /\ UNCHANGED <<people, step, room, made, left, codes, half>>

\* UseTOTPStep: one statement that takes a step later than the last one used.
UnusedSame(last, k) == last <= k
Unused(last, k) == last < k
UseTOTPStep(u, k) ==
  /\ account' = [account EXCEPT ![u].lastStep = k]
  /\ codes' = [codes EXCEPT ![u] = Append(@, k)]

UseCode(s) ==
  LET u == req[s].who
  IN  /\ At(s, "use")
      /\ IF Unused(account[u].lastStep, req[s].num)
         THEN /\ UseTOTPStep(u, req[s].num)
              /\ Goto(s, IF req[s].op = "code" THEN "session" ELSE "off")
              /\ UNCHANGED <<logins, loginOf>>
         ELSE /\ IF req[s].op = "code" THEN WrongCode(s) ELSE Done(s) /\ UNCHANGED <<logins, loginOf>>
              /\ UNCHANGED <<account, codes>>
      /\ UNCHANGED <<session, step, room, made, left, checks, half>>

\* finishLogin, after the pending login is cleared; the insert may fail.
FinishLogin(s) ==
  /\ At(s, "session")
  /\ Done(s)
  /\ IF req[s].op = "code" THEN clearPendingLogin(req[s].dev, req[s].login) ELSE UNCHANGED <<logins, loginOf>>
  /\ \/ session' = [session EXCEPT ![req[s].dev] = req[s].who] /\ UNCHANGED left
     \/ Fault /\ UNCHANGED session
  /\ UNCHANGED <<account, step, room, made, codes, checks, half>>

Logout(d) ==
  /\ session[d] # NoUser
  /\ session' = [session EXCEPT ![d] = NoUser]
  /\ UNCHANGED <<account, logins, loginOf, req, step, room, made, left, codes, checks, half>>

-----------------------------------------------------------------------------
(* The account's own settings: its password and two-step login.            *)

SignedOut(u) == [d \in Devices |-> IF session[d] = u THEN NoUser ELSE session[d]]
others == <<logins, loginOf, step, room, made, checks>>

ChangePasswordSubmit(s, d) ==
  /\ Serves(d, "change-password")
  /\ Start(s, "change", "password", d, session[d])
  /\ UNCHANGED <<people, memory, step, made, left, codes, half>>

SetOwnPassword(s) ==
  /\ At(s, "password")
  /\ \/ /\ account' = [account EXCEPT ![req[s].who].pw = "own", ![req[s].who].must = FALSE]
        /\ Goto(s, "drop") /\ UNCHANGED left
     \/ Fault /\ Done(s) /\ UNCHANGED account
  /\ UNCHANGED <<session, others, codes, half>>

\* keepOnlyThisSession: everyone out, then a fresh session here.  When the
\* first fails after two-step login went on, the setup page is drawn from the
\* user the gate read, for whom it was still off.
DropSessions(s) ==
  /\ At(s, "drop")
  /\ \/ session' = SignedOut(req[s].who) /\ Goto(s, "fresh") /\ UNCHANGED left
     \/ /\ Fault /\ UNCHANGED session
        /\ IF req[s].op = "enable" THEN Goto(s, "read") ELSE Done(s)
  /\ UNCHANGED <<account, others, codes, half>>

FreshSession(s) ==
  /\ At(s, "fresh")
  /\ Done(s)
  /\ \/ session' = [session EXCEPT ![req[s].dev] = req[s].who] /\ UNCHANGED left
     \/ Fault /\ session' = [session EXCEPT ![req[s].dev] = NoUser]
  /\ UNCHANGED <<account, others, codes, half>>

\* The setup page: the pending secret, made and stored when there is none.
TwoFactorPage(s, d) ==
  /\ Serves(d, "account/2fa") /\ ~TwoFactor(account[session[d]])
  /\ Start(s, "page", "read", d, session[d])
  /\ UNCHANGED <<people, memory, step, made, left, codes, half>>

ReadPending(s) ==
  /\ At(s, "read")
  /\ IF account[req[s].who].pending # 0
     THEN Done(s) /\ UNCHANGED made
     ELSE /\ made < MaxSecrets
          /\ made' = made + 1
          /\ req' = [req EXCEPT ![s].at = "store", ![s].num = made + 1]
  /\ UNCHANGED <<people, memory, step, room, left, codes, half>>

SetTOTPPending(s) ==
  /\ At(s, "store")
  /\ Done(s)
  /\ \/ account' = [account EXCEPT ![req[s].who].pending = req[s].num] /\ UNCHANGED left
     \/ Fault /\ UNCHANGED account
  /\ UNCHANGED <<session, others, codes, half>>

TwoFactorEnable(s, d) ==
  /\ Serves(d, "account/2fa") /\ ~TwoFactor(account[session[d]])
  /\ Start(s, "enable", "confirm", d, session[d])
  /\ UNCHANGED <<people, memory, step, made, left, codes, half>>

\* A code of the pending secret; without one, or with a wrong code, the setup
\* page is drawn again.
ConfirmSecret(s) ==
  /\ At(s, "confirm")
  /\ \/ Goto(s, "read")
     \/ /\ account[req[s].who].pending # 0
        /\ \E k \in CodesNow : req' = [req EXCEPT ![s].at = "enable", ![s].num = k]
  /\ UNCHANGED <<people, memory, step, room, made, left, codes, half>>

\* The code that confirmed the secret counts as used.
FirstStepNone(k) == 0
FirstStep(k) == k
EnableTOTP(s) ==
  LET u == req[s].who
  IN  /\ At(s, "enable")
      /\ \/ /\ account[u].pending # 0
            /\ account' = [account EXCEPT ![u].secret = account[u].pending, ![u].pending = 0,
                                          ![u].lastStep = FirstStep(req[s].num)]
            /\ codes' = [codes EXCEPT ![u] = <<req[s].num>>]
            /\ Goto(s, "drop") /\ UNCHANGED left
         \/ /\ account[u].pending = 0 /\ Goto(s, "read") /\ UNCHANGED <<account, codes, left>>
         \/ /\ Fault /\ Goto(s, "read") /\ UNCHANGED <<account, codes>>
      /\ UNCHANGED <<session, others, half>>

TwoFactorDisable(s, d) ==
  /\ Serves(d, "account/2fa") /\ TwoFactor(account[session[d]])
  /\ Start(s, "disable", "check", d, session[d])
  /\ UNCHANGED <<people, memory, step, made, left, codes, half>>

\* The password and a code, right or wrong.
CheckDisable(s) ==
  /\ At(s, "check")
  /\ \/ Done(s)
     \/ /\ TwoFactor(account[req[s].who])
        /\ \E k \in CodesNow : req' = [req EXCEPT ![s].at = "use", ![s].num = k]
  /\ UNCHANGED <<people, memory, step, room, made, left, codes, half>>

-----------------------------------------------------------------------------
(* The Staff page, the Team page and the server's console.                 *)

\* The statements of a reset, in order; the console also wakes the account up.
ResetStepsMustFirst == <<"must", "given", "off", "kick">>
ResetSteps == <<"given", "must", "off", "kick">>
ConsoleSteps == <<"given", "must", "off", "active", "kick">>

Following(steps, at) ==
  LET i == CHOOSE j \in DOMAIN steps : steps[j] = at
  IN  IF i = Len(steps) THEN "" ELSE steps[i + 1]

NextStage(op, at) ==
  CASE op = "reset" -> Following(ResetSteps, at)
    [] op = "console" -> Following(ConsoleSteps, at)
    [] op = "create" -> "access"
    [] OTHER -> ""

Advance(s) ==
  IF NextStage(req[s].op, req[s].at) = "" THEN Done(s) ELSE Goto(s, NextStage(req[s].op, req[s].at))

AdminResetStaffPassword(s, d, t) ==
  /\ Serves(d, "team") /\ Can(session[d], account[session[d]], "team")
  /\ account[t].exists /\ mayHelp(session[d], t)
  /\ StaffOp /\ Start(s, "reset", Head(ResetSteps), d, t)
  /\ UNCHANGED <<people, memory, step, made, codes, half>>

ConsoleReset(s, t) ==
  /\ account[t].exists
  /\ StaffOp /\ Start(s, "console", Head(ConsoleSteps), Idle.dev, t)
  /\ UNCHANGED <<people, memory, step, made, codes, half>>

\* SetUserPassword always clears must_change_password.
SetGivenPassword(s) ==
  /\ At(s, "given")
  /\ \/ /\ account' = [account EXCEPT ![req[s].who].pw = "given", ![req[s].who].must = FALSE]
        /\ Advance(s) /\ UNCHANGED left
     \/ Fault /\ Done(s) /\ UNCHANGED account
  /\ UNCHANGED <<session, others, codes, half>>

\* Broken off here the account keeps a given password that is not marked: the
\* creator or helper is told the operation failed.
RequirePasswordChange(s) ==
  /\ At(s, "must")
  /\ \/ /\ account' = [account EXCEPT ![req[s].who].must = TRUE]
        /\ half' = half \ {req[s].who}
        /\ Advance(s) /\ UNCHANGED left
     \/ Fault /\ Done(s) /\ half' = half \cup {req[s].who} /\ UNCHANGED account
  /\ UNCHANGED <<session, others, codes>>

DisableTOTP(s) ==
  LET u == req[s].who
  IN  /\ At(s, "off")
      /\ \/ /\ account' = [account EXCEPT ![u].secret = 0, ![u].pending = 0, ![u].lastStep = 0]
            /\ codes' = [codes EXCEPT ![u] = <<>>]
            /\ Advance(s) /\ UNCHANGED left
         \/ Fault /\ Done(s) /\ UNCHANGED <<account, codes>>
      /\ UNCHANGED <<session, others, half>>

ConsoleActivate(s) ==
  /\ At(s, "active")
  /\ account' = [account EXCEPT ![req[s].who].active = TRUE]
  /\ Advance(s)
  /\ UNCHANGED <<session, others, left, codes, half>>

DeleteAuthSessionsForUser(s) ==
  /\ At(s, "kick")
  /\ Done(s)
  /\ \/ session' = SignedOut(req[s].who) /\ UNCHANGED left
     \/ Fault /\ UNCHANGED session
  /\ UNCHANGED <<account, others, codes, half>>

OnStaffPage(d) == Serves(d, "staff") /\ Can(session[d], account[session[d]], "staff")

\* CreateUser; its creator knows the password until the next statement.
AdminCreateStaff(s, d, t) ==
  /\ OnStaffPage(d) /\ ~account[t].exists
  /\ StaffOp /\ Start(s, "create", "must", d, t)
  /\ \E dept \in Departments :
       account' = [account EXCEPT ![t] = [NewAccount(t) EXCEPT !.exists = TRUE,
                     !.dept = IF t \in Admins THEN "superworker" ELSE dept]]
  /\ UNCHANGED <<session, memory, step, made, codes, half>>

AdminUpdateStaff(s, d, t) ==
  /\ OnStaffPage(d) /\ account[t].exists /\ t \notin Admins
  /\ StaffOp /\ Start(s, "update", "access", d, t)
  /\ \E dept \in Departments : account' = [account EXCEPT ![t].dept = dept]
  /\ UNCHANGED <<session, memory, step, made, codes, half>>

\* The access form: left alone, the role's defaults, or the pages ticked that
\* are not for admins only.
saveAccess(s) ==
  LET t == req[s].who
  IN  /\ At(s, "access")
      /\ Done(s)
      /\ \/ UNCHANGED account
         \/ /\ t \notin Admins
            /\ account' = [account EXCEPT ![t].custom = FALSE, ![t].pages = {}]
         \/ /\ t \notin Admins
            /\ \E pages \in PageChoices :
                 account' = [account EXCEPT ![t].custom = TRUE, ![t].pages = pages \ AdminOnlyPages]
      /\ UNCHANGED <<session, others, left, codes, half>>

AdminDeactivateStaff(s, d, t) ==
  /\ OnStaffPage(d) /\ account[t].exists /\ t # session[d]
  /\ StaffOp /\ Start(s, "kick", "kick", d, t)
  /\ account' = [account EXCEPT ![t].active = FALSE]
  /\ UNCHANGED <<session, memory, step, made, codes, half>>

AdminActivateStaff(d, t) ==
  /\ OnStaffPage(d) /\ account[t].exists /\ ~account[t].active
  /\ account' = [account EXCEPT ![t].active = TRUE]
  /\ UNCHANGED <<session, memory, req, step, room, made, left, codes, half>>

AdminStaffSignOut(s, d, t) ==
  /\ Serves(d, "team") /\ Can(session[d], account[session[d]], "team")
  /\ account[t].exists /\ mayHelp(session[d], t)
  /\ StaffOp /\ Start(s, "kick", "kick", d, t)
  /\ UNCHANGED <<people, memory, step, made, codes, half>>

-----------------------------------------------------------------------------
(* The clock, and the server stopping and starting.                        *)

Tick ==
  /\ step < MaxStep /\ step' = step + 1
  /\ UNCHANGED <<people, memory, req, room, made, left, codes, half>>

\* A session is refused once it is a day old; Maintain deletes such rows.
ExpireSession(d) ==
  /\ session[d] # NoUser
  /\ session' = [session EXCEPT ![d] = NoUser]
  /\ UNCHANGED <<account, memory, req, step, room, made, left, codes, half>>

\* A pending login is refused once its five minutes are over.
ExpireLogin(t) ==
  /\ logins[t].user # NoUser
  /\ logins' = [logins EXCEPT ![t].user = NoUser]
  /\ UNCHANGED <<people, loginOf, checks, req, step, room, made, left, codes, half>>

\* Requests break off where they are and pendingLogins is empty; the tables,
\* with the sessions and the last code steps, stay.
Restart ==
  /\ Fault
  /\ logins' = [t \in DOMAIN logins |-> [logins[t] EXCEPT !.user = NoUser]]
  /\ req' = [s \in Slots |-> Idle]
  /\ half' = half \cup {req[s].who : s \in {x \in Slots : req[x].at = "must"}}
  /\ UNCHANGED <<people, loginOf, checks, step, room, made, codes>>

Handler(s) ==
  \/ VerifyLoginCode(s) \/ UseCode(s) \/ FinishLogin(s)
  \/ SetOwnPassword(s) \/ DropSessions(s) \/ FreshSession(s)
  \/ ReadPending(s) \/ SetTOTPPending(s) \/ ConfirmSecret(s) \/ EnableTOTP(s) \/ CheckDisable(s)
  \/ SetGivenPassword(s) \/ RequirePasswordChange(s) \/ DisableTOTP(s) \/ ConsoleActivate(s)
  \/ DeleteAuthSessionsForUser(s) \/ saveAccess(s)

Submit(s, d) ==
  \/ LoginCodeSubmit(s, d) \/ ChangePasswordSubmit(s, d)
  \/ TwoFactorPage(s, d) \/ TwoFactorEnable(s, d) \/ TwoFactorDisable(s, d)
  \/ \E u \in Users : LoginSubmit(s, d, u)

StaffPage(s, d, t) ==
  \/ AdminResetStaffPassword(s, d, t) \/ AdminStaffSignOut(s, d, t)
  \/ AdminCreateStaff(s, d, t) \/ AdminUpdateStaff(s, d, t) \/ AdminDeactivateStaff(s, d, t)

Next ==
  \/ \E s \in Slots : Handler(s)
  \/ \E s \in Slots, d \in Devices : Submit(s, d)
  \/ \E s \in Slots, d \in Devices, t \in Users : StaffPage(s, d, t)
  \/ \E s \in Slots, t \in Users : ConsoleReset(s, t)
  \/ \E d \in Devices, t \in Users : AdminActivateStaff(d, t)
  \/ \E d \in Devices : Refuse(d) \/ Logout(d) \/ ExpireSession(d)
  \/ \E t \in DOMAIN logins : ExpireLogin(t)
  \/ Tick
  \/ Restart

Spec == Init /\ [][Next]_vars

-----------------------------------------------------------------------------
(* Properties.                                                             *)

Account == [exists : BOOLEAN, active : BOOLEAN, pw : {"own", "given"}, must : BOOLEAN,
            secret : Nat, pending : Nat, lastStep : Nat,
            dept : {"superworker"} \cup Departments \cup {"bar"}, custom : BOOLEAN,
            pages : SUBSET BackOfficePages]

\* Every table and every request holds what its columns and steps may hold, and
\* nobody is signed in as an account that was never made (GetUserBySessionID
\* joins the two tables).
TypeOK ==
  /\ account \in [Users -> Account]
  /\ session \in [Devices -> Users \cup {NoUser}]
  /\ \A d \in Devices : session[d] # NoUser => account[session[d]].exists
  /\ \A t \in DOMAIN logins : logins[t].user \in Users \cup {NoUser} /\ logins[t].tries \in 0..MaxCodeAttempts
  /\ \A s \in Slots : req[s].op \in Ops /\ req[s].at \in Stages
  /\ \A d \in Devices : loginOf[d] \in 0..Len(logins)

\* A password that somebody other than its owner knows opens nothing but the
\* change-password page (AdminResetStaffPassword: "it only works once"),
\* except while the operation that set it is about to mark it or was broken off
\* there.  SetUserPassword clears the mark, so the order of the two matters,
\* whoever else changes the account meanwhile.
OneTimePassword ==
  \A u \in Users :
    account[u].exists /\ account[u].pw = "given" /\ ~account[u].must =>
      u \in half \/ \E s \in Slots : req[s].who = u /\ req[s].at = "must"

\* The codes accepted for an account while its two-step login stays on have
\* later and later steps, so none is taken twice: not by two requests at once,
\* not after a restart, not the code that switched it on (UseTOTPStep).
CodesRise ==
  \A u \in Users : \A i, j \in DOMAIN codes[u] : i < j => codes[u][i] < codes[u][j]

\* One password check is worth at most MaxCodeAttempts code checks, however
\* many of them are sent at once (LoginCodeSubmit).
FewGuesses == \A t \in DOMAIN checks : checks[t] <= MaxCodeAttempts

\* The page the gate sends an account to is one it lets the account have: the
\* two redirects of RequireRole never send a browser back and forth.
RedirectsEnd ==
  \A u \in Users :
    \A path \in BackOfficePages \cup {"worker", "account/2fa", "change-password"} :
      RequireRole(u, account[u], RequireRole(u, account[u], path)) = RequireRole(u, account[u], path)

\* An account that is offered the admin side of the app (hasAdminMode) lands
\* on a page of that side it may open (adminStart), whatever pages it was given.
AdminModeOpens ==
  \A u \in Users :
    hasAdminMode(u, account[u]) =>
      /\ adminStart(u, account[u]) \in BackOfficePages \ workModePages
      /\ Can(u, account[u], adminStart(u, account[u]))

\* What renderTwoFactorPage's comment promises of the setup page: "The same
\* secret until it's confirmed, so a reload doesn't invalidate what the phone
\* already scanned" - a pending secret is never replaced by another.
SameSecretUntilConfirmed ==
  [][\A u \in Users : account[u].pending # 0 => account'[u].pending \in {0, account[u].pending}]_vars

=============================================================================
