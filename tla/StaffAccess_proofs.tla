--------------------------- MODULE StaffAccess_proofs ---------------------------
(* Staff accounts: what every statement of every handler preserves, for any    *)
(* number of accounts, browsers, secrets and requests at a time.  At the end:  *)
(* the start of the server, which makes the first accounts.                    *)
EXTENDS StaffAccess, Startup, SequenceTheorems, FiniteSetTheorems, WellFoundedInduction, TLAPS

----------------------------------------------------------------------------
(* The inductive invariant *)

Login == [user : Users \cup {NoUser}, tries : 0 .. MaxCodeAttempts]

Request == [op : Ops, at : Stages, dev : Devices \cup {Idle.dev}, who : Users \cup {NoUser},
            login : Nat, tries : Nat, num : Nat]

StagesOf(op) ==
  CASE op = "none"    -> {""}
    [] op = "login"   -> {"session"}
    [] op = "code"    -> {"verify", "use", "session"}
    [] op = "change"  -> {"password", "drop", "fresh"}
    [] op = "page"    -> {"read", "store"}
    [] op = "enable"  -> {"confirm", "enable", "drop", "fresh", "read", "store"}
    [] op = "disable" -> {"check", "use", "off"}
    [] op = "reset"   -> {"given", "must", "off", "kick"}
    [] op = "console" -> {"given", "must", "off", "active", "kick"}
    [] op = "create"  -> {"must", "access"}
    [] op = "update"  -> {"access"}
    [] op = "kick"    -> {"kick"}

\* What the tables hold; a login counts the codes it looked at.
Tables ==
  /\ account \in [Users -> Account]
  /\ session \in [Devices -> Users \cup {NoUser}]
  /\ step \in Nat /\ made \in Nat

Pending ==
  /\ logins \in Seq(Login)
  /\ loginOf \in [Devices -> 0 .. Len(logins)]
  /\ checks \in Seq(Nat) /\ Len(checks) = Len(logins)

\* A request stands before a statement of its own operation, about an account
\* that exists.
RequestOK(r) ==
  /\ r.at \in StagesOf(r.op)
  /\ r.op # "none" => r.who \in Users /\ account[r.who].exists
  /\ r.op = "code" => r.login \in 1 .. Len(logins)

Underway ==
  /\ req \in [Slots -> Request]
  /\ \A s \in Slots : RequestOK(req[s])

\* Sessions and pending logins are of accounts that exist.
Owned ==
  /\ \A d \in Devices : session[d] # NoUser => account[session[d]].exists
  /\ \A t \in 1 .. Len(logins) : logins[t].user # NoUser => account[logins[t].user].exists

StaffInv == Tables /\ Pending /\ Underway /\ Owned

\* The last code accepted is the latest, and the account remembers it.
Remembered ==
  /\ codes \in [Users -> Seq(Nat)]
  /\ \A u \in Users : \A i \in 1 .. Len(codes[u]) : codes[u][i] <= account[u].lastStep
  /\ \A u \in Users : ~account[u].exists => codes[u] = <<>>

\* Codes that are about to be checked.
Verifying(t) == {s \in Slots : req[s].at = "verify" /\ req[s].login = t}

\* Every code that is or will be checked was counted as an attempt.
Counted ==
  \A t \in 1 .. Len(logins) :
    /\ IsFiniteSet(Verifying(t))
    /\ checks[t] + Cardinality(Verifying(t)) <= logins[t].tries

----------------------------------------------------------------------------
(* What a request may become *)

\* An idle slot is a request.
LEMMA IdleIsARequest == Idle \in Request /\ RequestOK(Idle) /\ RequestOK(Idle)'
  BY DEF Idle, Request, RequestOK, Ops, Stages, StagesOf

\* No account and no pending login ever goes away.
Grows == /\ \A u \in Users : account[u].exists => account'[u].exists
         /\ Len(logins') >= Len(logins)

\* Requests that stay as they are stay right.
LEMMA OthersStay ==
  ASSUME Pending, Pending', Underway, Grows, NEW s \in Slots, NEW r \in Request,
         req' = [req EXCEPT ![s] = r], RequestOK(r)'
  PROVE  Underway'
<1>1. req' \in [Slots -> Request]
  BY DEF Underway
<1>2. ASSUME NEW x \in Slots PROVE RequestOK(req[x])'
  <2>1. CASE x = s
    BY <2>1 DEF Underway
  <2>2. CASE x # s
    <3>1. req'[x] = req[x] /\ RequestOK(req[x])
      BY <2>2 DEF Underway
    <3>2. Len(logins) \in Nat /\ Len(logins') \in Nat
      BY DEF Pending
    <3> QED
      BY <3>1, <3>2 DEF RequestOK, Grows
  <2> QED
    BY <2>1, <2>2
<1> QED
  BY <1>1, <1>2 DEF Underway

\* A request that ends leaves the others as they were.
LEMMA DoneStays ==
  ASSUME Pending, Pending', Underway, Grows, NEW s \in Slots, Done(s)
  PROVE  Underway'
  BY OthersStay, IdleIsARequest DEF Done

\* A request that goes to a later stage stays a request of its kind.
LEMMA GotoStays ==
  ASSUME Pending, Pending', Underway, Grows, NEW s \in Slots, NEW stage, Goto(s, stage),
         stage \in Stages, stage \in StagesOf(req[s].op)
  PROVE  Underway'
<1>1. req[s] \in Request /\ RequestOK(req[s])
  BY DEF Underway
<1>0. PICK r : r = [req[s] EXCEPT !.at = stage]
  OBVIOUS
<1>2. r \in Request /\ r.op = req[s].op /\ r.at = stage /\ r.who = req[s].who /\ r.login = req[s].login
  BY <1>0, <1>1 DEF Request
<1>3. RequestOK(r)'
  <2>1. Len(logins) \in Nat /\ Len(logins') \in Nat
    BY DEF Pending
  <2> QED
    BY <1>1, <1>2, <2>1 DEF RequestOK, Grows
<1>4. req' = [req EXCEPT ![s] = r]
  BY <1>0, <1>1 DEF Goto, Underway
<1> QED
  BY <1>2, <1>3, <1>4, OthersStay

\* A request that starts at a stage of its kind is one.
LEMMA StartStays ==
  ASSUME Pending, Pending', Underway, Grows, NEW s \in Slots, NEW d \in Devices \cup {Idle.dev}, NEW u \in Users,
         NEW op \in Ops \ {"none", "code"}, NEW stage \in Stages, stage \in StagesOf(op),
         account'[u].exists, Start(s, op, stage, d, u)
  PROVE  Underway'
<1> DEFINE r == [Idle EXCEPT !.op = op, !.at = stage, !.dev = d, !.who = u]
<1>1. r \in Request /\ r.op = op /\ r.at = stage /\ r.who = u
  BY DEF Idle, Request
<1>2. RequestOK(r)'
  BY <1>1 DEF RequestOK
<1>3. req' = [req EXCEPT ![s] = r]
  BY DEF Start
<1> HIDE DEF r
<1> QED
  BY <1>1, <1>2, <1>3, OthersStay

\* A request that moves on with what it read stays one.
LEMMA MoveStays ==
  ASSUME Pending, Pending', Underway, Grows, NEW s \in Slots, NEW stage, NEW k \in Nat,
         req' = [req EXCEPT ![s].at = stage, ![s].num = k],
         stage \in Stages, stage \in StagesOf(req[s].op)
  PROVE  Underway'
<1>1. req[s] \in Request /\ RequestOK(req[s])
  BY DEF Underway
<1>0. PICK r : r = [req[s] EXCEPT !.at = stage, !.num = k]
  OBVIOUS
<1>2. r \in Request /\ r.op = req[s].op /\ r.at = stage /\ r.who = req[s].who /\ r.login = req[s].login
  BY <1>0, <1>1 DEF Request
<1>3. RequestOK(r)'
  <2>1. Len(logins) \in Nat /\ Len(logins') \in Nat
    BY DEF Pending
  <2> QED
    BY <1>1, <1>2, <2>1 DEF RequestOK, Grows
<1>4. req' = [req EXCEPT ![s] = r]
  BY <1>0, <1>1 DEF Underway
<1> QED
  BY <1>2, <1>3, <1>4, OthersStay

----------------------------------------------------------------------------
(* Pending logins *)

\* A pending login may be cleared; its attempts are never taken back.
Kept ==
  /\ logins' \in Seq(Login) /\ Len(logins') = Len(logins)
  /\ loginOf' \in [Devices -> 0 .. Len(logins')]
  /\ \A t \in 1 .. Len(logins) :
       logins'[t].user \in {logins[t].user, NoUser} /\ logins'[t].tries = logins[t].tries

\* Clearing a pending login takes no counter away.
LEMMA ClearKeeps ==
  ASSUME Pending, NEW d, NEW t \in 1 .. Len(logins), clearPendingLogin(d, t)
  PROVE  Kept
<1>1. logins' = [logins EXCEPT ![t] = [logins[t] EXCEPT !.user = NoUser]]
  BY DEF clearPendingLogin, Pending, Login
<1>2. logins[t] \in Login /\ [logins[t] EXCEPT !.user = NoUser] \in Login
  <2>1. logins[t] \in Login
    BY DEF Pending
  <2> QED
    BY <2>1 DEF Login
<1>3. logins' \in Seq(Login) /\ Len(logins') = Len(logins)
  BY <1>1, <1>2 DEF Pending
<1>4. loginOf' \in [Devices -> 0 .. Len(logins')]
  <2>1. Len(logins) \in Nat /\ loginOf \in [Devices -> 0 .. Len(logins)]
    BY DEF Pending
  <2>2. loginOf' = [loginOf EXCEPT ![d] = 0]
    BY DEF clearPendingLogin
  <2>4. 0 \in 0 .. Len(logins)
    BY <2>1
  <2>3. loginOf' \in [Devices -> 0 .. Len(logins)]
    BY <2>1, <2>2, <2>4, Zenon
  <2> QED
    BY <1>3, <2>3
<1>5. \A x \in 1 .. Len(logins) : logins'[x] = IF x = t THEN [logins[t] EXCEPT !.user = NoUser] ELSE logins[x]
  BY <1>1, <1>2 DEF Pending
<1> QED
  BY <1>2, <1>3, <1>4, <1>5 DEF Kept, Login

\* Leaving the pending logins alone keeps them.
LEMMA SameKeeps ==
  ASSUME Pending, UNCHANGED <<logins, loginOf>>
  PROVE  Kept
  BY DEF Kept, Pending

\* A wrong code keeps the pending logins, or clears its own.
LEMMA WrongKeeps ==
  ASSUME Pending, NEW s \in Slots, req[s].login \in 1 .. Len(logins), WrongCode(s)
  PROVE  Kept
  BY ClearKeeps, SameKeeps DEF WrongCode

\* Clearing pending logins signs nobody in.
LEMMA KeptOwned ==
  ASSUME Pending, Owned, Grows, Kept, NoUser \notin Users, session \in [Devices -> Users \cup {NoUser}],
         session' \in [Devices -> Users \cup {NoUser}],
         \A d \in Devices : session'[d] = session[d] \/ session'[d] = NoUser \/ account'[session'[d]].exists
  PROVE  Owned'
<1>1. ASSUME NEW d \in Devices, session'[d] # NoUser PROVE account'[session'[d]].exists
  BY <1>1 DEF Owned, Grows
<1>2. ASSUME NEW t \in 1 .. Len(logins'), logins'[t].user # NoUser PROVE account'[logins'[t].user].exists
  <2>1. t \in 1 .. Len(logins) /\ logins'[t].user = logins[t].user
    BY <1>2 DEF Kept
  <2>2. logins[t] \in Login
    BY <2>1 DEF Pending
  <2> QED
    BY <1>2, <2>1, <2>2 DEF Owned, Grows, Login
<1> QED
  BY <1>1, <1>2 DEF Owned

----------------------------------------------------------------------------
(* Logging in *)

\* Verify keeps the invariant.
LEMMA TypeVerify ==
  ASSUME StaffInv, NEW s \in Slots, VerifyLoginCode(s)
  PROVE  StaffInv'
<1>1. req[s] \in Request /\ req[s].op = "code" /\ req[s].login \in 1 .. Len(logins)
  BY DEF StaffInv, Underway, RequestOK, VerifyLoginCode, At, StagesOf, Ops, Request
<1>2. Kept
  BY <1>1, ClearKeeps, SameKeeps, WrongKeeps DEF StaffInv, VerifyLoginCode
<1>3. checks' \in Seq(Nat) /\ Len(checks') = Len(checks)
  <2>1. CASE checks' = checks
    BY <2>1 DEF StaffInv, Pending
  <2>2. CASE checks' = [checks EXCEPT ![req[s].login] = @ + 1]
    <3>1. req[s].login \in 1 .. Len(checks) /\ checks \in Seq(Nat)
      BY <1>1 DEF StaffInv, Pending
    <3>2. checks[req[s].login] + 1 \in Nat
      BY <3>1
    <3> QED
      BY <2>2, <3>1, <3>2
  <2> QED
    BY <2>1, <2>2 DEF VerifyLoginCode
<1>4. Pending'
  BY <1>2, <1>3 DEF Pending, StaffInv, Kept
<1>5. Tables' /\ Grows
  BY <1>2 DEF StaffInv, Tables, VerifyLoginCode, people, Grows, Kept, Pending
<1>6. Owned'
  BY <1>2, <1>5, KeptOwned, AccountsAssumption DEF StaffInv, Tables, VerifyLoginCode, people
<1>7. Underway'
  <2>1. CASE Done(s)
    BY <2>1, <1>4, <1>5, DoneStays DEF StaffInv
  <2>2. ASSUME NEW k \in CodesNow, req' = [req EXCEPT ![s].at = "use", ![s].num = k]
        PROVE  Underway'
    <3>1. k \in Nat /\ "use" \in StagesOf(req[s].op) /\ "use" \in Stages
      BY <1>1 DEF CodesNow, StaffInv, Tables, StagesOf, Stages
    <3> QED
      BY <2>2, <3>1, <1>4, <1>5, MoveStays DEF StaffInv
  <2> QED
    BY <2>1, <2>2 DEF VerifyLoginCode, WrongCode
<1> QED
  BY <1>4, <1>5, <1>6, <1>7 DEF StaffInv

\* Use keeps the invariant.
LEMMA TypeUse ==
  ASSUME StaffInv, NEW s \in Slots, UseCode(s)
  PROVE  StaffInv'
<1>1. /\ req[s] \in Request /\ req[s].op \in {"code", "disable"} /\ req[s].num \in Nat /\ req[s].who \in Users
      /\ req[s].op = "code" => req[s].login \in 1 .. Len(logins)
  BY DEF StaffInv, Underway, RequestOK, UseCode, At, StagesOf, Ops, Request
<1>2. Kept
  BY <1>1, SameKeeps, WrongKeeps DEF StaffInv, UseCode
<1>3. Pending'
  BY <1>2 DEF Pending, StaffInv, Kept, UseCode
<1>4. account' \in [Users -> Account] /\ \A u \in Users : account[u].exists => account'[u].exists
  <2>1. account \in [Users -> Account]
    BY DEF StaffInv, Tables
  <2>2. CASE account' = [account EXCEPT ![req[s].who].lastStep = req[s].num]
    <3>1. PICK a : a = [account[req[s].who] EXCEPT !.lastStep = req[s].num]
      OBVIOUS
    <3>2. a \in Account /\ a.exists = account[req[s].who].exists
      <4>1. account[req[s].who] \in Account
        BY <1>1, <2>1
      <4> QED
        BY <1>1, <3>1, <4>1 DEF Account
    <3>3. account' = [account EXCEPT ![req[s].who] = a]
      BY <2>2, <3>1
    <3> QED
      BY <2>1, <3>2, <3>3
  <2>3. CASE account' = account
    BY <2>1, <2>3
  <2> QED
    BY <2>2, <2>3 DEF UseCode, UseTOTPStep
<1>5. Tables' /\ Grows
  BY <1>2, <1>4 DEF StaffInv, Tables, UseCode, Grows, Kept, Pending
<1>6. Owned'
  BY <1>2, <1>5, KeptOwned, AccountsAssumption DEF StaffInv, Tables, UseCode
<1>7. Underway'
  <2>1. CASE Done(s)
    BY <2>1, <1>3, <1>5, DoneStays DEF StaffInv
  <2>2. ASSUME NEW stage, stage = (IF req[s].op = "code" THEN "session" ELSE "off"), Goto(s, stage)
        PROVE  Underway'
    <3>1. stage \in StagesOf(req[s].op) /\ stage \in Stages
      BY <1>1, <2>2 DEF StagesOf, Stages
    <3> QED
      BY <2>2, <3>1, <1>3, <1>5, GotoStays DEF StaffInv
  <2> QED
    BY <2>1, <2>2 DEF UseCode, WrongCode
<1> QED
  BY <1>3, <1>5, <1>6, <1>7 DEF StaffInv

\* Finish keeps the invariant.
LEMMA TypeFinish ==
  ASSUME StaffInv, NEW s \in Slots, FinishLogin(s)
  PROVE  StaffInv'
<1>1. /\ req[s] \in Request /\ req[s].who \in Users /\ account[req[s].who].exists
      /\ req[s].op = "code" => req[s].login \in 1 .. Len(logins)
  BY DEF StaffInv, Underway, RequestOK, FinishLogin, At, StagesOf, Ops, Request
<1>2. Kept
  BY <1>1, SameKeeps, ClearKeeps DEF StaffInv, FinishLogin
<1>3. Pending'
  BY <1>2 DEF Pending, StaffInv, Kept, FinishLogin
<1>4. session' \in [Devices -> Users \cup {NoUser}]
  BY <1>1 DEF StaffInv, Tables, FinishLogin
<1>5. Tables' /\ Grows
  BY <1>2, <1>4 DEF StaffInv, Tables, FinishLogin, Grows, Kept, Pending
<1>6. Owned'
  BY <1>1, <1>2, <1>4, <1>5, KeptOwned, AccountsAssumption DEF StaffInv, Tables, FinishLogin
<1>7. Underway'
  BY <1>3, <1>5, DoneStays DEF StaffInv, FinishLogin
<1> QED
  BY <1>3, <1>5, <1>6, <1>7 DEF StaffInv

\* SubmitLogin keeps the invariant.
LEMMA TypeSubmitLogin ==
  ASSUME StaffInv, NEW s \in Slots, NEW d \in Devices, NEW u \in Users, LoginSubmit(s, d, u)
  PROVE  StaffInv'
<1>1. Tables'
  BY DEF StaffInv, Tables, LoginSubmit, people
<1>2. CASE Start(s, "login", "session", d, u) /\ UNCHANGED memory
  <2>1. Pending' /\ Grows /\ Owned'
    BY <1>2 DEF StaffInv, Pending, Grows, Owned, LoginSubmit, memory, people
  <2>2. Underway'
    BY <1>2, <2>1, StartStays DEF StaffInv, LoginSubmit, people, Stages, Ops, StagesOf
  <2> QED
    BY <1>1, <2>1, <2>2 DEF StaffInv
<1>3. CASE startPendingLogin(d, u) /\ UNCHANGED req
  <2> DEFINE n == [user |-> u, tries |-> 0]
  <2>1. n \in Login /\ logins \in Seq(Login) /\ logins' = Append(logins, n) /\ n.user = u
    BY <1>3, AttemptsAssumption DEF StaffInv, Pending, Login, startPendingLogin
  <2> HIDE DEF n
  <2>2. /\ logins' \in Seq(Login) /\ Len(logins') = Len(logins) + 1 /\ Len(logins) \in Nat
        /\ \A t \in 1 .. Len(logins) : logins'[t] = logins[t]
        /\ logins'[Len(logins) + 1] = n
    BY <2>1
  <2>3. checks' \in Seq(Nat) /\ Len(checks') = Len(checks) + 1
    BY <1>3 DEF StaffInv, Pending, startPendingLogin
  <2>4. loginOf' \in [Devices -> 0 .. Len(logins) + 1]
    <3>1. loginOf' = [loginOf EXCEPT ![d] = Len(logins) + 1] /\ loginOf \in [Devices -> 0 .. Len(logins)]
      BY <1>3 DEF StaffInv, Pending, startPendingLogin
    <3>2. Len(logins) + 1 \in 0 .. Len(logins) + 1 /\ \A i \in 0 .. Len(logins) : i \in 0 .. Len(logins) + 1
      BY <2>2
    <3> QED
      BY <3>1, <3>2, Zenon
  <2>5. Pending' /\ Grows
    BY <2>2, <2>3, <2>4 DEF StaffInv, Pending, Grows, LoginSubmit, people
  <2>6. Owned'
    BY <2>1, <2>2 DEF StaffInv, Owned, LoginSubmit, people
  <2>7. Underway'
    BY <1>3, <2>2 DEF StaffInv, Underway, RequestOK, LoginSubmit, people
  <2> QED
    BY <1>1, <2>5, <2>6, <2>7 DEF StaffInv
<1> QED
  BY <1>2, <1>3 DEF LoginSubmit

\* SubmitCode keeps the invariant.
LEMMA TypeSubmitCode ==
  ASSUME StaffInv, NEW s \in Slots, NEW d \in Devices, LoginCodeSubmit(s, d)
  PROVE  StaffInv'
<1> DEFINE t == loginOf[d]
           n == logins[t].tries + 1
<1>0. /\ t \in 1 .. Len(logins) /\ logins[t] \in Login /\ n \in Nat /\ Len(logins) \in Nat
      /\ logins[t].user \in Users \cup {NoUser}
  <2>1. Len(logins) \in Nat /\ t \in 1 .. Len(logins)
    BY DEF StaffInv, Pending, LoginCodeSubmit
  <2>2. logins[t] \in Login
    BY <2>1 DEF StaffInv, Pending
  <2> QED
    BY <2>1, <2>2 DEF Login
<1>1. Tables' /\ checks' = checks
  BY DEF StaffInv, Tables, LoginCodeSubmit, people
<1>2. CASE clearPendingLogin(d, t) /\ UNCHANGED req
  <2>1. Kept
    BY <1>0, <1>2, ClearKeeps DEF StaffInv
  <2>2. Pending' /\ Grows
    BY <1>1, <2>1 DEF StaffInv, Pending, Kept, Grows, LoginCodeSubmit, people
  <2>3. Owned'
    BY <2>1, <2>2, KeptOwned, AccountsAssumption DEF StaffInv, Tables, LoginCodeSubmit, people
  <2>4. Underway'
    BY <1>2, <2>1 DEF StaffInv, Underway, RequestOK, LoginCodeSubmit, people, Kept
  <2> QED
    BY <1>1, <2>2, <2>3, <2>4 DEF StaffInv
<1>3. CASE /\ logins[t].user # NoUser /\ ~TooMany(n)
           /\ logins' = [logins EXCEPT ![t].tries = n] /\ UNCHANGED loginOf
           /\ req' = [req EXCEPT ![s] = [Idle EXCEPT !.op = "code", !.at = "verify", !.dev = d,
                                         !.who = logins[t].user, !.login = t, !.tries = n]]
  <2>1. PICK m : m = [logins[t] EXCEPT !.tries = n]
    OBVIOUS
  <2>2. m \in Login /\ m.user = logins[t].user /\ m.tries = n
    BY <1>0, <1>3, <2>1, AttemptsAssumption DEF Login, TooMany
  <2>3. logins' = [logins EXCEPT ![t] = m] /\ logins \in Seq(Login)
    BY <1>0, <1>3, <2>1 DEF StaffInv, Pending
  <2>4. /\ logins' \in Seq(Login) /\ Len(logins') = Len(logins)
        /\ \A x \in 1 .. Len(logins) : logins'[x] = IF x = t THEN m ELSE logins[x]
    BY <1>0, <2>2, <2>3
  <2>5. Pending' /\ Grows
    BY <1>1, <1>3, <2>4 DEF StaffInv, Pending, Grows, LoginCodeSubmit, people
  <2>6. Owned'
    BY <1>0, <1>3, <2>2, <2>4 DEF StaffInv, Owned, LoginCodeSubmit, people
  <2>7. PICK r : r = [Idle EXCEPT !.op = "code", !.at = "verify", !.dev = d,
                                  !.who = logins[t].user, !.login = t, !.tries = n]
    OBVIOUS
  <2>8. r \in Request /\ r.op = "code" /\ r.at = "verify" /\ r.who = logins[t].user /\ r.login = t
    <3>1. "code" \in Ops /\ "verify" \in Stages /\ t \in Nat
      BY <1>0 DEF Ops, Stages
    <3> QED
      BY <1>0, <2>7, <3>1 DEF Idle, Request
  <2>9. RequestOK(r)'
    BY <1>0, <1>3, <2>4, <2>8 DEF RequestOK, StagesOf, StaffInv, Owned, LoginCodeSubmit, people
  <2>10. req' = [req EXCEPT ![s] = r]
    BY <1>3, <2>7
  <2>11. Underway'
    BY <2>5, <2>8, <2>9, <2>10, OthersStay DEF StaffInv
  <2> QED
    BY <1>1, <2>5, <2>6, <2>11 DEF StaffInv
<1> QED
  BY <1>2, <1>3 DEF LoginCodeSubmit

----------------------------------------------------------------------------
(* The order of the statements of a reset *)

\* When a statement occurs once, what follows is the one after it.
LEMMA FollowingIs ==
  ASSUME NEW steps, NEW i \in DOMAIN steps, NEW stage, steps[i] = stage,
         \A j \in DOMAIN steps : steps[j] = stage => j = i
  PROVE  Following(steps, stage) = IF i = Len(steps) THEN "" ELSE steps[i + 1]
<1>1. (CHOOSE j \in DOMAIN steps : steps[j] = stage) = i
  OBVIOUS
<1> QED
  BY <1>1 DEF Following

\* The stage after the i-th of a list without repeats is the (i+1)-th.
LEMMA InOrder ==
  ASSUME NEW steps, NEW n \in Nat, DOMAIN steps = 1 .. n, Len(steps) = n, NEW i \in 1 .. n,
         \A j, k \in 1 .. n : steps[j] = steps[k] => j = k
  PROVE  /\ i = n => Following(steps, steps[i]) = ""
         /\ i # n => Following(steps, steps[i]) = steps[i + 1]
  BY FollowingIs

\* The order of the stages of a reset.
LEMMA ResetOrder ==
  /\ Following(ResetSteps, "given") = "must"
  /\ Following(ResetSteps, "must") = "off"
  /\ Following(ResetSteps, "off") = "kick"
  /\ Following(ResetSteps, "kick") = ""
<1>1. DOMAIN ResetSteps = 1 .. 4 /\ Len(ResetSteps) = 4
  BY DEF ResetSteps
<1>2. /\ ResetSteps[1] = "given"
      /\ ResetSteps[2] = "must"
      /\ ResetSteps[3] = "off"
      /\ ResetSteps[4] = "kick"
  BY DEF ResetSteps
<1>3. \A j, k \in 1 .. 4 : ResetSteps[j] = ResetSteps[k] => j = k
  BY <1>2
<1>4. /\ 4 \in Nat /\ 4 \in 1 .. 4
      /\ 1 \in 1 .. 4 /\ 1 # 4 /\ 1 + 1 = 2
      /\ 2 \in 1 .. 4 /\ 2 # 4 /\ 2 + 1 = 3
      /\ 3 \in 1 .. 4 /\ 3 # 4 /\ 3 + 1 = 4
  OBVIOUS
<1>5. Following(ResetSteps, ResetSteps[1]) = ResetSteps[1 + 1]
  BY <1>1, <1>3, <1>4, InOrder, Zenon
<1>6. Following(ResetSteps, ResetSteps[2]) = ResetSteps[2 + 1]
  BY <1>1, <1>3, <1>4, InOrder, Zenon
<1>7. Following(ResetSteps, ResetSteps[3]) = ResetSteps[3 + 1]
  BY <1>1, <1>3, <1>4, InOrder, Zenon
<1>8. Following(ResetSteps, ResetSteps[4]) = ""
  BY <1>1, <1>3, <1>4, InOrder, Zenon
<1> QED
  BY <1>2, <1>4, <1>5, <1>6, <1>7, <1>8, Zenon

\* The order of the stages of a console reset.
LEMMA ConsoleOrder ==
  /\ Following(ConsoleSteps, "given") = "must"
  /\ Following(ConsoleSteps, "must") = "off"
  /\ Following(ConsoleSteps, "off") = "active"
  /\ Following(ConsoleSteps, "active") = "kick"
  /\ Following(ConsoleSteps, "kick") = ""
<1>1. DOMAIN ConsoleSteps = 1 .. 5 /\ Len(ConsoleSteps) = 5
  BY DEF ConsoleSteps
<1>2. /\ ConsoleSteps[1] = "given"
      /\ ConsoleSteps[2] = "must"
      /\ ConsoleSteps[3] = "off"
      /\ ConsoleSteps[4] = "active"
      /\ ConsoleSteps[5] = "kick"
  BY DEF ConsoleSteps
<1>3. \A j, k \in 1 .. 5 : ConsoleSteps[j] = ConsoleSteps[k] => j = k
  BY <1>2
<1>4. /\ 5 \in Nat /\ 5 \in 1 .. 5
      /\ 1 \in 1 .. 5 /\ 1 # 5 /\ 1 + 1 = 2
      /\ 2 \in 1 .. 5 /\ 2 # 5 /\ 2 + 1 = 3
      /\ 3 \in 1 .. 5 /\ 3 # 5 /\ 3 + 1 = 4
      /\ 4 \in 1 .. 5 /\ 4 # 5 /\ 4 + 1 = 5
  OBVIOUS
<1>5. Following(ConsoleSteps, ConsoleSteps[1]) = ConsoleSteps[1 + 1]
  BY <1>1, <1>3, <1>4, InOrder, Zenon
<1>6. Following(ConsoleSteps, ConsoleSteps[2]) = ConsoleSteps[2 + 1]
  BY <1>1, <1>3, <1>4, InOrder, Zenon
<1>7. Following(ConsoleSteps, ConsoleSteps[3]) = ConsoleSteps[3 + 1]
  BY <1>1, <1>3, <1>4, InOrder, Zenon
<1>8. Following(ConsoleSteps, ConsoleSteps[4]) = ConsoleSteps[4 + 1]
  BY <1>1, <1>3, <1>4, InOrder, Zenon
<1>9. Following(ConsoleSteps, ConsoleSteps[5]) = ""
  BY <1>1, <1>3, <1>4, InOrder, Zenon
<1> QED
  BY <1>2, <1>4, <1>5, <1>6, <1>7, <1>8, <1>9, Zenon

\* The next statement of an operation is one of its statements.
LEMMA NextOfItsOwn ==
  ASSUME NEW op \in Ops, NEW stage \in StagesOf(op), op \in {"reset", "console", "create", "disable"},
         stage \in {"given", "must", "off", "active"}
  PROVE  NextStage(op, stage) \in Stages /\ (NextStage(op, stage) # "" => NextStage(op, stage) \in StagesOf(op))
<1>1. CASE op = "reset"
  BY <1>1, ResetOrder DEF StagesOf, Stages, NextStage
<1>2. CASE op = "console"
  BY <1>2, ConsoleOrder DEF StagesOf, Stages, NextStage
<1>3. CASE op \in {"create", "disable"}
  BY <1>3 DEF StagesOf, Stages, NextStage
<1> QED
  BY <1>1, <1>2, <1>3

\* A reset goes to a later stage of its list or ends.
LEMMA AdvanceStays ==
  ASSUME Pending, Pending', Underway, Grows, NEW s \in Slots, Advance(s),
         req[s].at \in {"given", "must", "off", "active"}
  PROVE  Underway'
<1>1. req[s] \in Request /\ RequestOK(req[s]) /\ req[s].op \in Ops
  BY DEF Underway, Request
<1>2. req[s].op \in {"reset", "console", "create", "disable"} /\ req[s].at \in StagesOf(req[s].op)
  BY <1>1 DEF RequestOK, StagesOf, Ops
<1>3. /\ NextStage(req[s].op, req[s].at) \in Stages
      /\ NextStage(req[s].op, req[s].at) # "" => NextStage(req[s].op, req[s].at) \in StagesOf(req[s].op)
  BY <1>1, <1>2, NextOfItsOwn
<1> QED
  BY <1>3, DoneStays, GotoStays DEF Advance

----------------------------------------------------------------------------
(* Steps that leave the pending logins alone *)

\* A column of an account is written; an account is never unmade.
AccountStep ==
  \/ account' = account
  \/ \E u \in Users, a \in Account :
       account' = [account EXCEPT ![u] = a] /\ (account[u].exists => a.exists)

\* One session is made or ended, or all of an account's are.
SessionStep ==
  \/ session' = session
  \/ \E d \in Devices \cup {Idle.dev} : session' = [session EXCEPT ![d] = NoUser]
  \/ \E d \in Devices \cup {Idle.dev}, u \in Users :
       account[u].exists /\ session' = [session EXCEPT ![d] = u]
  \/ \E u \in Users : session' = SignedOut(u)

\* Steps on accounts and sessions keep the tables, the pending logins and the owners.
LEMMA AroundRequests ==
  ASSUME StaffInv, AccountStep, SessionStep, UNCHANGED <<logins, loginOf, checks>>,
         step' \in Nat, made' \in Nat
  PROVE  Tables' /\ Pending' /\ Grows /\ Owned'
<1>1. account' \in [Users -> Account] /\ \A u \in Users : account[u].exists => account'[u].exists
  BY DEF StaffInv, Tables, AccountStep
<1>2. /\ session' \in [Devices -> Users \cup {NoUser}]
      /\ \A d \in Devices : session'[d] = session[d] \/ session'[d] = NoUser \/ account[session'[d]].exists
  BY DEF StaffInv, Tables, SessionStep, SignedOut
<1>3. Tables' /\ Pending' /\ Grows /\ Kept
  BY <1>1, <1>2, SameKeeps DEF StaffInv, Tables, Pending, Grows
<1>4. \A d \in Devices : session'[d] \in Users \/ session'[d] = NoUser
  BY <1>2
<1> QED
  BY <1>1, <1>2, <1>3, <1>4, KeptOwned, AccountsAssumption DEF StaffInv, Tables

\* A request that is about its account.
LEMMA OfAnAccount ==
  ASSUME StaffInv, NEW s \in Slots, req[s].at # ""
  PROVE  /\ req[s] \in Request /\ req[s].op \in Ops \ {"none"} /\ req[s].at \in StagesOf(req[s].op)
         /\ req[s].who \in Users /\ account[req[s].who] \in Account /\ account[req[s].who].exists
         /\ req[s].dev \in Devices \cup {Idle.dev} /\ req[s].num \in Nat
  BY DEF StaffInv, Underway, Tables, RequestOK, Request, StagesOf

----------------------------------------------------------------------------
(* The account's own settings *)

\* SetOwnPassword keeps the invariant.
LEMMA TypeSetOwnPassword ==
  ASSUME StaffInv, NEW s \in Slots, SetOwnPassword(s)
  PROVE  StaffInv'
<1>1. /\ req[s].op = "change" /\ req[s].who \in Users
      /\ account[req[s].who] \in Account /\ account[req[s].who].exists
  BY OfAnAccount DEF SetOwnPassword, At, StagesOf, Ops
<1>2. AccountStep
  <2>1. PICK a : a = [account[req[s].who] EXCEPT !.pw = "own", !.must = FALSE]
    OBVIOUS
  <2>2. a \in Account /\ a.exists
    BY <1>1, <2>1 DEF Account
  <2>3. account' = account \/ account' = [account EXCEPT ![req[s].who] = a]
    BY <1>1, <2>1 DEF SetOwnPassword, StaffInv, Tables
  <2> QED
    BY <1>1, <2>2, <2>3 DEF AccountStep
<1>3. Tables' /\ Pending' /\ Grows /\ Owned'
  BY <1>2, AroundRequests DEF SessionStep, SetOwnPassword, others, StaffInv, Tables
<1>4. Underway'
  BY <1>1, <1>3, DoneStays, GotoStays DEF SetOwnPassword, StaffInv, StagesOf, Stages
<1> QED
  BY <1>3, <1>4 DEF StaffInv

\* DropSessions keeps the invariant.
LEMMA TypeDropSessions ==
  ASSUME StaffInv, NEW s \in Slots, DropSessions(s)
  PROVE  StaffInv'
<1>1. req[s].op \in {"change", "enable"} /\ req[s].who \in Users
  BY OfAnAccount DEF DropSessions, At, StagesOf, Ops
<1>2. Tables' /\ Pending' /\ Grows /\ Owned'
  BY <1>1, AroundRequests DEF SessionStep, AccountStep, DropSessions, others, StaffInv, Tables
<1>3. Underway'
  BY <1>1, <1>2, DoneStays, GotoStays DEF DropSessions, StaffInv, StagesOf, Stages
<1> QED
  BY <1>2, <1>3 DEF StaffInv

\* FreshSession keeps the invariant.
LEMMA TypeFreshSession ==
  ASSUME StaffInv, NEW s \in Slots, FreshSession(s)
  PROVE  StaffInv'
<1>1. req[s].who \in Users /\ account[req[s].who].exists /\ req[s].dev \in Devices \cup {Idle.dev}
  BY OfAnAccount DEF FreshSession, At
<1>2. Tables' /\ Pending' /\ Grows /\ Owned'
  BY <1>1, AroundRequests DEF SessionStep, AccountStep, FreshSession, others, StaffInv, Tables
<1> QED
  BY <1>2, DoneStays DEF StaffInv, FreshSession

\* ReadPending keeps the invariant.
LEMMA TypeReadPending ==
  ASSUME StaffInv, NEW s \in Slots, ReadPending(s)
  PROVE  StaffInv'
<1>1. req[s].op \in {"page", "enable"}
  BY OfAnAccount DEF ReadPending, At, StagesOf, Ops
<1>2. Tables' /\ Pending' /\ Grows /\ Owned' /\ made' \in Nat
  BY AroundRequests DEF SessionStep, AccountStep, ReadPending, people, memory, StaffInv, Tables
<1>3. Underway'
  <2>1. CASE Done(s)
    BY <1>2, <2>1, DoneStays DEF StaffInv
  <2>2. CASE req' = [req EXCEPT ![s].at = "store", ![s].num = made + 1]
    <3>1. made + 1 \in Nat /\ "store" \in Stages /\ "store" \in StagesOf(req[s].op)
      BY <1>1 DEF StaffInv, Tables, StagesOf, Stages
    <3> QED
      BY <1>2, <2>2, <3>1, MoveStays DEF StaffInv
  <2> QED
    BY <2>1, <2>2 DEF ReadPending
<1> QED
  BY <1>2, <1>3 DEF StaffInv

\* SetTOTPPending keeps the invariant.
LEMMA TypeSetTOTPPending ==
  ASSUME StaffInv, NEW s \in Slots, SetTOTPPending(s)
  PROVE  StaffInv'
<1>1. /\ req[s].who \in Users /\ req[s].num \in Nat
      /\ account[req[s].who] \in Account /\ account[req[s].who].exists
  BY OfAnAccount DEF SetTOTPPending, At
<1>2. AccountStep
  <2>1. PICK a : a = [account[req[s].who] EXCEPT !.pending = req[s].num]
    OBVIOUS
  <2>2. a \in Account /\ a.exists
    BY <1>1, <2>1 DEF Account
  <2>3. account' = account \/ account' = [account EXCEPT ![req[s].who] = a]
    BY <1>1, <2>1 DEF SetTOTPPending, StaffInv, Tables
  <2> QED
    BY <1>1, <2>2, <2>3 DEF AccountStep
<1>3. Tables' /\ Pending' /\ Grows /\ Owned'
  BY <1>2, AroundRequests DEF SessionStep, SetTOTPPending, others, StaffInv, Tables
<1> QED
  BY <1>3, DoneStays DEF SetTOTPPending, StaffInv

\* ConfirmSecret keeps the invariant.
LEMMA TypeConfirmSecret ==
  ASSUME StaffInv, NEW s \in Slots, ConfirmSecret(s)
  PROVE  StaffInv'
<1>1. req[s].op = "enable"
  BY OfAnAccount DEF ConfirmSecret, At, StagesOf, Ops
<1>2. Tables' /\ Pending' /\ Grows /\ Owned'
  BY AroundRequests DEF SessionStep, AccountStep, ConfirmSecret, people, memory, StaffInv, Tables
<1>3. Underway'
  <2>1. CASE Goto(s, "read")
    BY <1>1, <1>2, <2>1, GotoStays DEF StaffInv, StagesOf, Stages
  <2>2. ASSUME NEW k \in CodesNow, req' = [req EXCEPT ![s].at = "enable", ![s].num = k]
        PROVE  Underway'
    <3>1. k \in Nat /\ "enable" \in StagesOf(req[s].op) /\ "enable" \in Stages
      BY <1>1 DEF CodesNow, StaffInv, Tables, StagesOf, Stages
    <3> QED
      BY <2>2, <3>1, <1>2, MoveStays DEF StaffInv
  <2> QED
    BY <2>1, <2>2 DEF ConfirmSecret
<1> QED
  BY <1>2, <1>3 DEF StaffInv

\* Enable keeps the invariant.
LEMMA TypeEnable ==
  ASSUME StaffInv, NEW s \in Slots, EnableTOTP(s)
  PROVE  StaffInv'
<1>1. /\ req[s].op = "enable" /\ req[s].who \in Users /\ req[s].num \in Nat
      /\ account[req[s].who] \in Account /\ account[req[s].who].exists
  BY OfAnAccount DEF EnableTOTP, At, StagesOf, Ops
<1>2. AccountStep
  <2>1. PICK a : a = [account[req[s].who] EXCEPT !.secret = account[req[s].who].pending, !.pending = 0,
                                                 !.lastStep = req[s].num]
    OBVIOUS
  <2>2. a \in Account /\ a.exists
    BY <1>1, <2>1 DEF Account
  <2>3. account' = account \/ account' = [account EXCEPT ![req[s].who] = a]
    BY <1>1, <2>1 DEF EnableTOTP, FirstStep, StaffInv, Tables
  <2> QED
    BY <1>1, <2>2, <2>3 DEF AccountStep
<1>3. Tables' /\ Pending' /\ Grows /\ Owned'
  BY <1>2, AroundRequests DEF SessionStep, EnableTOTP, others, StaffInv, Tables
<1>4. Underway'
  BY <1>1, <1>3, GotoStays DEF EnableTOTP, StaffInv, StagesOf, Stages
<1> QED
  BY <1>3, <1>4 DEF StaffInv

\* CheckDisable keeps the invariant.
LEMMA TypeCheckDisable ==
  ASSUME StaffInv, NEW s \in Slots, CheckDisable(s)
  PROVE  StaffInv'
<1>1. req[s].op = "disable"
  BY OfAnAccount DEF CheckDisable, At, StagesOf, Ops
<1>2. Tables' /\ Pending' /\ Grows /\ Owned'
  BY AroundRequests DEF SessionStep, AccountStep, CheckDisable, people, memory, StaffInv, Tables
<1>3. Underway'
  <2>1. CASE Done(s)
    BY <1>2, <2>1, DoneStays DEF StaffInv
  <2>2. ASSUME NEW k \in CodesNow, req' = [req EXCEPT ![s].at = "use", ![s].num = k]
        PROVE  Underway'
    <3>1. k \in Nat /\ "use" \in StagesOf(req[s].op) /\ "use" \in Stages
      BY <1>1 DEF CodesNow, StaffInv, Tables, StagesOf, Stages
    <3> QED
      BY <2>2, <3>1, <1>2, MoveStays DEF StaffInv
  <2> QED
    BY <2>1, <2>2 DEF CheckDisable
<1> QED
  BY <1>2, <1>3 DEF StaffInv

\* ChangePasswordSubmit keeps the invariant.
LEMMA TypeChangePasswordSubmit ==
  ASSUME StaffInv, NEW s \in Slots, NEW d \in Devices, ChangePasswordSubmit(s, d)
  PROVE  StaffInv'
<1>1. session[d] \in Users /\ account[session[d]].exists
  BY DEF ChangePasswordSubmit, Serves, StaffInv, Tables, Owned
<1>2. Tables' /\ Pending' /\ Grows /\ Owned'
  BY AroundRequests DEF SessionStep, AccountStep, ChangePasswordSubmit, people, memory, StaffInv, Tables
<1>3. Underway'
  BY <1>1, <1>2, StartStays DEF ChangePasswordSubmit, people, StaffInv, StagesOf, Stages, Ops
<1> QED
  BY <1>2, <1>3 DEF StaffInv

\* TwoFactorPage keeps the invariant.
LEMMA TypeTwoFactorPage ==
  ASSUME StaffInv, NEW s \in Slots, NEW d \in Devices, TwoFactorPage(s, d)
  PROVE  StaffInv'
<1>1. session[d] \in Users /\ account[session[d]].exists
  BY DEF TwoFactorPage, Serves, StaffInv, Tables, Owned
<1>2. Tables' /\ Pending' /\ Grows /\ Owned'
  BY AroundRequests DEF SessionStep, AccountStep, TwoFactorPage, people, memory, StaffInv, Tables
<1>3. Underway'
  BY <1>1, <1>2, StartStays DEF TwoFactorPage, people, StaffInv, StagesOf, Stages, Ops
<1> QED
  BY <1>2, <1>3 DEF StaffInv

\* TwoFactorEnable keeps the invariant.
LEMMA TypeTwoFactorEnable ==
  ASSUME StaffInv, NEW s \in Slots, NEW d \in Devices, TwoFactorEnable(s, d)
  PROVE  StaffInv'
<1>1. session[d] \in Users /\ account[session[d]].exists
  BY DEF TwoFactorEnable, Serves, StaffInv, Tables, Owned
<1>2. Tables' /\ Pending' /\ Grows /\ Owned'
  BY AroundRequests DEF SessionStep, AccountStep, TwoFactorEnable, people, memory, StaffInv, Tables
<1>3. Underway'
  BY <1>1, <1>2, StartStays DEF TwoFactorEnable, people, StaffInv, StagesOf, Stages, Ops
<1> QED
  BY <1>2, <1>3 DEF StaffInv

\* TwoFactorDisable keeps the invariant.
LEMMA TypeTwoFactorDisable ==
  ASSUME StaffInv, NEW s \in Slots, NEW d \in Devices, TwoFactorDisable(s, d)
  PROVE  StaffInv'
<1>1. session[d] \in Users /\ account[session[d]].exists
  BY DEF TwoFactorDisable, Serves, StaffInv, Tables, Owned
<1>2. Tables' /\ Pending' /\ Grows /\ Owned'
  BY AroundRequests DEF SessionStep, AccountStep, TwoFactorDisable, people, memory, StaffInv, Tables
<1>3. Underway'
  BY <1>1, <1>2, StartStays DEF TwoFactorDisable, people, StaffInv, StagesOf, Stages, Ops
<1> QED
  BY <1>2, <1>3 DEF StaffInv

----------------------------------------------------------------------------
(* The Staff page, the Team page and the console *)

\* SetGivenPassword keeps the invariant.
LEMMA TypeSetGivenPassword ==
  ASSUME StaffInv, NEW s \in Slots, SetGivenPassword(s)
  PROVE  StaffInv'
<1>1. /\ req[s].at = "given" /\ req[s].who \in Users
      /\ account[req[s].who] \in Account /\ account[req[s].who].exists
  BY OfAnAccount DEF SetGivenPassword, At
<1>2. AccountStep
  <2>1. PICK a : a = [account[req[s].who] EXCEPT !.pw = "given", !.must = FALSE]
    OBVIOUS
  <2>2. a \in Account /\ a.exists
    BY <1>1, <2>1 DEF Account
  <2>3. account' = account \/ account' = [account EXCEPT ![req[s].who] = a]
    BY <1>1, <2>1 DEF SetGivenPassword, StaffInv, Tables
  <2> QED
    BY <1>1, <2>2, <2>3 DEF AccountStep
<1>3. Tables' /\ Pending' /\ Grows /\ Owned'
  BY <1>2, AroundRequests DEF SessionStep, SetGivenPassword, others, StaffInv, Tables
<1>4. Underway'
  BY <1>1, <1>3, DoneStays, AdvanceStays DEF SetGivenPassword, StaffInv
<1> QED
  BY <1>3, <1>4 DEF StaffInv

\* RequirePasswordChange keeps the invariant.
LEMMA TypeRequirePasswordChange ==
  ASSUME StaffInv, NEW s \in Slots, RequirePasswordChange(s)
  PROVE  StaffInv'
<1>1. /\ req[s].at = "must" /\ req[s].who \in Users
      /\ account[req[s].who] \in Account /\ account[req[s].who].exists
  BY OfAnAccount DEF RequirePasswordChange, At
<1>2. AccountStep
  <2>1. PICK a : a = [account[req[s].who] EXCEPT !.must = TRUE]
    OBVIOUS
  <2>2. a \in Account /\ a.exists
    BY <1>1, <2>1 DEF Account
  <2>3. account' = account \/ account' = [account EXCEPT ![req[s].who] = a]
    BY <1>1, <2>1 DEF RequirePasswordChange, StaffInv, Tables
  <2> QED
    BY <1>1, <2>2, <2>3 DEF AccountStep
<1>3. Tables' /\ Pending' /\ Grows /\ Owned'
  BY <1>2, AroundRequests DEF SessionStep, RequirePasswordChange, others, StaffInv, Tables
<1>4. Underway'
  BY <1>1, <1>3, DoneStays, AdvanceStays DEF RequirePasswordChange, StaffInv
<1> QED
  BY <1>3, <1>4 DEF StaffInv

\* DisableTOTP keeps the invariant.
LEMMA TypeDisableTOTP ==
  ASSUME StaffInv, NEW s \in Slots, DisableTOTP(s)
  PROVE  StaffInv'
<1>1. /\ req[s].at = "off" /\ req[s].who \in Users
      /\ account[req[s].who] \in Account /\ account[req[s].who].exists
  BY OfAnAccount DEF DisableTOTP, At
<1>2. AccountStep
  <2>1. PICK a : a = [account[req[s].who] EXCEPT !.secret = 0, !.pending = 0, !.lastStep = 0]
    OBVIOUS
  <2>2. a \in Account /\ a.exists
    BY <1>1, <2>1 DEF Account
  <2>3. account' = account \/ account' = [account EXCEPT ![req[s].who] = a]
    BY <1>1, <2>1 DEF DisableTOTP, StaffInv, Tables
  <2> QED
    BY <1>1, <2>2, <2>3 DEF AccountStep
<1>3. Tables' /\ Pending' /\ Grows /\ Owned'
  BY <1>2, AroundRequests DEF SessionStep, DisableTOTP, others, StaffInv, Tables
<1>4. Underway'
  BY <1>1, <1>3, DoneStays, AdvanceStays DEF DisableTOTP, StaffInv
<1> QED
  BY <1>3, <1>4 DEF StaffInv

\* ConsoleActivate keeps the invariant.
LEMMA TypeConsoleActivate ==
  ASSUME StaffInv, NEW s \in Slots, ConsoleActivate(s)
  PROVE  StaffInv'
<1>1. /\ req[s].at = "active" /\ req[s].who \in Users
      /\ account[req[s].who] \in Account /\ account[req[s].who].exists
  BY OfAnAccount DEF ConsoleActivate, At
<1>2. AccountStep
  <2>1. PICK a : a = [account[req[s].who] EXCEPT !.active = TRUE]
    OBVIOUS
  <2>2. a \in Account /\ a.exists
    BY <1>1, <2>1 DEF Account
  <2>3. account' = account \/ account' = [account EXCEPT ![req[s].who] = a]
    BY <1>1, <2>1 DEF ConsoleActivate, StaffInv, Tables
  <2> QED
    BY <1>1, <2>2, <2>3 DEF AccountStep
<1>3. Tables' /\ Pending' /\ Grows /\ Owned'
  BY <1>2, AroundRequests DEF SessionStep, ConsoleActivate, others, StaffInv, Tables
<1>4. Underway'
  BY <1>1, <1>3, DoneStays, AdvanceStays DEF ConsoleActivate, StaffInv
<1> QED
  BY <1>3, <1>4 DEF StaffInv

\* Kick keeps the invariant.
LEMMA TypeKick ==
  ASSUME StaffInv, NEW s \in Slots, DeleteAuthSessionsForUser(s)
  PROVE  StaffInv'
<1>1. req[s].who \in Users
  BY OfAnAccount DEF DeleteAuthSessionsForUser, At
<1>2. Tables' /\ Pending' /\ Grows /\ Owned'
  BY <1>1, AroundRequests DEF SessionStep, AccountStep, DeleteAuthSessionsForUser, others, StaffInv, Tables
<1> QED
  BY <1>2, DoneStays DEF StaffInv, DeleteAuthSessionsForUser

\* SaveAccess keeps the invariant.
LEMMA TypeSaveAccess ==
  ASSUME StaffInv, NEW s \in Slots, saveAccess(s)
  PROVE  StaffInv'
<1>1. /\ req[s].who \in Users
      /\ account[req[s].who] \in Account /\ account[req[s].who].exists
  BY OfAnAccount DEF saveAccess, At
<1>2. AccountStep
  <2>1. CASE UNCHANGED account
    BY <2>1 DEF AccountStep
  <2>2. ASSUME NEW custom \in BOOLEAN, NEW pages \in SUBSET BackOfficePages,
               account' = [account EXCEPT ![req[s].who].custom = custom, ![req[s].who].pages = pages]
        PROVE  AccountStep
    <3>1. PICK a : a = [account[req[s].who] EXCEPT !.custom = custom, !.pages = pages]
      OBVIOUS
    <3>2. a \in Account /\ a.exists
      BY <1>1, <3>1 DEF Account
    <3>3. account' = [account EXCEPT ![req[s].who] = a]
      BY <1>1, <2>2, <3>1 DEF StaffInv, Tables
    <3> QED
      BY <1>1, <3>2, <3>3 DEF AccountStep
  <2>3. CASE account' = [account EXCEPT ![req[s].who].custom = FALSE, ![req[s].who].pages = {}]
    <3>1. {} \in SUBSET BackOfficePages /\ FALSE \in BOOLEAN
      OBVIOUS
    <3> QED
      BY <2>2, <2>3, <3>1, Zenon
  <2>4. ASSUME NEW pages \in PageChoices,
               account' = [account EXCEPT ![req[s].who].custom = TRUE,
                                          ![req[s].who].pages = pages \ AdminOnlyPages]
        PROVE  AccountStep
    <3>1. pages \ AdminOnlyPages \in SUBSET BackOfficePages
      BY PagesAssumption
    <3> QED
      BY <2>2, <2>4, <3>1
  <2> QED
    BY <2>1, <2>3, <2>4 DEF saveAccess
<1>3. Tables' /\ Pending' /\ Grows /\ Owned'
  BY <1>2, AroundRequests DEF SessionStep, saveAccess, others, StaffInv, Tables
<1> QED
  BY <1>3, DoneStays DEF StaffInv, saveAccess

\* ConsoleReset keeps the invariant.
LEMMA TypeConsoleReset ==
  ASSUME StaffInv, NEW s \in Slots, NEW t \in Users, ConsoleReset(s, t)
  PROVE  StaffInv'
<1>1. Tables' /\ Pending' /\ Grows /\ Owned'
  BY AroundRequests DEF SessionStep, AccountStep, ConsoleReset, people, memory, StaffInv, Tables
<1>2. Head(ConsoleSteps) = "given"
  BY DEF ConsoleSteps
<1>3. Underway'
  BY <1>1, <1>2, StartStays DEF ConsoleReset, people, StaffInv, StagesOf, Stages, Ops
<1> QED
  BY <1>1, <1>3 DEF StaffInv

\* Reset keeps the invariant.
LEMMA TypeReset ==
  ASSUME StaffInv, NEW s \in Slots, NEW d \in Devices, NEW t \in Users, AdminResetStaffPassword(s, d, t)
  PROVE  StaffInv'
<1>1. Tables' /\ Pending' /\ Grows /\ Owned'
  BY AroundRequests DEF SessionStep, AccountStep, AdminResetStaffPassword, people, memory, StaffInv, Tables
<1>2. Head(ResetSteps) = "given"
  BY DEF ResetSteps
<1>3. Underway'
  BY <1>1, <1>2, StartStays DEF AdminResetStaffPassword, people, StaffInv, StagesOf, Stages, Ops
<1> QED
  BY <1>1, <1>3 DEF StaffInv

\* SignOut keeps the invariant.
LEMMA TypeSignOut ==
  ASSUME StaffInv, NEW s \in Slots, NEW d \in Devices, NEW t \in Users, AdminStaffSignOut(s, d, t)
  PROVE  StaffInv'
<1>1. Tables' /\ Pending' /\ Grows /\ Owned'
  BY AroundRequests DEF SessionStep, AccountStep, AdminStaffSignOut, people, memory, StaffInv, Tables
<1>2. Underway'
  BY <1>1, StartStays DEF AdminStaffSignOut, people, StaffInv, StagesOf, Stages, Ops
<1> QED
  BY <1>1, <1>2 DEF StaffInv

\* Create keeps the invariant.
LEMMA TypeCreate ==
  ASSUME StaffInv, NEW s \in Slots, NEW d \in Devices, NEW t \in Users, AdminCreateStaff(s, d, t)
  PROVE  StaffInv' /\ account' \in [Users -> Account] /\ account'[t].exists
<1>1. PICK dept \in Departments, a \in Account :
        a.exists /\ account' = [account EXCEPT ![t] = a]
  <2>1. NewAccount(t) \in Account
    BY DEF NewAccount, Account
  <2>2. PICK dept \in Departments :
          account' = [account EXCEPT ![t] = [NewAccount(t) EXCEPT !.exists = TRUE,
                        !.dept = IF t \in Admins THEN "superworker" ELSE dept]]
    BY DEF AdminCreateStaff
  <2>3. PICK a : a = [NewAccount(t) EXCEPT !.exists = TRUE, !.dept = IF t \in Admins THEN "superworker" ELSE dept]
    OBVIOUS
  <2>4. a \in Account /\ a.exists
    BY <2>1, <2>3 DEF Account
  <2> QED
    BY <2>2, <2>3, <2>4
<1>2. AccountStep /\ account'[t].exists
  BY <1>1 DEF AccountStep, StaffInv, Tables
<1>3. Tables' /\ Pending' /\ Grows /\ Owned'
  BY <1>2, AroundRequests DEF SessionStep, AdminCreateStaff, memory, StaffInv, Tables
<1>4. Underway'
  BY <1>2, <1>3, StartStays DEF AdminCreateStaff, StaffInv, StagesOf, Stages, Ops
<1> QED
  BY <1>2, <1>3, <1>4 DEF StaffInv, Tables

\* Update keeps the invariant.
LEMMA TypeUpdate ==
  ASSUME StaffInv, NEW s \in Slots, NEW d \in Devices, NEW t \in Users, AdminUpdateStaff(s, d, t)
  PROVE  StaffInv'
<1>1. account[t] \in Account /\ account[t].exists
  BY DEF AdminUpdateStaff, StaffInv, Tables
<1>2. AccountStep
  <2>1. PICK dept \in Departments : account' = [account EXCEPT ![t].dept = dept]
    BY DEF AdminUpdateStaff
  <2>2. PICK a : a = [account[t] EXCEPT !.dept = dept]
    OBVIOUS
  <2>3. a \in Account /\ a.exists
    BY <1>1, <2>2 DEF Account
  <2>4. account' = [account EXCEPT ![t] = a]
    BY <2>1, <2>2 DEF StaffInv, Tables
  <2> QED
    BY <2>3, <2>4 DEF AccountStep
<1>3. Tables' /\ Pending' /\ Grows /\ Owned'
  BY <1>2, AroundRequests DEF SessionStep, AdminUpdateStaff, memory, StaffInv, Tables
<1>4. Underway'
  BY <1>1, <1>3, StartStays DEF AdminUpdateStaff, StaffInv, StagesOf, Stages, Ops, Grows
<1> QED
  BY <1>3, <1>4 DEF StaffInv

\* Switching an account on or off.
LEMMA ActiveStep ==
  ASSUME StaffInv, NEW t \in Users, NEW on \in BOOLEAN, account' = [account EXCEPT ![t].active = on]
  PROVE  AccountStep
<1>1. account[t] \in Account
  BY DEF StaffInv, Tables
<1>2. PICK a : a = [account[t] EXCEPT !.active = on]
  OBVIOUS
<1>3. a \in Account /\ a.exists = account[t].exists
  BY <1>1, <1>2 DEF Account
<1>4. account' = [account EXCEPT ![t] = a]
  BY <1>2 DEF StaffInv, Tables
<1> QED
  BY <1>3, <1>4 DEF AccountStep

\* Deactivate keeps the invariant.
LEMMA TypeDeactivate ==
  ASSUME StaffInv, NEW s \in Slots, NEW d \in Devices, NEW t \in Users, AdminDeactivateStaff(s, d, t)
  PROVE  StaffInv'
<1>1. AccountStep
  BY ActiveStep DEF AdminDeactivateStaff
<1>2. Tables' /\ Pending' /\ Grows /\ Owned'
  BY <1>1, AroundRequests DEF SessionStep, AdminDeactivateStaff, memory, StaffInv, Tables
<1>3. Underway'
  BY <1>2, StartStays DEF AdminDeactivateStaff, StaffInv, StagesOf, Stages, Ops, Grows
<1> QED
  BY <1>2, <1>3 DEF StaffInv

\* Requests stay right when nothing about them changes.
LEMMA RequestsStay ==
  ASSUME Pending, Pending', Underway, Grows, UNCHANGED req
  PROVE  Underway'
<1>1. Len(logins) \in Nat /\ Len(logins') \in Nat
  BY DEF Pending
<1> QED
  BY <1>1 DEF Underway, RequestOK, Grows

\* Activate keeps the invariant.
LEMMA TypeActivate ==
  ASSUME StaffInv, NEW d \in Devices, NEW t \in Users, AdminActivateStaff(d, t)
  PROVE  StaffInv'
<1>1. AccountStep
  BY ActiveStep DEF AdminActivateStaff
<1>2. Tables' /\ Pending' /\ Grows /\ Owned'
  BY <1>1, AroundRequests DEF SessionStep, AdminActivateStaff, memory, StaffInv, Tables
<1> QED
  BY <1>2, RequestsStay DEF StaffInv, AdminActivateStaff

----------------------------------------------------------------------------
(* Sessions and logins that end, the clock and a restart *)

\* End keeps the invariant.
LEMMA TypeEnd ==
  ASSUME StaffInv, NEW d \in Devices, Refuse(d) \/ Logout(d) \/ ExpireSession(d)
  PROVE  StaffInv'
<1>1. Tables' /\ Pending' /\ Grows /\ Owned'
  BY AroundRequests DEF SessionStep, AccountStep, Refuse, Logout, ExpireSession, memory, StaffInv, Tables
<1> QED
  BY <1>1, RequestsStay DEF StaffInv, Refuse, Logout, ExpireSession

\* Tick keeps the invariant.
LEMMA TypeTick ==
  ASSUME StaffInv, Tick
  PROVE  StaffInv'
<1>1. Tables' /\ Pending' /\ Grows /\ Owned'
  BY AroundRequests DEF SessionStep, AccountStep, Tick, people, memory, StaffInv, Tables
<1> QED
  BY <1>1, RequestsStay DEF StaffInv, Tick

\* ExpireLogin keeps the invariant.
LEMMA TypeExpireLogin ==
  ASSUME StaffInv, NEW t \in DOMAIN logins, ExpireLogin(t)
  PROVE  StaffInv'
<1>0. t \in 1 .. Len(logins)
  BY DEF StaffInv, Pending
<1>1. PICK m : m = [logins[t] EXCEPT !.user = NoUser]
  OBVIOUS
<1>2. logins[t] \in Login
  BY <1>0 DEF StaffInv, Pending
<1>3. m \in Login /\ m.user = NoUser /\ m.tries = logins[t].tries
  BY <1>1, <1>2 DEF Login
<1>4. logins' = [logins EXCEPT ![t] = m] /\ logins \in Seq(Login)
  BY <1>1 DEF StaffInv, Pending, ExpireLogin
<1>5. /\ logins' \in Seq(Login) /\ Len(logins') = Len(logins)
      /\ \A x \in 1 .. Len(logins) : logins'[x] = IF x = t THEN m ELSE logins[x]
  BY <1>0, <1>3, <1>4
<1>6. Kept
  BY <1>3, <1>5 DEF Kept, ExpireLogin, StaffInv, Pending
<1>7. Pending' /\ Grows /\ Tables'
  BY <1>6 DEF ExpireLogin, people, Kept, StaffInv, Pending, Grows, Tables
<1>8. Owned'
  BY <1>6, <1>7, KeptOwned, AccountsAssumption DEF ExpireLogin, people, StaffInv, Tables
<1> QED
  BY <1>7, <1>8, RequestsStay DEF StaffInv, ExpireLogin

\* After a restart no login is pending.
LEMMA RestartKeeps ==
  ASSUME StaffInv, Restart
  PROVE  Kept /\ \A t \in 1 .. Len(logins) : logins'[t].user = NoUser
<1>1. logins \in Seq(Login) /\ DOMAIN logins = 1 .. Len(logins) /\ Len(logins) \in Nat
  BY DEF StaffInv, Pending
<1>2. \A t \in 1 .. Len(logins) : logins'[t] = [logins[t] EXCEPT !.user = NoUser]
  BY <1>1 DEF Restart
<1>3. \A t \in 1 .. Len(logins) :
        logins'[t] \in Login /\ logins'[t].user = NoUser /\ logins'[t].tries = logins[t].tries
  <2>1. ASSUME NEW t \in 1 .. Len(logins), NEW m, m = [logins[t] EXCEPT !.user = NoUser]
        PROVE  m \in Login /\ m.user = NoUser /\ m.tries = logins[t].tries
    <3>1. logins[t] \in Login
      BY <1>1
    <3> QED
      BY <2>1, <3>1 DEF Login
  <2> QED
    BY <1>2, <2>1
<1>4. logins' = [t \in 1 .. Len(logins) |-> logins'[t]]
  BY <1>1 DEF Restart
<1>5. logins' \in Seq(Login) /\ Len(logins') = Len(logins)
  <2>1. logins' \in [1 .. Len(logins) -> Login]
    BY <1>3, <1>4, Zenon
  <2> QED
    BY <1>1, <2>1
<1> QED
  BY <1>3, <1>5 DEF Kept, StaffInv, Pending, Restart

\* Restart keeps the invariant.
LEMMA TypeRestart ==
  ASSUME StaffInv, Restart
  PROVE  StaffInv'
<1>1. Kept
  BY RestartKeeps
<1>2. Pending' /\ Grows /\ Tables'
  BY <1>1 DEF Restart, people, Kept, StaffInv, Pending, Grows, Tables
<1>3. Owned'
  BY <1>1, <1>2, KeptOwned, AccountsAssumption DEF Restart, people, StaffInv, Tables
<1>4. Underway'
  BY IdleIsARequest DEF Restart, Underway
<1> QED
  BY <1>2, <1>3, <1>4 DEF StaffInv

----------------------------------------------------------------------------
(* Type correctness *)

\* The start is inside the invariant.
LEMMA InitInv == Init => StaffInv
<1> SUFFICES ASSUME Init PROVE StaffInv
  OBVIOUS
<1>1. Tables
  <2>1. \A u \in Users : NewAccount(u) \in Account
    BY DEF NewAccount, Account
  <2> QED
    BY <2>1 DEF Init, Tables
<1>2. Pending
  BY DEF Init, Pending
<1>3. Underway
  BY IdleIsARequest DEF Init, Underway
<1>4. Owned
  BY DEF Init, Owned
<1> QED
  BY <1>1, <1>2, <1>3, <1>4 DEF StaffInv

\* Every step keeps the invariant.
LEMMA NextInv == StaffInv /\ [Next]_vars => StaffInv'
<1> SUFFICES ASSUME StaffInv, [Next]_vars PROVE StaffInv'
  OBVIOUS
<1>1. ASSUME NEW s \in Slots, Handler(s) PROVE StaffInv'
  BY <1>1, TypeVerify, TypeUse, TypeFinish, TypeSetOwnPassword, TypeDropSessions, TypeFreshSession,
     TypeReadPending, TypeSetTOTPPending, TypeConfirmSecret, TypeEnable, TypeCheckDisable,
     TypeSetGivenPassword, TypeRequirePasswordChange, TypeDisableTOTP, TypeConsoleActivate,
     TypeKick, TypeSaveAccess DEF Handler
<1>2. ASSUME NEW s \in Slots, NEW d \in Devices, Submit(s, d) PROVE StaffInv'
  BY <1>2, TypeSubmitCode, TypeChangePasswordSubmit, TypeTwoFactorPage, TypeTwoFactorEnable,
     TypeTwoFactorDisable, TypeSubmitLogin DEF Submit
<1>3. ASSUME NEW s \in Slots, NEW d \in Devices, NEW t \in Users, StaffPage(s, d, t) PROVE StaffInv'
  BY <1>3, TypeReset, TypeSignOut, TypeCreate, TypeUpdate, TypeDeactivate DEF StaffPage
<1>4. CASE UNCHANGED vars
  <2>1. Tables' /\ Pending' /\ Owned' /\ Grows
    BY <1>4 DEF vars, StaffInv, Tables, Pending, Owned, Grows
  <2> QED
    BY <1>4, <2>1, RequestsStay DEF vars, StaffInv
<1> QED
  BY <1>1, <1>2, <1>3, <1>4, TypeConsoleReset, TypeActivate, TypeEnd, TypeExpireLogin, TypeTick, TypeRestart DEF Next

\* Every reachable state satisfies the inductive invariant.
THEOREM StaffInvariant == Spec => []StaffInv
<1> QED
  BY InitInv, NextInv, PTL DEF Spec

\* Every table and request holds what its columns and steps may hold, and no
\* session is of an account that was never made.
THEOREM StaffTypes == Spec => []TypeOK
<1>1. ASSUME StaffInv PROVE TypeOK
  <2>1. \A t \in DOMAIN logins : logins[t] \in Login
    BY <1>1 DEF StaffInv, Pending
  <2>2. \A t \in DOMAIN logins : logins[t].user \in Users \cup {NoUser} /\ logins[t].tries \in 0 .. MaxCodeAttempts
    BY <2>1 DEF Login
  <2>3. \A s \in Slots : req[s].op \in Ops /\ req[s].at \in Stages
    BY <1>1 DEF StaffInv, Underway, Request
  <2> QED
    BY <1>1, <2>2, <2>3 DEF StaffInv, Tables, Pending, Owned, TypeOK
<1> QED
  BY <1>1, StaffInvariant, PTL

----------------------------------------------------------------------------
(* Steps that change neither passwords nor the codes taken *)

\* Every account keeps its password, its mark and the last code step it took,
\* and no request passes its "must" statement.
PlainStep ==
  /\ \A u \in Users : /\ account'[u].exists = account[u].exists /\ account'[u].pw = account[u].pw
                      /\ account'[u].must = account[u].must /\ account'[u].lastStep = account[u].lastStep
  /\ half' = half /\ codes' = codes
  /\ \A x \in Slots : req'[x] = req[x] \/ req[x].at # "must"

\* A column of an account that is none of these.
LEMMA PlainColumn ==
  ASSUME StaffInv, NEW u \in Users, NEW a, account' = [account EXCEPT ![u] = a],
         a.exists = account[u].exists, a.pw = account[u].pw, a.must = account[u].must,
         a.lastStep = account[u].lastStep
  PROVE  \A v \in Users : /\ account'[v].exists = account[v].exists /\ account'[v].pw = account[v].pw
                          /\ account'[v].must = account[v].must /\ account'[v].lastStep = account[v].lastStep
  BY DEF StaffInv, Tables

\* These handlers write no password, mark or accepted code.
LEMMA PlainHandlers ==
  ASSUME StaffInv, NEW s \in Slots,
         \/ VerifyLoginCode(s) \/ FinishLogin(s) \/ DropSessions(s) \/ FreshSession(s) \/ ReadPending(s)
         \/ SetTOTPPending(s) \/ ConfirmSecret(s) \/ CheckDisable(s) \/ ConsoleActivate(s)
         \/ DeleteAuthSessionsForUser(s) \/ saveAccess(s)
  PROVE  PlainStep
<1> USE DEF At
<1>1. CASE VerifyLoginCode(s)
  BY <1>1 DEF VerifyLoginCode, WrongCode, Done, people, PlainStep, StaffInv, Underway
<1>2. CASE FinishLogin(s)
  BY <1>2 DEF FinishLogin, Done, PlainStep, StaffInv, Underway
<1>3. CASE DropSessions(s)
  BY <1>3 DEF DropSessions, Done, Goto, others, PlainStep, StaffInv, Underway
<1>4. CASE FreshSession(s)
  BY <1>4 DEF FreshSession, Done, others, PlainStep, StaffInv, Underway
<1>5. CASE ReadPending(s)
  BY <1>5 DEF ReadPending, Done, people, PlainStep, StaffInv, Underway
<1>6. CASE SetTOTPPending(s)
  <2>1. req[s].who \in Users /\ account[req[s].who] \in Account
    BY <1>6, OfAnAccount DEF SetTOTPPending
  <2>2. PICK a : a = [account[req[s].who] EXCEPT !.pending = req[s].num]
    OBVIOUS
  <2>3. a.exists = account[req[s].who].exists /\ a.pw = account[req[s].who].pw
        /\ a.must = account[req[s].who].must /\ a.lastStep = account[req[s].who].lastStep
    BY <2>1, <2>2 DEF Account
  <2>4. account' = account \/ account' = [account EXCEPT ![req[s].who] = a]
    BY <1>6, <2>2 DEF SetTOTPPending, StaffInv, Tables
  <2>5. \A x \in Slots : req'[x] = req[x] \/ req[x].at # "must"
    BY <1>6 DEF SetTOTPPending, Done, StaffInv, Underway
  <2> QED
    BY <1>6, <2>1, <2>3, <2>4, <2>5, PlainColumn DEF PlainStep, SetTOTPPending, others
<1>7. CASE ConfirmSecret(s)
  BY <1>7 DEF ConfirmSecret, Goto, people, PlainStep, StaffInv, Underway
<1>8. CASE CheckDisable(s)
  BY <1>8 DEF CheckDisable, Done, people, PlainStep, StaffInv, Underway
<1>9. CASE ConsoleActivate(s)
  <2>1. req[s].who \in Users /\ account[req[s].who] \in Account
    BY <1>9, OfAnAccount DEF ConsoleActivate
  <2>2. PICK a : a = [account[req[s].who] EXCEPT !.active = TRUE]
    OBVIOUS
  <2>3. a.exists = account[req[s].who].exists /\ a.pw = account[req[s].who].pw
        /\ a.must = account[req[s].who].must /\ a.lastStep = account[req[s].who].lastStep
    BY <2>1, <2>2 DEF Account
  <2>4. account' = [account EXCEPT ![req[s].who] = a]
    BY <1>9, <2>2 DEF ConsoleActivate, StaffInv, Tables
  <2>5. \A x \in Slots : req'[x] = req[x] \/ req[x].at # "must"
    BY <1>9 DEF ConsoleActivate, Advance, Goto, Done, StaffInv, Underway
  <2> QED
    BY <1>9, <2>1, <2>3, <2>4, <2>5, PlainColumn DEF PlainStep, ConsoleActivate, others
<1>10. CASE DeleteAuthSessionsForUser(s)
  BY <1>10 DEF DeleteAuthSessionsForUser, Done, others, PlainStep, StaffInv, Underway
<1>11. CASE saveAccess(s)
  <2>1. req[s].who \in Users /\ account[req[s].who] \in Account
    BY <1>11, OfAnAccount DEF saveAccess
  <2>2. \A x \in Slots : req'[x] = req[x] \/ req[x].at # "must"
    BY <1>11 DEF saveAccess, Done, StaffInv, Underway
  <2>3. CASE account' = account
    BY <1>11, <2>2, <2>3 DEF saveAccess, others, PlainStep
  <2>4. ASSUME NEW custom, NEW pages,
               account' = [account EXCEPT ![req[s].who].custom = custom, ![req[s].who].pages = pages]
        PROVE  PlainStep
    <3>1. PICK a : a = [account[req[s].who] EXCEPT !.custom = custom, !.pages = pages]
      OBVIOUS
    <3>2. a.exists = account[req[s].who].exists /\ a.pw = account[req[s].who].pw
          /\ a.must = account[req[s].who].must /\ a.lastStep = account[req[s].who].lastStep
      BY <2>1, <3>1 DEF Account
    <3>3. account' = [account EXCEPT ![req[s].who] = a]
      BY <2>1, <2>4, <3>1 DEF StaffInv, Tables
    <3> QED
      BY <1>11, <2>1, <2>2, <3>2, <3>3, PlainColumn DEF PlainStep, saveAccess, others
  <2> QED
    BY <1>11, <2>3, <2>4, Zenon DEF saveAccess
<1> QED
  BY <1>1, <1>2, <1>3, <1>4, <1>5, <1>6, <1>7, <1>8, <1>9, <1>10, <1>11

\* A request that starts in a free slot.
LEMMA StartPlain ==
  ASSUME StaffInv, NEW s \in Slots, Free(s), NEW r, req' = [req EXCEPT ![s] = r]
  PROVE  \A x \in Slots : req'[x] = req[x] \/ req[x].at = ""
<1>1. Idle.at = ""
  BY DEF Idle
<1> QED
  BY <1>1 DEF StaffInv, Underway, Free

\* No submitted form writes a password, mark or accepted code by itself.
LEMMA PlainSubmits ==
  ASSUME StaffInv, NEW s \in Slots, NEW d \in Devices, Submit(s, d)
  PROVE  PlainStep
<1>1. UNCHANGED people /\ UNCHANGED <<codes, half>>
  BY DEF Submit, LoginCodeSubmit, ChangePasswordSubmit, TwoFactorPage, TwoFactorEnable, TwoFactorDisable, LoginSubmit
<1>2. \A x \in Slots : req'[x] = req[x] \/ req[x].at = ""
  <2>1. req' = req \/ (Free(s) /\ \E r : req' = [req EXCEPT ![s] = r])
    BY DEF Submit, LoginCodeSubmit, ChangePasswordSubmit, TwoFactorPage, TwoFactorEnable, TwoFactorDisable,
           LoginSubmit, Start
  <2> QED
    BY <2>1, StartPlain
<1> QED
  BY <1>1, <1>2 DEF people, PlainStep

\* Nor does what the staff page starts.
LEMMA PlainStaffPage ==
  ASSUME StaffInv, NEW s \in Slots, NEW d, NEW t \in Users,
         \/ AdminResetStaffPassword(s, d, t) \/ AdminStaffSignOut(s, d, t) \/ AdminUpdateStaff(s, d, t)
         \/ AdminDeactivateStaff(s, d, t) \/ ConsoleReset(s, t)
  PROVE  PlainStep
<1>1. UNCHANGED <<codes, half>>
  BY DEF AdminResetStaffPassword, AdminStaffSignOut, AdminUpdateStaff, AdminDeactivateStaff, ConsoleReset
<1>2. \A x \in Slots : req'[x] = req[x] \/ req[x].at = ""
  <2>1. Free(s) /\ \E r : req' = [req EXCEPT ![s] = r]
    BY DEF AdminResetStaffPassword, AdminStaffSignOut, AdminUpdateStaff, AdminDeactivateStaff, ConsoleReset, Start
  <2> QED
    BY <2>1, StartPlain
<1>3. \A u \in Users : /\ account'[u].exists = account[u].exists /\ account'[u].pw = account[u].pw
                       /\ account'[u].must = account[u].must /\ account'[u].lastStep = account[u].lastStep
  <2>1. account[t] \in Account
    BY DEF StaffInv, Tables
  <2>2. CASE AdminUpdateStaff(s, d, t)
    <3>1. PICK dept \in Departments : account' = [account EXCEPT ![t].dept = dept]
      BY <2>2 DEF AdminUpdateStaff
    <3>2. PICK a : a = [account[t] EXCEPT !.dept = dept]
      OBVIOUS
    <3>3. a.exists = account[t].exists /\ a.pw = account[t].pw /\ a.must = account[t].must
          /\ a.lastStep = account[t].lastStep
      BY <2>1, <3>2 DEF Account
    <3> QED
      BY <3>1, <3>2, <3>3, PlainColumn
  <2>3. CASE AdminDeactivateStaff(s, d, t)
    <3>1. PICK a : a = [account[t] EXCEPT !.active = FALSE]
      OBVIOUS
    <3>2. a.exists = account[t].exists /\ a.pw = account[t].pw /\ a.must = account[t].must
          /\ a.lastStep = account[t].lastStep
      BY <2>1, <3>1 DEF Account
    <3>3. account' = [account EXCEPT ![t] = a]
      BY <2>3, <3>1 DEF AdminDeactivateStaff
    <3> QED
      BY <3>2, <3>3, PlainColumn
  <2> QED
    BY <2>2, <2>3 DEF AdminResetStaffPassword, AdminStaffSignOut, ConsoleReset, people
<1> QED
  BY <1>1, <1>2, <1>3 DEF PlainStep

\* Nor do sign-outs, expiries, the clock and the restart.
LEMMA PlainOthers ==
  ASSUME StaffInv,
         \/ \E d \in Devices, t \in Users : AdminActivateStaff(d, t)
         \/ \E d \in Devices : Refuse(d) \/ Logout(d) \/ ExpireSession(d)
         \/ \E t \in DOMAIN logins : ExpireLogin(t)
         \/ Tick \/ UNCHANGED vars
  PROVE  PlainStep
<1>1. ASSUME NEW d \in Devices, NEW t \in Users, AdminActivateStaff(d, t) PROVE PlainStep
  <2>1. account[t] \in Account
    BY DEF StaffInv, Tables
  <2>2. PICK a : a = [account[t] EXCEPT !.active = TRUE]
    OBVIOUS
  <2>3. a.exists = account[t].exists /\ a.pw = account[t].pw /\ a.must = account[t].must
        /\ a.lastStep = account[t].lastStep
    BY <2>1, <2>2 DEF Account
  <2>4. account' = [account EXCEPT ![t] = a]
    BY <1>1, <2>2 DEF AdminActivateStaff
  <2> QED
    BY <1>1, <2>3, <2>4, PlainColumn DEF AdminActivateStaff, PlainStep
<1> QED
  BY <1>1 DEF Refuse, Logout, ExpireSession, ExpireLogin, Tick, vars, people, PlainStep

----------------------------------------------------------------------------
(* A password somebody else knows opens one page only *)

\* Such a step keeps every one-time password marked.
LEMMA PlainKeepsMarks == StaffInv /\ OneTimePassword /\ PlainStep => OneTimePassword'
  BY DEF OneTimePassword, PlainStep

\* The same for a column that is neither password nor mark.
LEMMA MarksColumn ==
  ASSUME StaffInv, NEW u \in Users, NEW a, account' = [account EXCEPT ![u] = a],
         a.exists = account[u].exists, a.pw = account[u].pw, a.must = account[u].must
  PROVE  \A v \in Users : /\ account'[v].exists = account[v].exists /\ account'[v].pw = account[v].pw
                          /\ account'[v].must = account[v].must
  BY DEF StaffInv, Tables

\* The steps that write passwords and marks: a password somebody else knows is
\* marked by the statement that follows, or its account is noted as broken off.
LEMMA MarksFollow ==
  ASSUME StaffInv, OneTimePassword, NEW s \in Slots,
         \/ UseCode(s) \/ SetOwnPassword(s) \/ EnableTOTP(s) \/ SetGivenPassword(s)
         \/ RequirePasswordChange(s) \/ DisableTOTP(s)
         \/ \E d \in Devices, t \in Users : AdminCreateStaff(s, d, t)
  PROVE  OneTimePassword'
<1> USE DEF At
<1>0. req \in [Slots -> Request] /\ account \in [Users -> Account]
  BY DEF StaffInv, Underway, Tables
<1>1. CASE UseCode(s)
  <2>1. \A u \in Users : /\ account'[u].exists = account[u].exists /\ account'[u].pw = account[u].pw
                         /\ account'[u].must = account[u].must
    <3>1. req[s].who \in Users /\ account[req[s].who] \in Account
      BY <1>1, OfAnAccount DEF UseCode
    <3>2. PICK a : a = [account[req[s].who] EXCEPT !.lastStep = req[s].num]
      OBVIOUS
    <3>3. a.exists = account[req[s].who].exists /\ a.pw = account[req[s].who].pw
          /\ a.must = account[req[s].who].must
      BY <3>1, <3>2 DEF Account
    <3>4. account' = account \/ account' = [account EXCEPT ![req[s].who] = a]
      BY <1>1, <3>2 DEF UseCode, UseTOTPStep
    <3> QED
      BY <3>1, <3>3, <3>4, MarksColumn
  <2>2. \A x \in Slots : req'[x] = req[x] \/ req[x].at # "must"
    BY <1>0, <1>1 DEF UseCode, Goto, WrongCode, Done
  <2> QED
    BY <1>1, <2>1, <2>2 DEF UseCode, OneTimePassword
<1>2. CASE SetOwnPassword(s)
  <2>1. \A u \in Users : \/ account'[u] = account[u]
                         \/ account'[u].pw = "own"
    BY <1>0, <1>2 DEF SetOwnPassword, Account
  <2>2. \A x \in Slots : req'[x] = req[x] \/ req[x].at # "must"
    BY <1>0, <1>2 DEF SetOwnPassword, Goto, Done
  <2> QED
    BY <1>2, <2>1, <2>2 DEF SetOwnPassword, OneTimePassword
<1>3. CASE EnableTOTP(s)
  <2>1. \A u \in Users : /\ account'[u].exists = account[u].exists /\ account'[u].pw = account[u].pw
                         /\ account'[u].must = account[u].must
    BY <1>0, <1>3 DEF EnableTOTP, Account
  <2>2. \A x \in Slots : req'[x] = req[x] \/ req[x].at # "must"
    BY <1>0, <1>3 DEF EnableTOTP, Goto
  <2> QED
    BY <1>3, <2>1, <2>2 DEF EnableTOTP, OneTimePassword
<1>4. CASE SetGivenPassword(s)
  <2>1. req[s].op \in {"reset", "console"}
    BY <1>4, OfAnAccount DEF SetGivenPassword, StagesOf, Ops
  <2>2. NextStage(req[s].op, req[s].at) = "must"
    BY <1>4, <2>1, ResetOrder, ConsoleOrder DEF NextStage, SetGivenPassword
  <2>3. CASE account' = account /\ Done(s)
    <3>1. \A x \in Slots : req'[x] = req[x] \/ req[x].at # "must"
      BY <1>0, <1>4, <2>3 DEF SetGivenPassword, Done
    <3> QED
      BY <1>4, <2>3, <3>1 DEF SetGivenPassword, OneTimePassword
  <2>4. CASE /\ account' = [account EXCEPT ![req[s].who].pw = "given", ![req[s].who].must = FALSE]
             /\ Advance(s)
    <3>1. Goto(s, "must")
      BY <2>2, <2>4 DEF Advance
    <3>2. req'[s].who = req[s].who /\ req'[s].at = "must"
      BY <1>0, <3>1 DEF Goto, Request
    <3>3. \A x \in Slots : x # s => req'[x] = req[x]
      BY <1>0, <3>1 DEF Goto
    <3>4. \A u \in Users : u # req[s].who => account'[u] = account[u]
      BY <1>0, <2>4
    <3> QED
      BY <1>4, <3>2, <3>3, <3>4 DEF SetGivenPassword, OneTimePassword
  <2> QED
    BY <1>4, <2>3, <2>4 DEF SetGivenPassword
<1>5. CASE RequirePasswordChange(s)
  <2>1. \A x \in Slots \ {s} : req'[x] = req[x]
    BY <1>0, <1>5 DEF RequirePasswordChange, Advance, Goto, Done
  <2>2. CASE account' = account /\ half' = half \cup {req[s].who}
    BY <2>1, <2>2 DEF OneTimePassword
  <2>3. CASE account' = [account EXCEPT ![req[s].who].must = TRUE] /\ half' = half \ {req[s].who}
    <3>1. \A u \in Users : \/ account'[u] = account[u] /\ u # req[s].who
                           \/ account'[u].must = TRUE
      BY <1>0, <2>3 DEF Account
    <3> QED
      BY <2>1, <2>3, <3>1 DEF OneTimePassword
  <2> QED
    BY <1>5, <2>2, <2>3 DEF RequirePasswordChange
<1>6. CASE DisableTOTP(s)
  <2>1. \A u \in Users : /\ account'[u].exists = account[u].exists /\ account'[u].pw = account[u].pw
                         /\ account'[u].must = account[u].must
    <3>1. req[s].who \in Users /\ account[req[s].who] \in Account
      BY <1>6, OfAnAccount DEF DisableTOTP
    <3>2. PICK a : a = [account[req[s].who] EXCEPT !.secret = 0, !.pending = 0, !.lastStep = 0]
      OBVIOUS
    <3>3. a.exists = account[req[s].who].exists /\ a.pw = account[req[s].who].pw
          /\ a.must = account[req[s].who].must
      BY <3>1, <3>2 DEF Account
    <3>4. account' = account \/ account' = [account EXCEPT ![req[s].who] = a]
      BY <1>6, <3>2 DEF DisableTOTP
    <3> QED
      BY <3>1, <3>3, <3>4, MarksColumn
  <2>2. \A x \in Slots : req'[x] = req[x] \/ req[x].at # "must"
    BY <1>0, <1>6 DEF DisableTOTP, Advance, Goto, Done
  <2> QED
    BY <1>6, <2>1, <2>2 DEF DisableTOTP, OneTimePassword
<1>7. ASSUME NEW d \in Devices, NEW t \in Users, AdminCreateStaff(s, d, t) PROVE OneTimePassword'
  <2>1. req'[s].at = "must" /\ req'[s].who = t
    BY <1>0, <1>7 DEF AdminCreateStaff, Start, Idle
  <2>2. \A x \in Slots : req'[x] = req[x] \/ req[x].at # "must"
    BY <1>7, StartPlain DEF AdminCreateStaff, Start
  <2>3. \A u \in Users \ {t} : account'[u] = account[u]
    BY <1>0, <1>7 DEF AdminCreateStaff
  <2>4. half' = half
    BY <1>7 DEF AdminCreateStaff
  <2> QED
    BY <2>1, <2>2, <2>3, <2>4 DEF OneTimePassword
<1> QED
  BY <1>1, <1>2, <1>3, <1>4, <1>5, <1>6, <1>7

\* A restart breaks off the requests that were about to mark an account.
LEMMA RestartNotes == OneTimePassword /\ Restart => OneTimePassword'
  BY DEF Restart, people, OneTimePassword

\* Every step keeps every one-time password marked.
LEMMA NextMarks ==
  ASSUME StaffInv, OneTimePassword, [Next]_vars
  PROVE  OneTimePassword'
<1>1. ASSUME NEW s \in Slots, Handler(s) PROVE OneTimePassword'
  BY <1>1, PlainHandlers, PlainKeepsMarks, MarksFollow DEF Handler
<1>2. ASSUME NEW s \in Slots, NEW d \in Devices, Submit(s, d) PROVE OneTimePassword'
  BY <1>2, PlainSubmits, PlainKeepsMarks
<1>3. ASSUME NEW s \in Slots, NEW d \in Devices, NEW t \in Users, StaffPage(s, d, t) PROVE OneTimePassword'
  BY <1>3, PlainStaffPage, PlainKeepsMarks, MarksFollow DEF StaffPage
<1>4. ASSUME NEW s \in Slots, NEW t \in Users, ConsoleReset(s, t) PROVE OneTimePassword'
  BY <1>4, PlainStaffPage, PlainKeepsMarks
<1> QED
  BY <1>1, <1>2, <1>3, <1>4, PlainOthers, PlainKeepsMarks, RestartNotes DEF Next

\* A password known to somebody else opens nothing but the change-password page,
\* whatever the operations that set it, and others on the same account, do in
\* between (SetUserPassword clears the mark, RequirePasswordChange sets it).
THEOREM OneTime == Spec => []OneTimePassword
<1>1. Init => OneTimePassword
  BY AccountsAssumption DEF Init, OneTimePassword, NewAccount
<1>2. StaffInv /\ OneTimePassword /\ [Next]_vars => OneTimePassword'
  BY NextMarks
<1> QED
  BY <1>1, <1>2, StaffInvariant, PTL DEF Spec

----------------------------------------------------------------------------
(* The codes taken for an account rise *)

\* Such a step keeps the accepted codes and the last one.
LEMMA PlainKeepsCodes ==
  StaffInv /\ Remembered /\ CodesRise /\ PlainStep => Remembered' /\ CodesRise'
  BY DEF Remembered, CodesRise, PlainStep

\* One account gets new codes, its last one remembered.
LEMMA CodesSet ==
  ASSUME Remembered, CodesRise, NEW u \in Users, NEW c \in Seq(Nat), NEW n \in Nat,
         codes' = [codes EXCEPT ![u] = c],
         account'[u].lastStep = n, account'[u].exists,
         \A v \in Users : v # u => account'[v].lastStep = account[v].lastStep,
         \A v \in Users : account'[v].exists = account[v].exists,
         \A i \in 1 .. Len(c) : c[i] <= n,
         \A i, j \in 1 .. Len(c) : i < j => c[i] < c[j]
  PROVE  Remembered' /\ CodesRise'
<1>1. codes' \in [Users -> Seq(Nat)] /\ codes'[u] = c /\ \A v \in Users : v # u => codes'[v] = codes[v]
  BY DEF Remembered
<1>2. DOMAIN c = 1 .. Len(c)
  OBVIOUS
<1>3. CodesRise'
  BY <1>1, <1>2 DEF CodesRise
<1> QED
  BY <1>1, <1>3 DEF Remembered

\* Codes stay as they are, and the last step of every account that has some.
LEMMA CodesStay ==
  ASSUME Remembered, CodesRise, codes' = codes,
         \A v \in Users : account'[v].lastStep = account[v].lastStep \/ codes[v] = <<>>,
         \A v \in Users : account[v].exists => account'[v].exists
  PROVE  Remembered' /\ CodesRise'
<1>1. CodesRise'
  BY DEF CodesRise
<1>2. ASSUME NEW v \in Users, NEW i \in 1 .. Len(codes[v]) PROVE codes[v][i] <= account'[v].lastStep
  <2>1. codes[v] # <<>>
    OBVIOUS
  <2> QED
    BY <2>1 DEF Remembered
<1> QED
  BY <1>1, <1>2 DEF Remembered

\* A number above all of a rising sequence goes to its end.
LEMMA AppendRises ==
  ASSUME NEW c \in Seq(Nat), NEW m \in Nat, NEW k \in Nat, m < k,
         \A i \in 1 .. Len(c) : c[i] <= m,
         \A i, j \in 1 .. Len(c) : i < j => c[i] < c[j]
  PROVE  /\ Append(c, k) \in Seq(Nat)
         /\ \A i \in 1 .. Len(Append(c, k)) : Append(c, k)[i] <= k
         /\ \A i, j \in 1 .. Len(Append(c, k)) : i < j => Append(c, k)[i] < Append(c, k)[j]
<1>0. Append(c, k) \in Seq(Nat)
  OBVIOUS
<1>1. PICK e : e = Append(c, k)
  OBVIOUS
<1>2. PICK n \in Nat : n = Len(c)
  OBVIOUS
<1>3. Len(e) = n + 1 /\ e[n + 1] = k /\ \A i \in 1 .. n : e[i] = c[i] /\ c[i] \in Nat
  BY <1>1, <1>2
<1>4. \A i \in 1 .. n + 1 : i = n + 1 \/ i \in 1 .. n
  OBVIOUS
<1>5. \A i \in 1 .. n : e[i] <= m /\ e[i] \in Nat
  BY <1>2, <1>3
<1>6. \A i \in 1 .. n + 1 : e[i] <= k
  BY <1>3, <1>4, <1>5
<1>7. ASSUME NEW i \in 1 .. n + 1, NEW j \in 1 .. n + 1, i < j PROVE e[i] < e[j]
  <2>1. i \in 1 .. n
    BY <1>7
  <2>2. CASE j = n + 1
    BY <1>3, <1>5, <2>1, <2>2
  <2>3. CASE j \in 1 .. n
    BY <1>2, <1>3, <1>7, <2>1, <2>3
  <2> QED
    BY <1>4, <2>2, <2>3
<1> QED
  BY <1>0, <1>1, <1>3, <1>6, <1>7

\* The columns of the account a request is about.
LEMMA Column ==
  ASSUME StaffInv, NEW u \in Users, NEW a, account' = [account EXCEPT ![u] = a], a.exists = account[u].exists
  PROVE  /\ account'[u] = a
         /\ \A v \in Users : v # u => account'[v] = account[v]
         /\ \A v \in Users : account'[v].exists = account[v].exists
  BY DEF StaffInv, Tables

\* A handler that writes one account keeps its codes rising.
LEMMA CodesOf ==
  ASSUME StaffInv, Remembered, CodesRise, NEW s \in Slots,
         \/ UseCode(s) \/ SetOwnPassword(s) \/ EnableTOTP(s) \/ SetGivenPassword(s)
         \/ RequirePasswordChange(s) \/ DisableTOTP(s)
  PROVE  Remembered' /\ CodesRise'
<1> USE DEF At
<1> DEFINE u == req[s].who
           k == req[s].num
<1>0. /\ u \in Users /\ account[u] \in Account /\ account[u].exists /\ k \in Nat
      /\ account[u].lastStep \in Nat /\ codes[u] \in Seq(Nat)
  <2>1. u \in Users /\ account[u] \in Account /\ account[u].exists /\ k \in Nat
    BY OfAnAccount DEF UseCode, SetOwnPassword, EnableTOTP, SetGivenPassword, RequirePasswordChange, DisableTOTP
  <2> QED
    BY <2>1 DEF Account, Remembered
<1> HIDE DEF u, k
<1>1. CASE UNCHANGED <<account, codes>>
  BY <1>1 DEF Remembered, CodesRise
<1>2. ASSUME codes' = codes, NEW a, account' = [account EXCEPT ![u] = a],
             a.exists = account[u].exists, a.lastStep = account[u].lastStep
      PROVE  Remembered' /\ CodesRise'
  <2>1. /\ \A v \in Users : account'[v].lastStep = account[v].lastStep
        /\ \A v \in Users : account[v].exists => account'[v].exists
    BY <1>0, <1>2, Column
  <2> QED
    BY <1>2, <2>1, CodesStay
<1>3. CASE SetOwnPassword(s)
  <2>1. PICK a : a = [account[u] EXCEPT !.pw = "own", !.must = FALSE]
    OBVIOUS
  <2>2. a.exists = account[u].exists /\ a.lastStep = account[u].lastStep
    BY <1>0, <2>1 DEF Account
  <2>3. codes' = codes /\ (account' = account \/ account' = [account EXCEPT ![u] = a])
    BY <1>0, <1>3, <2>1 DEF SetOwnPassword, u, StaffInv, Tables
  <2> QED
    BY <1>1, <1>2, <2>2, <2>3
<1>4. CASE SetGivenPassword(s)
  <2>1. PICK a : a = [account[u] EXCEPT !.pw = "given", !.must = FALSE]
    OBVIOUS
  <2>2. a.exists = account[u].exists /\ a.lastStep = account[u].lastStep
    BY <1>0, <2>1 DEF Account
  <2>3. codes' = codes /\ (account' = account \/ account' = [account EXCEPT ![u] = a])
    BY <1>0, <1>4, <2>1 DEF SetGivenPassword, u, StaffInv, Tables
  <2> QED
    BY <1>1, <1>2, <2>2, <2>3
<1>5. CASE RequirePasswordChange(s)
  <2>1. PICK a : a = [account[u] EXCEPT !.must = TRUE]
    OBVIOUS
  <2>2. a.exists = account[u].exists /\ a.lastStep = account[u].lastStep
    BY <1>0, <2>1 DEF Account
  <2>3. codes' = codes /\ (account' = account \/ account' = [account EXCEPT ![u] = a])
    BY <1>0, <1>5, <2>1 DEF RequirePasswordChange, u, StaffInv, Tables
  <2> QED
    BY <1>1, <1>2, <2>2, <2>3
<1>6. ASSUME NEW a, NEW c \in Seq(Nat), NEW n \in Nat,
             account' = [account EXCEPT ![u] = a], a.exists = account[u].exists, a.lastStep = n,
             codes' = [codes EXCEPT ![u] = c], \A i \in 1 .. Len(c) : c[i] <= n,
             \A i, j \in 1 .. Len(c) : i < j => c[i] < c[j]
      PROVE  Remembered' /\ CodesRise'
  <2>1. /\ account'[u].lastStep = n /\ account'[u].exists
        /\ \A v \in Users : v # u => account'[v].lastStep = account[v].lastStep
        /\ \A v \in Users : account'[v].exists = account[v].exists
    BY <1>0, <1>6, Column
  <2> QED
    BY <1>0, <1>6, <2>1, CodesSet
<1>7. CASE UseCode(s)
  <2>1. CASE Unused(account[u].lastStep, k) /\ UseTOTPStep(u, k)
    <3>1. PICK a : a = [account[u] EXCEPT !.lastStep = k]
      OBVIOUS
    <3>2. a.exists = account[u].exists /\ a.lastStep = k
      BY <1>0, <3>1 DEF Account
    <3>3. account' = [account EXCEPT ![u] = a] /\ codes' = [codes EXCEPT ![u] = Append(codes[u], k)]
      BY <1>0, <2>1, <3>1 DEF UseTOTPStep, StaffInv, Tables, Remembered
    <3>4. PICK c : c = Append(codes[u], k)
      OBVIOUS
    <3>5. /\ account[u].lastStep < k
          /\ \A i \in 1 .. Len(codes[u]) : codes[u][i] <= account[u].lastStep
          /\ \A i, j \in 1 .. Len(codes[u]) : i < j => codes[u][i] < codes[u][j]
      BY <1>0, <2>1 DEF Unused, Remembered, CodesRise
    <3>6. /\ c \in Seq(Nat)
          /\ \A i \in 1 .. Len(c) : c[i] <= k
          /\ \A i, j \in 1 .. Len(c) : i < j => c[i] < c[j]
      BY <1>0, <3>4, <3>5, AppendRises
    <3> QED
      BY <1>0, <1>6, <3>2, <3>3, <3>4, <3>6
  <2> QED
    BY <1>1, <1>7, <2>1 DEF UseCode, u, k
<1>8. CASE EnableTOTP(s)
  <2>1. CASE /\ account' = [account EXCEPT ![u].secret = account[u].pending, ![u].pending = 0, ![u].lastStep = k]
             /\ codes' = [codes EXCEPT ![u] = <<k>>]
    <3>1. PICK a : a = [account[u] EXCEPT !.secret = account[u].pending, !.pending = 0, !.lastStep = k]
      OBVIOUS
    <3>2. a.exists = account[u].exists /\ a.lastStep = k
      BY <1>0, <3>1 DEF Account
    <3>3. account' = [account EXCEPT ![u] = a]
      BY <1>0, <2>1, <3>1 DEF StaffInv, Tables
    <3>4. PICK c : c = <<k>>
      OBVIOUS
    <3>5. c \in Seq(Nat) /\ Len(c) = 1 /\ c[1] = k
      BY <1>0, <3>4
    <3>6. /\ \A i \in 1 .. Len(c) : c[i] <= k
          /\ \A i, j \in 1 .. Len(c) : i < j => c[i] < c[j]
      BY <1>0, <3>5
    <3> QED
      BY <1>0, <1>6, <2>1, <3>2, <3>3, <3>4, <3>5, <3>6
  <2> QED
    BY <1>1, <1>8, <2>1 DEF EnableTOTP, FirstStep, u, k
<1>9. CASE DisableTOTP(s)
  <2>1. CASE /\ account' = [account EXCEPT ![u].secret = 0, ![u].pending = 0, ![u].lastStep = 0]
             /\ codes' = [codes EXCEPT ![u] = <<>>]
    <3>1. PICK a : a = [account[u] EXCEPT !.secret = 0, !.pending = 0, !.lastStep = 0]
      OBVIOUS
    <3>2. a.exists = account[u].exists /\ a.lastStep = 0
      BY <1>0, <3>1 DEF Account
    <3>3. account' = [account EXCEPT ![u] = a]
      BY <1>0, <2>1, <3>1 DEF StaffInv, Tables
    <3>4. PICK c : c = <<>>
      OBVIOUS
    <3>5. c \in Seq(Nat) /\ Len(c) = 0
      BY <3>4
    <3>6. /\ \A i \in 1 .. Len(c) : c[i] <= 0
          /\ \A i, j \in 1 .. Len(c) : i < j => c[i] < c[j]
      BY <3>5
    <3> QED
      BY <1>0, <1>6, <2>1, <3>2, <3>3, <3>4, <3>5, <3>6
  <2> QED
    BY <1>1, <1>9, <2>1 DEF DisableTOTP, u
<1> QED
  BY <1>3, <1>4, <1>5, <1>7, <1>8, <1>9

\* A new account has had no code taken.
LEMMA CodesOfNew ==
  ASSUME StaffInv, Remembered, CodesRise, NEW s \in Slots, NEW d \in Devices, NEW t \in Users,
         AdminCreateStaff(s, d, t)
  PROVE  Remembered' /\ CodesRise'
<1>1. codes[t] = <<>> /\ codes' = codes
  BY DEF AdminCreateStaff, Remembered
<1>2. \A u \in Users : u # t => account'[u] = account[u]
  BY DEF AdminCreateStaff, StaffInv, Tables
<1>3. account'[t].exists
  BY TypeCreate
<1> QED
  BY <1>1, <1>2, <1>3, CodesStay

\* Every step keeps the codes rising.
LEMMA NextCodes ==
  ASSUME StaffInv, Remembered, CodesRise, [Next]_vars
  PROVE  Remembered' /\ CodesRise'
<1>1. ASSUME NEW s \in Slots, Handler(s) PROVE Remembered' /\ CodesRise'
  BY <1>1, PlainHandlers, PlainKeepsCodes, CodesOf DEF Handler
<1>2. ASSUME NEW s \in Slots, NEW d \in Devices, Submit(s, d) PROVE Remembered' /\ CodesRise'
  BY <1>2, PlainSubmits, PlainKeepsCodes
<1>3. ASSUME NEW s \in Slots, NEW d \in Devices, NEW t \in Users, StaffPage(s, d, t)
      PROVE  Remembered' /\ CodesRise'
  BY <1>3, PlainStaffPage, PlainKeepsCodes, CodesOfNew DEF StaffPage
<1>4. ASSUME NEW s \in Slots, NEW t \in Users, ConsoleReset(s, t) PROVE Remembered' /\ CodesRise'
  BY <1>4, PlainStaffPage, PlainKeepsCodes
<1>5. CASE Restart
  BY <1>5 DEF Restart, people, Remembered, CodesRise
<1> QED
  BY <1>1, <1>2, <1>3, <1>4, <1>5, PlainOthers, PlainKeepsCodes DEF Next

\* The codes taken for an account while two-step login stays on have later and
\* later steps: no code is taken twice, by two requests at once, after a restart
\* or as the one that switched it on (UseTOTPStep, EnableTOTP).
THEOREM NoCodeTwice == Spec => []CodesRise
<1>1. Init => Remembered /\ CodesRise
  BY DEF Init, Remembered, CodesRise
<1>2. StaffInv /\ Remembered /\ CodesRise /\ [Next]_vars => Remembered' /\ CodesRise'
  BY NextCodes
<1> QED
  BY <1>1, <1>2, StaffInvariant, PTL DEF Spec

----------------------------------------------------------------------------
(* A password check is worth so many code checks *)

\* The pending logins keep their counts, and no request comes to or leaves the
\* statement that compares a code.
QuietStep ==
  /\ Kept /\ checks' = checks
  /\ \A x \in Slots : req'[x] = req[x] \/ (req[x].at # "verify" /\ req'[x].at # "verify")

\* A step that counts no attempt and verifies none keeps the bound.
LEMMA QuietKeepsCount ==
  ASSUME Counted, QuietStep
  PROVE  Counted'
<1>1. \A t : Verifying(t)' = Verifying(t)
  BY DEF Verifying, QuietStep
<1> QED
  BY <1>1 DEF Counted, QuietStep, Kept

\* What Advance leads to compares no code.
LEMMA AdvanceQuiet ==
  ASSUME StaffInv, NEW s \in Slots, Advance(s), req[s].at \in {"given", "must", "off", "active"}
  PROVE  \A x \in Slots : req'[x] = req[x] \/ (req[x].at # "verify" /\ req'[x].at # "verify")
<1>1. req[s].op \in Ops /\ req[s].op \in {"reset", "console", "create", "disable"} /\ req[s].at \in StagesOf(req[s].op)
  BY OfAnAccount DEF StagesOf, Ops
<1>2. NextStage(req[s].op, req[s].at) # "" => NextStage(req[s].op, req[s].at) \in StagesOf(req[s].op)
  BY <1>1, NextOfItsOwn
<1>3. NextStage(req[s].op, req[s].at) # "verify"
  BY <1>1, <1>2 DEF StagesOf
<1>4. req \in [Slots -> Request] /\ Idle.at = ""
  BY DEF StaffInv, Underway, Idle
<1>5. CASE Done(s)
  BY <1>4, <1>5 DEF Done
<1>6. CASE Goto(s, NextStage(req[s].op, req[s].at))
  <2>1. req'[s].at = NextStage(req[s].op, req[s].at) /\ \A x \in Slots : x # s => req'[x] = req[x]
    BY <1>4, <1>6 DEF Goto, Request
  <2> QED
    BY <1>3, <2>1
<1> QED
  BY <1>5, <1>6 DEF Advance

\* Every handler but the code check is such a step.
LEMMA QuietHandlers ==
  ASSUME StaffInv, NEW s \in Slots, Handler(s), ~VerifyLoginCode(s)
  PROVE  QuietStep
<1> USE DEF At
<1>0. req \in [Slots -> Request] /\ Idle.at = ""
  BY DEF StaffInv, Underway, Idle
<1>1. CASE UseCode(s)
  <2>1. req[s].op = "code" => req[s].login \in 1 .. Len(logins)
    BY DEF StaffInv, Underway, RequestOK
  <2>2. Kept
    BY <1>1, <2>1, SameKeeps, WrongKeeps DEF StaffInv, UseCode
  <2>3. \A x \in Slots : req'[x] = req[x] \/ (req[x].at # "verify" /\ req'[x].at # "verify")
    BY <1>0, <1>1 DEF UseCode, WrongCode, Done, Goto, Request
  <2> QED
    BY <1>1, <2>2, <2>3 DEF UseCode, QuietStep
<1>2. CASE FinishLogin(s)
  <2>1. req[s].op = "code" => req[s].login \in 1 .. Len(logins)
    BY DEF StaffInv, Underway, RequestOK
  <2>2. Kept
    BY <1>2, <2>1, SameKeeps, ClearKeeps DEF StaffInv, FinishLogin
  <2>3. \A x \in Slots : req'[x] = req[x] \/ (req[x].at # "verify" /\ req'[x].at # "verify")
    BY <1>0, <1>2 DEF FinishLogin, Done
  <2> QED
    BY <1>2, <2>2, <2>3 DEF FinishLogin, QuietStep
<1>3. CASE \/ SetOwnPassword(s) \/ DropSessions(s) \/ FreshSession(s) \/ ReadPending(s) \/ SetTOTPPending(s)
           \/ ConfirmSecret(s) \/ EnableTOTP(s) \/ CheckDisable(s) \/ DeleteAuthSessionsForUser(s) \/ saveAccess(s)
  <2>1. UNCHANGED <<logins, loginOf, checks>>
    BY <1>3 DEF SetOwnPassword, DropSessions, FreshSession, ReadPending, SetTOTPPending, ConfirmSecret, EnableTOTP,
                CheckDisable, DeleteAuthSessionsForUser, saveAccess, others, memory
  <2>2. /\ req[s].at # "verify"
        /\ Done(s) \/ \E stage \in Stages \ {"verify"} : \E k :
                        Goto(s, stage) \/ req' = [req EXCEPT ![s].at = stage, ![s].num = k]
    BY <1>3 DEF SetOwnPassword, DropSessions, FreshSession, ReadPending, SetTOTPPending, ConfirmSecret, EnableTOTP,
                CheckDisable, DeleteAuthSessionsForUser, saveAccess, Stages
  <2>3. \A x \in Slots : req'[x] = req[x] \/ (req[x].at # "verify" /\ req'[x].at # "verify")
    BY <1>0, <2>2 DEF Done, Goto, Request
  <2> QED
    BY <2>1, <2>3, SameKeeps DEF StaffInv, QuietStep
<1>4. CASE SetGivenPassword(s) \/ RequirePasswordChange(s) \/ DisableTOTP(s) \/ ConsoleActivate(s)
  <2>1. UNCHANGED <<logins, loginOf, checks>>
    BY <1>4 DEF SetGivenPassword, RequirePasswordChange, DisableTOTP, ConsoleActivate, others
  <2>2. (Done(s) \/ Advance(s)) /\ req[s].at \in {"given", "must", "off", "active"}
    BY <1>4 DEF SetGivenPassword, RequirePasswordChange, DisableTOTP, ConsoleActivate
  <2>3. Done(s) => \A x \in Slots : req'[x] = req[x] \/ (req[x].at # "verify" /\ req'[x].at # "verify")
    BY <1>0, <2>2 DEF Done
  <2> QED
    BY <2>1, <2>2, <2>3, AdvanceQuiet, SameKeeps DEF StaffInv, QuietStep
<1> QED
  BY <1>1, <1>2, <1>3, <1>4 DEF Handler

\* A request that starts elsewhere than at the comparison of a code.
LEMMA StartQuiet ==
  ASSUME StaffInv, NEW s \in Slots, NEW d, NEW u, NEW op, NEW stage, stage # "verify", Start(s, op, stage, d, u)
  PROVE  \A x \in Slots : req'[x] = req[x] \/ (req[x].at # "verify" /\ req'[x].at # "verify")
<1>1. Idle.at = ""
  BY DEF Idle
<1>2. PICK r : r = [Idle EXCEPT !.op = op, !.at = stage, !.dev = d, !.who = u]
  OBVIOUS
<1>3. r.at = stage
  BY <1>2 DEF Idle
<1>4. req' = [req EXCEPT ![s] = r] /\ req[s] = Idle
  BY <1>2 DEF Start, Free
<1> QED
  BY <1>1, <1>3, <1>4 DEF StaffInv, Underway

\* So is every request that starts outside the login.
LEMMA QuietStarts ==
  ASSUME StaffInv, NEW s \in Slots, NEW d, NEW t,
         \/ ChangePasswordSubmit(s, d) \/ TwoFactorPage(s, d) \/ TwoFactorEnable(s, d) \/ TwoFactorDisable(s, d)
         \/ StaffPage(s, d, t) \/ ConsoleReset(s, t)
  PROVE  QuietStep
<1>1. UNCHANGED <<logins, loginOf, checks>>
  BY DEF ChangePasswordSubmit, TwoFactorPage, TwoFactorEnable, TwoFactorDisable, StaffPage, ConsoleReset,
         AdminResetStaffPassword, AdminStaffSignOut, AdminCreateStaff, AdminUpdateStaff, AdminDeactivateStaff, memory
<1>2. Head(ResetSteps) = "given" /\ Head(ConsoleSteps) = "given"
  BY DEF ResetSteps, ConsoleSteps
<1>3. \E op, stage, e, u : stage # "verify" /\ Start(s, op, stage, e, u)
  BY <1>2 DEF ChangePasswordSubmit, TwoFactorPage, TwoFactorEnable, TwoFactorDisable, StaffPage, ConsoleReset,
         AdminResetStaffPassword, AdminStaffSignOut, AdminCreateStaff, AdminUpdateStaff, AdminDeactivateStaff
<1>4. \A x \in Slots : req'[x] = req[x] \/ (req[x].at # "verify" /\ req'[x].at # "verify")
  BY <1>3, StartQuiet
<1> QED
  BY <1>1, <1>4, SameKeeps DEF StaffInv, QuietStep

\* So are sign-outs, expiries and the clock.
LEMMA QuietOthers ==
  ASSUME StaffInv,
         \/ \E d \in Devices, t \in Users : AdminActivateStaff(d, t)
         \/ \E d \in Devices : Refuse(d) \/ Logout(d) \/ ExpireSession(d)
         \/ Tick \/ UNCHANGED vars
  PROVE  QuietStep
<1>1. UNCHANGED <<logins, loginOf, checks, req>>
  BY DEF AdminActivateStaff, Refuse, Logout, ExpireSession, Tick, vars, memory
<1> QED
  BY <1>1, SameKeeps DEF StaffInv, QuietStep

\* A code is compared, or the login is dropped: one request fewer is about to.
LEMMA VerifyCounts ==
  ASSUME StaffInv, Counted, NEW s \in Slots, VerifyLoginCode(s)
  PROVE  Counted'
<1> DEFINE l == req[s].login
<1>0. req \in [Slots -> Request] /\ req[s].op = "code" /\ l \in 1 .. Len(logins) /\ req[s].at = "verify" /\ Idle.at = ""
  BY DEF StaffInv, Underway, RequestOK, VerifyLoginCode, At, StagesOf, Ops, Request, Idle
<1>1. Kept
  BY <1>0, ClearKeeps, SameKeeps, WrongKeeps DEF StaffInv, VerifyLoginCode
<1>2. req'[s].at # "verify" /\ \A x \in Slots : x # s => req'[x] = req[x]
  <2>1. Done(s) \/ \E k : req' = [req EXCEPT ![s].at = "use", ![s].num = k]
    BY DEF VerifyLoginCode, WrongCode
  <2>2. CASE Done(s)
    BY <1>0, <2>2 DEF Done
  <2>3. ASSUME NEW k, req' = [req EXCEPT ![s].at = "use", ![s].num = k]
        PROVE  req'[s].at # "verify" /\ \A x \in Slots : x # s => req'[x] = req[x]
    BY <1>0, <2>3 DEF Request
  <2> QED
    BY <2>1, <2>2, <2>3
<1>3. \A t : Verifying(t)' = Verifying(t) \ {s}
  BY <1>2 DEF Verifying
<1>4. /\ checks' = checks \/ checks' = [checks EXCEPT ![l] = @ + 1]
      /\ checks \in Seq(Nat) /\ Len(checks) = Len(logins) /\ logins \in Seq(Login)
  BY DEF VerifyLoginCode, StaffInv, Pending
<1> HIDE DEF l
<1>5. ASSUME NEW t \in 1 .. Len(logins)
      PROVE  /\ IsFiniteSet(Verifying(t) \ {s})
             /\ checks'[t] + Cardinality(Verifying(t) \ {s}) <= logins[t].tries
  <2>1. /\ IsFiniteSet(Verifying(t)) /\ checks[t] + Cardinality(Verifying(t)) <= logins[t].tries
        /\ Cardinality(Verifying(t)) \in Nat /\ checks[t] \in Nat /\ logins[t].tries \in Nat
    <3>1. IsFiniteSet(Verifying(t)) /\ checks[t] + Cardinality(Verifying(t)) <= logins[t].tries
      BY DEF Counted
    <3>2. logins[t] \in Login
      BY <1>4
    <3>3. logins[t].tries \in Nat
      BY <3>2, AttemptsAssumption DEF Login
    <3> QED
      BY <1>4, <3>1, <3>3, FS_CardinalityType
  <2>2. /\ IsFiniteSet(Verifying(t) \ {s})
        /\ Cardinality(Verifying(t) \ {s}) = IF s \in Verifying(t) THEN Cardinality(Verifying(t)) - 1
                                             ELSE Cardinality(Verifying(t))
    BY <2>1, FS_RemoveElement
  <2>3. CASE t = l
    <3>1. s \in Verifying(t)
      BY <1>0, <2>3 DEF Verifying, l
    <3>2. checks'[t] = checks[t] \/ checks'[t] = checks[t] + 1
      BY <1>4, <2>3
    <3> QED
      BY <2>1, <2>2, <3>1, <3>2
  <2>4. CASE t # l
    <3>1. checks'[t] = checks[t]
      BY <1>4, <2>4
    <3> QED
      BY <2>1, <2>2, <3>1
  <2> QED
    BY <2>3, <2>4
<1> QED
  BY <1>1, <1>3, <1>5 DEF Counted, Kept

\* The right password: no code of the new login was checked or is about to be.
LEMMA LoginCounts ==
  ASSUME StaffInv, Counted, NEW s \in Slots, NEW d \in Devices, NEW u \in Users, LoginSubmit(s, d, u)
  PROVE  Counted'
<1>1. CASE Start(s, "login", "session", d, u) /\ UNCHANGED memory
  <2>1. QuietStep
    BY <1>1, StartQuiet, SameKeeps DEF memory, StaffInv, QuietStep
  <2> QED
    BY <2>1, QuietKeepsCount
<1>2. CASE startPendingLogin(d, u) /\ UNCHANGED req
  <2>1. PICK n : n = [user |-> u, tries |-> 0]
    OBVIOUS
  <2>2. n \in Login /\ n.tries = 0 /\ logins \in Seq(Login) /\ logins' = Append(logins, n) /\ Len(logins) \in Nat
    BY <1>2, <2>1, AttemptsAssumption DEF StaffInv, Pending, Login, startPendingLogin
  <2>3. /\ Len(logins') = Len(logins) + 1 /\ logins'[Len(logins) + 1] = n
        /\ \A t \in 1 .. Len(logins) : logins'[t] = logins[t]
    BY <2>2
  <2>4. checks'[Len(logins) + 1] = 0 /\ \A t \in 1 .. Len(logins) : checks'[t] = checks[t]
    BY <1>2, <2>2 DEF startPendingLogin, StaffInv, Pending
  <2>5. \A t : Verifying(t)' = Verifying(t)
    BY <1>2 DEF Verifying
  <2>6. Verifying(Len(logins) + 1) = {}
    <3>1. ASSUME NEW x \in Slots, req[x].at = "verify" PROVE req[x].login \in 1 .. Len(logins)
      BY <3>1 DEF StaffInv, Underway, RequestOK, StagesOf, Ops, Request
    <3> QED
      BY <2>2, <3>1 DEF Verifying
  <2>7. IsFiniteSet({}) /\ Cardinality({}) = 0
    BY FS_EmptySet
  <2>8. ASSUME NEW t \in 1 .. Len(logins) + 1
        PROVE  IsFiniteSet(Verifying(t)) /\ checks'[t] + Cardinality(Verifying(t)) <= logins'[t].tries
    <3>1. CASE t = Len(logins) + 1
      <4>1. Verifying(t) = {} /\ checks'[t] = 0 /\ logins'[t].tries = 0
        BY <2>2, <2>3, <2>4, <2>6, <3>1
      <4> QED
        BY <2>7, <4>1
    <3>2. CASE t \in 1 .. Len(logins)
      BY <2>3, <2>4, <3>2 DEF Counted
    <3> QED
      BY <2>2, <3>1, <3>2
  <2> QED
    BY <2>3, <2>5, <2>8 DEF Counted
<1> QED
  BY <1>1, <1>2 DEF LoginSubmit

\* An attempt is counted when the request that will check its code starts.
LEMMA CodeCounts ==
  ASSUME StaffInv, Counted, NEW s \in Slots, NEW d \in Devices, LoginCodeSubmit(s, d)
  PROVE  Counted'
<1> DEFINE l == loginOf[d]
           n == logins[l].tries + 1
<1>0. l \in 1 .. Len(logins) /\ logins \in Seq(Login) /\ checks' = checks
  BY DEF StaffInv, Pending, LoginCodeSubmit
<1>1. CASE clearPendingLogin(d, l) /\ UNCHANGED req
  <2>1. Kept
    BY <1>0, <1>1, ClearKeeps DEF StaffInv
  <2> QED
    BY <1>0, <1>1, <2>1, QuietKeepsCount DEF QuietStep
<1>2. CASE /\ Free(s) /\ logins' = [logins EXCEPT ![l].tries = n]
           /\ req' = [req EXCEPT ![s] = [Idle EXCEPT !.op = "code", !.at = "verify", !.dev = d,
                                         !.who = logins[l].user, !.login = l, !.tries = n]]
  <2>1. logins[l] \in Login
    BY <1>0
  <2>2. logins[l].tries \in Nat
    BY <2>1, AttemptsAssumption DEF Login
  <2>3. logins'[l].tries = logins[l].tries + 1
    BY <1>0, <1>2, <2>1 DEF Login
  <2>4. Len(logins') = Len(logins) /\ \A t \in 1 .. Len(logins) : t # l => logins'[t] = logins[t]
    BY <1>0, <1>2
  <2>5. PICK r : r = [Idle EXCEPT !.op = "code", !.at = "verify", !.dev = d,
                                  !.who = logins[l].user, !.login = l, !.tries = n]
    OBVIOUS
  <2>6. r.at = "verify" /\ r.login = l /\ Idle.at = ""
    BY <2>5 DEF Idle
  <2>7. req' = [req EXCEPT ![s] = r] /\ req[s] = Idle /\ req \in [Slots -> Request]
    BY <1>2, <2>5 DEF Free, StaffInv, Underway
  <2>8. /\ s \notin Verifying(l)
        /\ \A t : Verifying(t)' = IF t = l THEN Verifying(t) \cup {s} ELSE Verifying(t)
    BY <2>6, <2>7 DEF Verifying
  <2> HIDE DEF l
  <2>9. ASSUME NEW t \in 1 .. Len(logins)
        PROVE  IsFiniteSet(Verifying(t)') /\ checks[t] + Cardinality(Verifying(t)') <= logins'[t].tries
    <3>1. IsFiniteSet(Verifying(t)) /\ checks[t] + Cardinality(Verifying(t)) <= logins[t].tries
      BY DEF Counted
    <3>2. CASE t = l
      <4>1. /\ IsFiniteSet(Verifying(l) \cup {s})
            /\ Cardinality(Verifying(l) \cup {s}) = Cardinality(Verifying(l)) + 1
        BY <2>8, <3>1, <3>2, FS_AddElement
      <4>2. checks[l] \in Nat /\ Cardinality(Verifying(l)) \in Nat
        BY <1>0, <3>1, <3>2, FS_CardinalityType DEF StaffInv, Pending
      <4> QED
        <5>1. Verifying(t)' = Verifying(l) \cup {s}
          BY <2>8, <3>2
        <5>2. checks[l] + Cardinality(Verifying(l)) <= logins[l].tries
          BY <3>1, <3>2
        <5>3. checks[l] + (Cardinality(Verifying(l)) + 1) <= logins[l].tries + 1
          BY <2>2, <4>2, <5>2
        <5> QED
          BY <2>3, <3>2, <4>1, <5>1, <5>3
    <3>3. CASE t # l
      BY <2>4, <2>8, <3>1, <3>3
    <3> QED
      BY <3>2, <3>3
  <2> QED
    BY <1>0, <2>4, <2>9 DEF Counted
<1> QED
  BY <1>1, <1>2 DEF LoginCodeSubmit

\* Every step keeps the attempts bounded.
LEMMA NextCount ==
  ASSUME StaffInv, Counted, [Next]_vars
  PROVE  Counted'
<1>1. ASSUME NEW s \in Slots, Handler(s) PROVE Counted'
  BY <1>1, QuietHandlers, QuietKeepsCount, VerifyCounts
<1>2. ASSUME NEW s \in Slots, NEW d \in Devices, Submit(s, d) PROVE Counted'
  BY <1>2, QuietStarts, QuietKeepsCount, CodeCounts, LoginCounts DEF Submit
<1>3. ASSUME NEW s \in Slots, NEW d \in Devices, NEW t \in Users, StaffPage(s, d, t) PROVE Counted'
  BY <1>3, QuietStarts, QuietKeepsCount
<1>4. ASSUME NEW s \in Slots, NEW t \in Users, ConsoleReset(s, t) PROVE Counted'
  BY <1>4, QuietStarts, QuietKeepsCount
<1>5. ASSUME NEW t \in DOMAIN logins, ExpireLogin(t) PROVE Counted'
  <2>1. logins \in Seq(Login) /\ t \in 1 .. Len(logins)
    BY DEF StaffInv, Pending
  <2>2. \A x \in 1 .. Len(logins) : logins[x] \in Login
    BY <2>1
  <2>3. logins' = [logins EXCEPT ![t].user = NoUser]
    BY <1>5 DEF ExpireLogin
  <2>4. Len(logins') = Len(logins) /\ \A x \in 1 .. Len(logins) : logins'[x].tries = logins[x].tries
    BY <2>1, <2>2, <2>3 DEF Login
  <2>5. checks' = checks /\ \A x : Verifying(x)' = Verifying(x)
    BY <1>5 DEF ExpireLogin, people, Verifying
  <2> QED
    BY <2>4, <2>5 DEF Counted
<1>6. CASE Restart
  <2>1. Kept /\ checks' = checks
    BY <1>6, RestartKeeps DEF Restart
  <2>2. \A t : Verifying(t)' = {}
    <3>1. Idle.at = ""
      BY DEF Idle
    <3> QED
      BY <1>6, <3>1 DEF Restart, Verifying
  <2>3. ASSUME NEW t \in 1 .. Len(logins)
        PROVE  IsFiniteSet({}) /\ checks[t] + Cardinality({}) <= logins[t].tries
    <3>1. IsFiniteSet(Verifying(t)) /\ checks[t] + Cardinality(Verifying(t)) <= logins[t].tries
      BY DEF Counted
    <3>2. Cardinality(Verifying(t)) \in Nat /\ checks[t] \in Nat
      BY <3>1, FS_CardinalityType DEF StaffInv, Pending
    <3>3. logins[t] \in Login
      BY DEF StaffInv, Pending
    <3>4. logins[t].tries \in Nat
      BY <3>3, AttemptsAssumption DEF Login
    <3> QED
      BY <3>1, <3>2, <3>4, FS_EmptySet
  <2> QED
    BY <2>1, <2>2, <2>3 DEF Counted, Kept
<1> QED
  BY <1>1, <1>2, <1>3, <1>4, <1>5, <1>6, QuietOthers, QuietKeepsCount DEF Next

\* One password check is worth at most MaxCodeAttempts code checks: every code
\* that is being checked was counted before, whatever number of requests wait to
\* check one (LoginCodeSubmit counts under the lock, compares outside it).
THEOREM AttemptsBound == Spec => []FewGuesses
<1>1. Init => Counted
  BY DEF Init, Counted
<1>2. StaffInv /\ Counted /\ [Next]_vars => Counted'
  BY NextCount
<1>3. StaffInv /\ Counted => FewGuesses
  <2> SUFFICES ASSUME StaffInv, Counted, NEW t \in DOMAIN checks PROVE checks[t] <= MaxCodeAttempts
    BY DEF FewGuesses
  <2>1. t \in 1 .. Len(logins) /\ checks[t] \in Nat
    BY DEF StaffInv, Pending
  <2>2. IsFiniteSet(Verifying(t)) /\ checks[t] + Cardinality(Verifying(t)) <= logins[t].tries
    BY <2>1 DEF Counted
  <2>3. logins[t] \in Login
    BY <2>1 DEF StaffInv, Pending
  <2>4. logins[t].tries \in 0 .. MaxCodeAttempts
    BY <2>3 DEF Login
  <2> QED
    BY <2>1, <2>2, <2>4, FS_CardinalityType, AttemptsAssumption
<1> QED
  BY <1>1, <1>2, <1>3, StaffInvariant, PTL DEF Spec

----------------------------------------------------------------------------
(* The gate *)

\* The page the gate sends an account to is one it lets the account have,
\* whatever the account is (RequireRole's two redirects).
THEOREM GateSettles == RedirectsEnd
<1>1. \A u, a, path : RequireRole(u, a, RequireRole(u, a, path)) = RequireRole(u, a, path)
  BY DEF RequireRole, TwoFactorExempt
<1> QED
  BY <1>1 DEF RedirectsEnd

\* The sidebar pages in their order.
LEMMA PagesInOrder ==
  /\ DOMAIN adminPages = 1 .. 8
  /\ adminPages[1] = "dashboard" /\ adminPages[2] = "orders" /\ adminPages[3] = "menu" /\ adminPages[4] = "logs"
  /\ adminPages[5] = "team" /\ adminPages[6] = "map" /\ adminPages[7] = "bookings" /\ adminPages[8] = "floor"
  BY DEF adminPages

\* A set of places in a list of eight has a first one.
LEMMA FirstPlace ==
  ASSUME NEW open \in SUBSET (1 .. 8), NEW k \in open
  PROVE  \E i \in open : (\A j \in open : i <= j) /\ i <= k
<1>1. \A j \in open : j = 1 \/ j = 2 \/ j = 3 \/ j = 4 \/ j = 5 \/ j = 6 \/ j = 7 \/ j = 8
  OBVIOUS
<1>2. CASE 1 \in open
  BY <1>1, <1>2
<1>3. CASE 1 \notin open /\ 2 \in open
  BY <1>1, <1>3
<1>4. CASE 1 \notin open /\ 2 \notin open /\ 3 \in open
  BY <1>1, <1>4
<1>5. CASE 1 \notin open /\ 2 \notin open /\ 3 \notin open /\ 4 \in open
  BY <1>1, <1>5
<1>6. CASE 1 \notin open /\ 2 \notin open /\ 3 \notin open /\ 4 \notin open /\ 5 \in open
  BY <1>1, <1>6
<1>7. CASE 1 \notin open /\ 2 \notin open /\ 3 \notin open /\ 4 \notin open /\ 5 \notin open
  BY <1>1, <1>7
<1> QED
  BY <1>2, <1>3, <1>4, <1>5, <1>6, <1>7

\* An account that is offered the admin side lands on a page of that side it may
\* open: the first six of adminStart's pages are all there are (hasAdminMode).
THEOREM AdminSideOpens == AdminModeOpens
<1> SUFFICES ASSUME NEW u \in Users, NEW a, hasAdminMode(u, a)
             PROVE  adminStart(u, a) \in BackOfficePages \ workModePages /\ Can(u, a, adminStart(u, a))
  BY DEF AdminModeOpens
<1> DEFINE open == {i \in DOMAIN adminPages : Can(u, a, adminPages[i])}
           first == CHOOSE i \in open : \A j \in open : i <= j
<1>1. PICK page \in BackOfficePages \ workModePages : page \notin AdminOnlyPages /\ Can(u, a, page)
  BY DEF hasAdminMode, Can
<1>2. page \in {"dashboard", "orders", "menu", "logs", "team", "map"}
  BY <1>1 DEF BackOfficePages, workModePages, AdminOnlyPages
<1>3. PICK k \in 1 .. 6 : adminPages[k] = page
  BY <1>2, PagesInOrder
<1>4. k \in open /\ open \in SUBSET (1 .. 8)
  BY <1>1, <1>3, PagesInOrder
<1>5. \E i \in open : (\A j \in open : i <= j) /\ i <= k
  BY <1>4, FirstPlace
<1>6. first \in open /\ first <= k
  <2>1. first \in open /\ \A j \in open : first <= j
    BY <1>5
  <2> QED
    BY <1>4, <2>1
<1>7. adminStart(u, a) = adminPages[first]
  BY <1>4 DEF adminStart
<1>8. first \in 1 .. 6 /\ Can(u, a, adminPages[first])
  BY <1>3, <1>4, <1>6
<1>9. \A i \in 1 .. 6 : adminPages[i] \in BackOfficePages \ workModePages
  BY PagesInOrder DEF BackOfficePages, workModePages
<1> QED
  BY <1>7, <1>8, <1>9

-----------------------------------------------------------------------------
(* The start of the server                                                 *)

\* The steps of the start, as a set.
AllSteps ==
  {"create", "menu columns", "flatten", "categories", "staff columns", "backfill", "hours columns",
   "push columns", "floor columns", "table 1", "menu", "staff", "floor", "tokens", "push", "up"}

\* The steps by their number.
LEMMA StepNumbers ==
  /\ DOMAIN Steps = 1 .. 16
  /\ Steps[1] = "create" /\ Steps[2] = "menu columns" /\ Steps[3] = "flatten" /\ Steps[4] = "categories"
  /\ Steps[5] = "staff columns" /\ Steps[6] = "backfill" /\ Steps[7] = "hours columns"
  /\ Steps[8] = "push columns" /\ Steps[9] = "floor columns" /\ Steps[10] = "table 1"
  /\ Steps[11] = "menu" /\ Steps[12] = "staff" /\ Steps[13] = "floor" /\ Steps[14] = "tokens"
  /\ Steps[15] = "push" /\ Steps[16] = "up"
  BY DEF Steps

\* No step comes twice.
LEMMA StepsDiffer ==
  ASSUME NEW i \in 1 .. 16
  PROVE  \A j \in 1 .. 16 : Steps[j] = Steps[i] => j = i
<1>1. \A k \in 1 .. 16 : k \in {1, 2, 3, 4} \/ k \in {5, 6, 7, 8} \/ k \in {9, 10, 11, 12} \/ k \in {13, 14, 15, 16}
  OBVIOUS
<1> DEFINE T(k) == CASE k = "create" -> 1 [] k = "menu columns" -> 2 [] k = "flatten" -> 3 [] k = "categories" -> 4
                     [] k = "staff columns" -> 5 [] k = "backfill" -> 6 [] k = "hours columns" -> 7
                     [] k = "push columns" -> 8 [] k = "floor columns" -> 9 [] k = "table 1" -> 10
                     [] k = "menu" -> 11 [] k = "staff" -> 12 [] k = "floor" -> 13 [] k = "tokens" -> 14
                     [] k = "push" -> 15 [] k = "up" -> 16
<1>2. \A k \in {1, 2, 3, 4} : T(Steps[k]) = k
  BY StepNumbers
<1>3. \A k \in {5, 6, 7, 8} : T(Steps[k]) = k
  BY StepNumbers
<1>4. \A k \in {9, 10, 11, 12} : T(Steps[k]) = k
  BY StepNumbers
<1>5. \A k \in {13, 14, 15, 16} : T(Steps[k]) = k
  BY StepNumbers
<1> HIDE DEF T
<1>6. \A k \in 1 .. 16 : T(Steps[k]) = k
  BY <1>1, <1>2, <1>3, <1>4, <1>5
<1> QED
  BY <1>6

\* After a step comes the one with the next number.
LEMMA AfterStep ==
  ASSUME NEW i \in 1 .. 15
  PROVE  After(Steps[i]) = Steps[i + 1]
<1>0. i \in 1 .. 16
  OBVIOUS
<1>1. i \in 1 .. 16 /\ DOMAIN Steps = 1 .. 16
  BY <1>0, StepNumbers
<1>2. \A j \in DOMAIN Steps : Steps[j] = Steps[i] => j = i
  BY <1>1, StepsDiffer
<1> DEFINE found == CHOOSE j \in DOMAIN Steps : Steps[j] = Steps[i]
<1>3. found \in DOMAIN Steps /\ Steps[found] = Steps[i]
  BY <1>1
<1>4. found = i
  BY <1>2, <1>3
<1> QED
  BY <1>4 DEF After

\* The order of the start, step by step.
LEMMA AfterIs ==
  /\ After("create") = "menu columns" /\ After("menu columns") = "flatten"
  /\ After("flatten") = "categories" /\ After("categories") = "staff columns"
  /\ After("staff columns") = "backfill" /\ After("backfill") = "hours columns"
  /\ After("hours columns") = "push columns" /\ After("push columns") = "floor columns"
  /\ After("floor columns") = "table 1" /\ After("table 1") = "menu" /\ After("menu") = "staff"
  /\ After("staff") = "floor" /\ After("floor") = "tokens" /\ After("tokens") = "push"
  /\ After("push") = "up"
<1>1. \A i \in 1 .. 15 : After(Steps[i]) = Steps[i + 1]
  BY AfterStep
<1>2. After(Steps[1]) = Steps[2] /\ After(Steps[2]) = Steps[3] /\ After(Steps[3]) = Steps[4]
  BY <1>1
<1>3. After(Steps[4]) = Steps[5] /\ After(Steps[5]) = Steps[6] /\ After(Steps[6]) = Steps[7]
  BY <1>1
<1>4. After(Steps[7]) = Steps[8] /\ After(Steps[8]) = Steps[9] /\ After(Steps[9]) = Steps[10]
  BY <1>1
<1>5. After(Steps[10]) = Steps[11] /\ After(Steps[11]) = Steps[12] /\ After(Steps[12]) = Steps[13]
  BY <1>1
<1>6. After(Steps[13]) = Steps[14] /\ After(Steps[14]) = Steps[15] /\ After(Steps[15]) = Steps[16]
  BY <1>1
<1> QED
  BY <1>2, <1>3, <1>4, <1>5, <1>6, StepNumbers

-----------------------------------------------------------------------------

\* An account and a table, as rows.
UserRow == [default : BOOLEAN, must : BOOLEAN]
TableRow == [token : Nat, placed : BOOLEAN, bookable : BOOLEAN]

-----------------------------------------------------------------------------
(* The inductive invariant                                                 *)

\* What the start works on has its types; the tables are finitely many and
\* the ids of the products are bounded, so that there is a last one.
StartupTypes ==
  /\ at \in AllSteps \cup {"down"}
  /\ columns \subseteq Groups
  /\ issued \in Nat /\ key \in Nat
  /\ users \in [DOMAIN users -> UserRow]
  /\ tables \in [DOMAIN tables -> TableRow] /\ IsFiniteSet(DOMAIN tables)
  /\ DOMAIN products \subseteq Nat
  /\ \E top \in Nat : \A p \in DOMAIN products : p <= top

\* A step finds the columns that the steps before it added.
Rising == {"create", "menu columns", "flatten", "categories", "staff columns"}
ColumnsThere ==
  /\ at \in {"down", "create"} \/ "create" \in columns
  /\ at \in {"down", "create", "menu columns"} \/ "menu columns" \in columns
  /\ at \in Rising \cup {"down"} \/ "staff columns" \in columns
  /\ at \in Rising \cup {"down", "backfill", "hours columns"} \/ "hours columns" \in columns
  /\ at \in Rising \cup {"down", "backfill", "hours columns", "push columns"} \/ "push columns" \in columns
  /\ \/ at \in Rising \cup {"down", "backfill", "hours columns", "push columns", "floor columns"}
     \/ "floor columns" \in columns

\* What is on the list under way.
Listed(x) == \E i \in 1 .. Len(todo) : todo[i] = x

\* The administrator's account is the first to be seeded: once there are
\* accounts at all it is among them.  Unless the count failed, the seeding
\* meets no accounts but those it made itself.
UsersThere ==
  /\ DOMAIN users = {} \/ "admin" \in DOMAIN users
  /\ at \in {"floor", "tokens", "push", "up"} => "admin" \in DOMAIN users
  /\ \A u \in DOMAIN users : users[u].default => u \in {"admin", "manager"}
  /\ at = "staff" /\ todo # Unread =>
       /\ todo = <<"admin", "manager">> \/ (todo = <<"manager">> /\ "admin" \in DOMAIN users)
       /\ "staff" \notin failed =>
            \/ todo = <<"admin", "manager">> /\ DOMAIN users = {}
            \/ todo = <<"manager">> /\ DOMAIN users = {"admin"}

\* While the backfill is under way, an account with the published password is
\* marked or still listed; later it is marked.
MustChange ==
  /\ at = "backfill" /\ todo # Unread =>
       /\ todo \in Seq({"admin", "manager"})
       /\ "backfill" \notin failed => \A u \in DOMAIN users : users[u].default => users[u].must \/ Listed(u)
  /\ at \notin Rising \cup {"down", "backfill"} /\ "backfill" \notin failed =>
       \A u \in DOMAIN users : users[u].default => users[u].must

\* Tokens are of those made, and no two tables have the same; while tokens
\* are handed out, the list holds every table without one, once.
TokensApart ==
  /\ \A n \in DOMAIN tables : tables[n].token <= issued
  /\ \A m, n \in DOMAIN tables : tables[m].token = tables[n].token /\ tables[m].token # NoToken => m = n
  /\ at = "tokens" /\ todo # Unread =>
       /\ todo \in Seq(Untokened)
       /\ \A i, j \in 1 .. Len(todo) : i # j => todo[i] # todo[j]
       /\ \A n \in Untokened : Listed(n)
  /\ at \in {"push", "up"} => Untokened = {}

\* What is handed to phones is what is stored.
KeyServed == serving \in {NoKey, key}

\* A start has kept what it found, and it seeds the menu or the floor only
\* when there was none.
Keeps ==
  at \notin {"down", "up"} =>
    /\ KeepsRows
    /\ at = "floor" /\ todo # Unread /\ "floor" \notin failed => Placed(before.tables) = {}
    /\ at = "menu" /\ todo # Unread /\ "menu" \notin failed => DOMAIN before.products = {}

StartupInv == StartupTypes /\ ColumnsThere /\ UsersThere /\ MustChange /\ TokensApart /\ KeyServed /\ Keeps

-----------------------------------------------------------------------------
\* How the start moves on.
Moves ==
  \/ at' = at \/ at' = "down"
  \/ at = "down" /\ at' = "create"
  \/ at \in AllSteps \ {"up"} /\ at' = After(at)

\* A step of the start stays, ends, or is followed by the next.
LEMMA StartMoves ==
  ASSUME [StartupNext]_startupVars
  PROVE  Moves
<1>1. ASSUME NEW s \in AllSteps \ {"up"}, NEW rest, Go(s, rest)
      PROVE  Moves
  BY <1>1 DEF Go, Moves
<1>2. CASE UNCHANGED startupVars
  BY <1>2 DEF startupVars, Moves
<1>3. CASE BeginStart
  BY <1>3, StepNumbers DEF BeginStart, Moves
<1>4. CASE Stop
  BY <1>4 DEF Stop, Moves
<1>5. CASE InitPush
  BY <1>5, AfterIs DEF InitPush, Moves, AllSteps
<1>6. CASE Edits
  BY <1>6 DEF Edits, Edit, UpdateProduct, DeleteProduct, SetUserPassword, DeleteTable, RotateTableToken,
          SetTablePosition, AdminAddSpot, Moves
<1>7. ASSUME CreateTables \/ AddMenuColumns \/ AddStaffColumns \/ AddHoursColumns \/ AddPushColumns \/ AddFloorColumns
      PROVE  Moves
  BY <1>1, <1>7 DEF CreateTables, AddMenuColumns, AddStaffColumns, AddHoursColumns, AddPushColumns, AddFloorColumns,
          addColumnIfMissing, AllSteps
<1>8. ASSUME CountCategories \/ CountProducts \/ CountUsers \/ CountPlaced
      PROVE  Moves
  BY <1>1, <1>8 DEF CountCategories, CountProducts, CountUsers, CountPlaced, Count, AllSteps
<1>9. ASSUME FlattenCategories \/ seedDefaultCategories \/ seedEGOMenu
      PROVE  Moves
  BY <1>1, <1>9 DEF FlattenCategories, seedDefaultCategories, seedEGOMenu, AllSteps
<1>10. ASSUME ListDefaults \/ backfillMustChangePassword \/ seedDefaultUsers
      PROVE  Moves
  BY <1>1, <1>10 DEF ListDefaults, backfillMustChangePassword, seedDefaultUsers, AllSteps
<1>11. CASE SeedingFails
  BY <1>11 DEF SeedingFails, Moves
<1>12. ASSUME SeedTableOne \/ LoadFloor \/ ListUntokened \/ ensureTableTokens
      PROVE  Moves
  BY <1>1, <1>12 DEF SeedTableOne, LoadFloor, ListUntokened, ensureTableTokens, AllSteps
<1> QED
  BY <1>2, <1>3, <1>4, <1>5, <1>6, <1>7, <1>8, <1>9, <1>10, <1>11, <1>12 DEF StartupNext, InitDB

\* Which actions write what.
ColumnsWritten == UNCHANGED columns \/ \E g \in Groups : addColumnIfMissing(g)
UsersWritten ==
  \/ UNCHANGED users
  \/ backfillMustChangePassword \/ seedDefaultUsers
  \/ \E u \in DOMAIN users : SetUserPassword(u)
ProductsWritten ==
  \/ UNCHANGED products
  \/ FlattenCategories \/ seedEGOMenu
  \/ \E p \in DOMAIN products : UpdateProduct(p) \/ DeleteProduct(p)
TableEdits ==
  \/ \E n \in DOMAIN tables : DeleteTable(n) \/ RotateTableToken(n) \/ SetTablePosition(n)
  \/ AdminAddSpot
TablesWritten ==
  \/ UNCHANGED tables /\ (UNCHANGED issued \/ (InitPush /\ issued' = issued + 1))
  \/ SeedTableOne \/ LoadFloor \/ ensureTableTokens \/ TableEdits
KeyWritten == UNCHANGED <<key, serving>> \/ InitPush \/ (UNCHANGED key /\ serving' = NoKey)
FaultsNoted ==
  /\ (UNCHANGED before /\ failed' \in {failed, failed \cup {at}}) \/ BeginStart
  /\ at \in {"create", "menu columns", "flatten", "staff columns", "hours columns", "push columns",
            "floor columns", "tokens"} => failed' = failed

\* Columns, accounts, products, tables and keys change by these actions only,
\* and the steps that have no failure to note note none.
LEMMA WrittenBy ==
  ASSUME [StartupNext]_startupVars
  PROVE  ColumnsWritten /\ UsersWritten /\ ProductsWritten /\ TablesWritten /\ KeyWritten /\ FaultsNoted
<1> USE DEF ColumnsWritten, UsersWritten, ProductsWritten, TablesWritten, KeyWritten, FaultsNoted,
            rows, unmoved, Runs, Fails, Go, Doing
<1>1. CASE CreateTables \/ AddMenuColumns \/ AddStaffColumns \/ AddHoursColumns \/ AddPushColumns \/ AddFloorColumns
  <2>1. \E g \in Groups : addColumnIfMissing(g)
    BY <1>1 DEF CreateTables, AddMenuColumns, AddStaffColumns, AddHoursColumns, AddPushColumns, AddFloorColumns, Groups
  <2> QED
    BY <2>1 DEF addColumnIfMissing
<1>2. CASE UNCHANGED startupVars \/ BeginStart \/ Stop \/ InitPush \/ SeedingFails
  BY <1>2 DEF startupVars, BeginStart, Stop, InitPush, SeedingFails
<1>3. CASE Edits
  BY <1>3 DEF Edits, TableEdits, Edit, UpdateProduct, DeleteProduct, SetUserPassword, DeleteTable, RotateTableToken,
          SetTablePosition, AdminAddSpot
<1>4. CASE CountCategories \/ CountProducts \/ CountUsers \/ CountPlaced
  BY <1>4 DEF CountCategories, CountProducts, CountUsers, CountPlaced, Count
<1>5. CASE FlattenCategories \/ seedDefaultCategories \/ seedEGOMenu
  BY <1>5 DEF FlattenCategories, seedDefaultCategories, seedEGOMenu
<1>6. CASE ListDefaults \/ backfillMustChangePassword \/ seedDefaultUsers
  BY <1>6 DEF ListDefaults, backfillMustChangePassword, seedDefaultUsers
<1>7. CASE SeedTableOne \/ LoadFloor \/ ListUntokened \/ ensureTableTokens
  BY <1>7 DEF SeedTableOne, LoadFloor, ListUntokened, ensureTableTokens
<1> QED
  BY <1>1, <1>2, <1>3, <1>4, <1>5, <1>6, <1>7 DEF StartupNext, InitDB

\* Some set of natural numbers has a least one.
LEMMA LeastNatural ==
  ASSUME NEW S, S \subseteq Nat, S # {}
  PROVE  \E m \in S : \A x \in S : m <= x
<1> DEFINE below == {1 .. n : n \in S}
<1>1. \A n \in S : 1 .. n \in SUBSET Nat /\ IsFiniteSet(1 .. n)
  BY FS_Interval
<1>2. below \subseteq FiniteSubsetsOf(Nat) /\ below # {}
  BY <1>1 DEF FiniteSubsetsOf
<1> HIDE DEF below
<1>3. PICK T \in below : \A U \in below : ~ (<<U, T>> \in StrictSubsetOrdering(Nat))
  BY <1>2, FS_StrictSubsetOrderingWellFounded, WFMin
<1>4. PICK m \in S : T = 1 .. m
  BY DEF below
<1>5. ASSUME NEW x \in S, ~(m <= x)
      PROVE  FALSE
  <2>1. /\ 1 .. x \subseteq 1 .. m /\ 1 .. x \in SUBSET Nat /\ 1 .. m \in SUBSET Nat
        /\ m \in 1 .. m /\ m \notin 1 .. x
    BY <1>5
  <2>2. 1 .. x \in below
    BY DEF below
  <2> QED
    BY <1>3, <1>4, <2>1, <2>2 DEF StrictSubsetOrdering
<1> QED
  BY <1>5

\* The last id is the greatest there is.
LEMMA LastIsLast ==
  ASSUME NEW f, DOMAIN f \subseteq Nat, NEW top \in Nat, \A p \in DOMAIN f : p <= top
  PROVE  LastKey(f) \in Nat /\ \A p \in DOMAIN f : p <= LastKey(f)
<1>1. CASE DOMAIN f = {}
  BY <1>1 DEF LastKey
<1>2. CASE DOMAIN f # {}
  <2> DEFINE gaps == {top - p : p \in DOMAIN f}
  <2>1. \A p \in DOMAIN f : top - p \in Nat
    OBVIOUS
  <2>2. gaps \subseteq Nat /\ gaps # {}
    BY <1>2, <2>1
  <2>3. PICK g \in gaps : \A h \in gaps : g <= h
    BY <2>2, LeastNatural
  <2>4. PICK n \in DOMAIN f : g = top - n
    BY <2>3
  <2>5. \A p \in DOMAIN f : p <= n
    <3> TAKE p \in DOMAIN f
    <3>1. top - p \in gaps
      OBVIOUS
    <3>2. g <= top - p
      BY <2>3, <3>1
    <3> HIDE DEF gaps
    <3> QED
      BY <2>4, <3>2
  <2>6. \E k \in DOMAIN f : \A p \in DOMAIN f : p <= k
    BY <2>5
  <2> QED
    BY <1>2, <2>6 DEF LastKey
<1> QED
  BY <1>1, <1>2

\* What adding a row to a table of the database does.
LEMMA WithIs ==
  ASSUME NEW f, NEW x, NEW y
  PROVE  /\ DOMAIN With(f, x, y) = DOMAIN f \cup {x}
         /\ With(f, x, y)[x] = y
         /\ \A z \in DOMAIN f \ {x} : With(f, x, y)[z] = f[z]
  BY DEF With

\* A row of the right type keeps the table typed.
LEMMA WithTyped ==
  ASSUME NEW R, NEW f, f \in [DOMAIN f -> R], NEW x, NEW y \in R
  PROVE  With(f, x, y) \in [DOMAIN f \cup {x} -> R]
  BY DEF With

\* What deleting a row does.
LEMMA WithoutIs ==
  ASSUME NEW f, NEW x
  PROVE  /\ DOMAIN Without(f, x) = DOMAIN f \ {x}
         /\ \A z \in DOMAIN f \ {x} : Without(f, x)[z] = f[z]
  BY DEF Without

\* Deleting a row keeps the table typed.
LEMMA WithoutTyped ==
  ASSUME NEW R, NEW f, f \in [DOMAIN f -> R], NEW x
  PROVE  Without(f, x) \in [DOMAIN f \ {x} -> R]
  BY DEF Without

\* The part of the types about tables.
RowsTyped == tables \in [DOMAIN tables -> TableRow] /\ IsFiniteSet(DOMAIN tables)

\* What a step does to tokens: none changes, or one table has a new one.
SameTokens ==
  /\ DOMAIN tables' \subseteq DOMAIN tables
  /\ \A m \in DOMAIN tables' : tables'[m].token = tables[m].token
NewToken(n) ==
  /\ issued' = issued + 1
  /\ DOMAIN tables' = DOMAIN tables \cup {n}
  /\ tables'[n].token = issued + 1
  /\ \A m \in DOMAIN tables \ {n} : tables'[m].token = tables[m].token
TokensMove == (issued' \in {issued, issued + 1} /\ SameTokens) \/ \E n : NewToken(n)

\* A new table with a new token.
LEMMA NewTable ==
  ASSUME RowsTyped, issued \in Nat, NEW n, NEW row \in TableRow, row.token = issued + 1,
         tables' = With(tables, n, row), issued' = issued + 1
  PROVE  RowsTyped' /\ TokensMove
<1>0. tables \in [DOMAIN tables -> TableRow] /\ IsFiniteSet(DOMAIN tables)
  BY DEF RowsTyped
<1> DEFINE T == With(tables, n, row)
<1>5. DOMAIN T = DOMAIN tables \cup {n} /\ T[n] = row /\ \A m \in DOMAIN tables \ {n} : T[m] = tables[m]
  BY DEF With
<1>6. tables' = T
  OBVIOUS
<1>1. /\ DOMAIN tables' = DOMAIN tables \cup {n} /\ tables'[n] = row
      /\ \A m \in DOMAIN tables \ {n} : tables'[m] = tables[m]
  BY <1>5, <1>6
<1>2. tables' \in [DOMAIN tables \cup {n} -> TableRow]
  BY <1>0, WithTyped
<1>3. IsFiniteSet(DOMAIN tables \cup {n})
  BY <1>0, FS_AddElement
<1>4. NewToken(n)
  BY <1>1 DEF NewToken
<1> QED
  BY <1>1, <1>2, <1>3, <1>4 DEF RowsTyped, TokensMove

\* Nothing is changed.
LEMMA OldTables ==
  ASSUME RowsTyped, issued \in Nat, UNCHANGED <<tables, issued>>
  PROVE  RowsTyped' /\ TokensMove
  BY DEF RowsTyped, TokensMove, SameTokens

\* A new row, on the map or off it, holds the token it was given.
LEMMA TableRows ==
  ASSUME NEW t \in Nat
  PROVE  /\ Table(t) \in TableRow /\ Table(t).token = t
         /\ [Table(t) EXCEPT !.placed = TRUE] \in TableRow /\ [Table(t) EXCEPT !.placed = TRUE].token = t
  BY DEF Table, TableRow, Unplaced

\* INSERT OR IGNORE adds a table with a new token or nothing.
LEMMA Inserted ==
  ASSUME RowsTyped, issued \in Nat, NEW n, InsertTable(n)
  PROVE  RowsTyped' /\ TokensMove
<1>1. CASE n \in DOMAIN tables
  BY <1>1, OldTables DEF InsertTable
<1>2. CASE n \notin DOMAIN tables
  <2>1. tables' = With(tables, n, Table(issued + 1)) /\ issued' = issued + 1
    BY <1>2 DEF InsertTable
  <2>2. Table(issued + 1) \in TableRow /\ Table(issued + 1).token = issued + 1
    <3>1. issued + 1 \in Nat
      OBVIOUS
    <3> QED
      BY <3>1, TableRows
  <2> QED
    BY <2>1, <2>2, NewTable
<1> QED
  BY <1>1, <1>2

\* A table put on or off the map or online booking keeps its token.
LEMMA Marked ==
  ASSUME RowsTyped, issued \in Nat, NEW n, NEW b \in BOOLEAN, UNCHANGED issued,
         \/ tables' = [tables EXCEPT ![n].bookable = b]
         \/ tables' = [tables EXCEPT ![n].placed = b]
  PROVE  RowsTyped' /\ TokensMove
<1> DEFINE B == [tables EXCEPT ![n].bookable = b]
           P == [tables EXCEPT ![n].placed = b]
<1>0. /\ tables \in [DOMAIN tables -> TableRow] /\ IsFiniteSet(DOMAIN tables)
      /\ \A m \in DOMAIN tables : tables[m] \in TableRow
  BY DEF RowsTyped
<1>1. /\ DOMAIN B = DOMAIN tables
      /\ \A m \in DOMAIN tables : B[m] = IF m = n THEN [tables[m] EXCEPT !.bookable = b] ELSE tables[m]
  OBVIOUS
<1>2. /\ DOMAIN P = DOMAIN tables
      /\ \A m \in DOMAIN tables : P[m] = IF m = n THEN [tables[m] EXCEPT !.placed = b] ELSE tables[m]
  OBVIOUS
<1>3. \A row \in TableRow : /\ [row EXCEPT !.bookable = b] \in TableRow /\ [row EXCEPT !.bookable = b].token = row.token
                            /\ [row EXCEPT !.placed = b] \in TableRow /\ [row EXCEPT !.placed = b].token = row.token
  BY DEF TableRow
<1>4. \A m \in DOMAIN tables : /\ B[m] \in TableRow /\ B[m].token = tables[m].token
                             /\ P[m] \in TableRow /\ P[m].token = tables[m].token
  BY <1>0, <1>1, <1>2, <1>3
<1>5. B \in [DOMAIN tables -> TableRow] /\ P \in [DOMAIN tables -> TableRow]
  BY <1>4
<1>6. tables' = B \/ tables' = P
  OBVIOUS
<1> HIDE DEF B, P
<1> QED
  BY <1>0, <1>1, <1>2, <1>4, <1>5, <1>6 DEF RowsTyped, TokensMove, SameTokens

\* A new token for a table that is there changes nothing else of it.
LEMMA Rotated ==
  ASSUME RowsTyped, issued \in Nat, NEW n \in DOMAIN tables,
         issued' = issued + 1, tables' = [tables EXCEPT ![n].token = issued + 1]
  PROVE  /\ RowsTyped' /\ NewToken(n) /\ DOMAIN tables' = DOMAIN tables
         /\ \A m \in DOMAIN tables : tables'[m].placed = tables[m].placed /\ tables'[m].bookable = tables[m].bookable
<1> DEFINE T == [tables EXCEPT ![n].token = issued + 1]
<1>0. /\ tables \in [DOMAIN tables -> TableRow] /\ IsFiniteSet(DOMAIN tables) /\ issued + 1 \in Nat
      /\ \A m \in DOMAIN tables : tables[m] \in TableRow
  BY DEF RowsTyped
<1>1. /\ DOMAIN T = DOMAIN tables
      /\ \A m \in DOMAIN tables : T[m] = IF m = n THEN [tables[m] EXCEPT !.token = issued + 1] ELSE tables[m]
  OBVIOUS
<1>2. \A row \in TableRow : [row EXCEPT !.token = issued + 1] \in TableRow
  BY <1>0 DEF TableRow
<1>3. \A row \in TableRow : /\ [row EXCEPT !.token = issued + 1].token = issued + 1
                            /\ [row EXCEPT !.token = issued + 1].placed = row.placed
                            /\ [row EXCEPT !.token = issued + 1].bookable = row.bookable
  BY DEF TableRow
<1>4. \A m \in DOMAIN tables : /\ T[m] \in TableRow /\ T[m].token = IF m = n THEN issued + 1 ELSE tables[m].token
                             /\ T[m].placed = tables[m].placed /\ T[m].bookable = tables[m].bookable
  BY <1>0, <1>1, <1>2, <1>3
<1>5. T \in [DOMAIN tables -> TableRow]
  BY <1>1, <1>4
<1>6. tables' = T /\ DOMAIN tables \cup {n} = DOMAIN tables
  OBVIOUS
<1> HIDE DEF T
<1> QED
  BY <1>0, <1>1, <1>4, <1>5, <1>6 DEF RowsTyped, NewToken

\* Every statement of the floor preset does one of these.
LEMMA FloorKeeps ==
  ASSUME RowsTyped, issued \in Nat, NEW what, NEW n, FloorStatement(what, n)
  PROVE  RowsTyped' /\ TokensMove
<1>1. CASE InsertTable(n)
  BY <1>1, Inserted
<1>2. CASE UNCHANGED issued /\ \E b \in BOOLEAN : \/ tables' = [tables EXCEPT ![n].bookable = b]
                                              \/ tables' = [tables EXCEPT ![n].placed = b]
  BY <1>2, Marked
<1> QED
  BY <1>1, <1>2 DEF FloorStatement, Unplaced

\* Every step of the server or the admin does one of these.
LEMMA TokensMoveSo ==
  ASSUME StartupInv, [StartupNext]_startupVars
  PROVE  RowsTyped' /\ TokensMove
<1>1. RowsTyped /\ issued \in Nat
  BY DEF StartupInv, StartupTypes, RowsTyped
<1>2. TablesWritten
  BY WrittenBy
<1>3. CASE UNCHANGED tables /\ issued' \in {issued, issued + 1}
  BY <1>1, <1>3 DEF RowsTyped, TokensMove, SameTokens
<1>4. CASE SeedTableOne \/ LoadFloor
  BY <1>1, <1>4, OldTables, Inserted, FloorKeeps DEF SeedTableOne, LoadFloor
<1>5. CASE ensureTableTokens
  <2>1. todo \in Seq(Untokened) /\ todo # <<>>
    BY <1>5 DEF ensureTableTokens, Doing, StartupInv, TokensApart, Unread
  <2>2. Head(todo) \in DOMAIN tables
    BY <2>1 DEF Untokened
  <2> QED
    BY <1>1, <1>5, <2>2, Rotated DEF ensureTableTokens, TokensMove
<1>6. CASE AdminAddSpot
  <2>1. /\ tables' = With(tables, LastKey(tables) + 1, [Table(issued + 1) EXCEPT !.placed = TRUE])
        /\ issued' = issued + 1
    BY <1>6 DEF AdminAddSpot
  <2>2. /\ [Table(issued + 1) EXCEPT !.placed = TRUE] \in TableRow
        /\ [Table(issued + 1) EXCEPT !.placed = TRUE].token = issued + 1
    BY <1>1, TableRows
  <2> QED
    BY <1>1, <2>1, <2>2, NewTable
<1>7. ASSUME NEW n \in DOMAIN tables, DeleteTable(n) \/ RotateTableToken(n) \/ SetTablePosition(n)
      PROVE  RowsTyped' /\ TokensMove
  <2>1. CASE DeleteTable(n)
    <3>1. IsFiniteSet(DOMAIN tables \ {n})
      BY <1>1, FS_Subset DEF RowsTyped
    <3>2. tables' = Without(tables, n) /\ issued' = issued
      BY <2>1 DEF DeleteTable
    <3>3. tables' \in [DOMAIN tables \ {n} -> TableRow] /\ DOMAIN tables' = DOMAIN tables \ {n}
      BY <1>1, <3>2, WithoutIs, WithoutTyped DEF RowsTyped
    <3>4. \A m \in DOMAIN tables' : tables'[m] = tables[m]
      BY <3>2, <3>3, WithoutIs
    <3> QED
      BY <3>1, <3>2, <3>3, <3>4 DEF RowsTyped, TokensMove, SameTokens
  <2>2. CASE RotateTableToken(n)
    BY <1>1, <2>2, Rotated DEF RotateTableToken, TokensMove
  <2>3. CASE SetTablePosition(n)
    BY <1>1, <2>3, Marked DEF SetTablePosition
  <2> QED
    BY <1>7, <2>1, <2>2, <2>3
<1> QED
  BY <1>2, <1>3, <1>4, <1>5, <1>6, <1>7 DEF TablesWritten, TableEdits

\* What a step of the start does to the accounts.
UserMarked(u) ==
  /\ DOMAIN users' = DOMAIN users
  /\ \A v \in DOMAIN users : users'[v].default = users[v].default /\ users'[v].must = (v = u \/ users[v].must)
UserSeeded(u) ==
  /\ DOMAIN users' = DOMAIN users \cup {u}
  /\ users'[u].default = (u \in {"admin", "manager"}) /\ users'[u].must
  /\ \A v \in DOMAIN users \ {u} : users'[v] = users[v]
UserChanged(u) ==
  /\ DOMAIN users' = DOMAIN users
  /\ ~users'[u].default
  /\ \A v \in DOMAIN users \ {u} : users'[v] = users[v]
UsersTyped == users \in [DOMAIN users -> UserRow]

\* The names of the seed.
LEMMA SeedNames == ToSet(seedUsers) = {"admin", "manager"} /\ seedUsers = <<"admin", "manager">>
  BY DEF ToSet, seedUsers

\* The backfill marks an account with the published password or nothing.
LEMMA BackfillMarks ==
  ASSUME UsersTyped, backfillMustChangePassword
  PROVE  /\ UsersTyped'
         /\ UNCHANGED users \/ (Published(Head(todo)) /\ UserMarked(Head(todo)))
<1>1. UNCHANGED users \/ (Published(Head(todo)) /\ users' = [users EXCEPT ![Head(todo)].must = TRUE])
  BY DEF backfillMustChangePassword
<1>2. CASE UNCHANGED users
  BY <1>2 DEF UsersTyped
<1>3. CASE Published(Head(todo)) /\ users' = [users EXCEPT ![Head(todo)].must = TRUE]
  <2> DEFINE U == [users EXCEPT ![Head(todo)].must = TRUE]
  <2>0. users \in [DOMAIN users -> UserRow] /\ \A v \in DOMAIN users : users[v] \in UserRow
    BY DEF UsersTyped
  <2>1. /\ DOMAIN U = DOMAIN users
        /\ \A v \in DOMAIN users : U[v] = IF v = Head(todo) THEN [users[v] EXCEPT !.must = TRUE] ELSE users[v]
    OBVIOUS
  <2>2. \A row \in UserRow : /\ [row EXCEPT !.must = TRUE] \in UserRow /\ row.must \in BOOLEAN
                             /\ [row EXCEPT !.must = TRUE].default = row.default
                             /\ [row EXCEPT !.must = TRUE].must = TRUE
    BY DEF UserRow
  <2>3. \A v \in DOMAIN users : /\ U[v] \in UserRow /\ U[v].default = users[v].default
                              /\ U[v].must = (v = Head(todo) \/ users[v].must)
    BY <2>0, <2>1, <2>2
  <2>4. U \in [DOMAIN users -> UserRow] /\ users' = U
    BY <1>3, <2>1, <2>3
  <2> HIDE DEF U
  <2> QED
    BY <1>3, <2>1, <2>3, <2>4 DEF UsersTyped, UserMarked
<1> QED
  BY <1>1, <1>2, <1>3

\* The seeding adds an account that was not there, marked to change.
LEMMA SeedAdds ==
  ASSUME UsersTyped, seedDefaultUsers
  PROVE  UsersTyped' /\ UserSeeded(Head(todo)) /\ Head(todo) \notin DOMAIN users
<1> DEFINE u == Head(todo)
           U == With(users, u, SeededUser(u))
<1>1. users' = U /\ u \notin DOMAIN users
  BY DEF seedDefaultUsers, NameTaken
<1>2. /\ SeededUser(u) \in UserRow
      /\ SeededUser(u).default = (u \in {"admin", "manager"}) /\ SeededUser(u).must = TRUE
  BY SeedNames DEF SeededUser, UserRow
<1>3. DOMAIN U = DOMAIN users \cup {u} /\ U[u] = SeededUser(u) /\ \A v \in DOMAIN users \ {u} : U[v] = users[v]
  BY DEF With
<1>4. U \in [DOMAIN users \cup {u} -> UserRow]
  BY <1>2, WithTyped DEF UsersTyped
<1> HIDE DEF U, u
<1>5. UsersTyped' /\ UserSeeded(u) /\ u \notin DOMAIN users
  BY <1>1, <1>2, <1>3, <1>4 DEF UsersTyped, UserSeeded
<1> QED
  BY <1>5 DEF u

\* A password set by the admin is not the published one.
LEMMA PasswordSet ==
  ASSUME UsersTyped, NEW u \in DOMAIN users, SetUserPassword(u)
  PROVE  UsersTyped' /\ UserChanged(u)
<1> DEFINE row == [default |-> FALSE, must |-> FALSE]
           U == [users EXCEPT ![u] = row]
<1>1. row \in UserRow /\ row.default = FALSE
  BY DEF UserRow
<1>2. users' = U
  BY DEF SetUserPassword
<1>3. DOMAIN U = DOMAIN users /\ U[u] = row /\ \A v \in DOMAIN users \ {u} : U[v] = users[v]
  OBVIOUS
<1>4. U \in [DOMAIN users -> UserRow]
  BY <1>1 DEF UsersTyped
<1> HIDE DEF U, row
<1> QED
  BY <1>1, <1>2, <1>3, <1>4 DEF UsersTyped, UserChanged
\* Every step keeps the types.
LEMMA TypesHeld ==
  ASSUME StartupInv, [StartupNext]_startupVars
  PROVE  StartupTypes'
<1>0. StartupTypes /\ UsersTyped /\ issued \in Nat /\ key \in Nat
  BY DEF StartupInv, StartupTypes, UsersTyped
<1>1. at' \in AllSteps \cup {"down"}
  <2>1. \A s \in AllSteps \ {"up"} : After(s) \in AllSteps
    BY AfterIs DEF AllSteps
  <2>2. "create" \in AllSteps
    BY DEF AllSteps
  <2> QED
    BY <1>0, <2>1, <2>2, StartMoves DEF StartupTypes, Moves
<1>2. columns' \subseteq Groups
  BY <1>0, WrittenBy DEF StartupTypes, ColumnsWritten, addColumnIfMissing
<1>3. RowsTyped' /\ issued' \in Nat
  <2>1. RowsTyped' /\ TokensMove
    BY TokensMoveSo
  <2>2. issued' = issued \/ issued' = issued + 1
    BY <2>1 DEF TokensMove, NewToken
  <2> QED
    BY <1>0, <2>1, <2>2
<1>4. key' \in Nat
  BY <1>0, WrittenBy DEF KeyWritten, InitPush
<1>5. UsersTyped'
  <2>1. UsersWritten
    BY WrittenBy
  <2>2. CASE UNCHANGED users
    BY <1>0, <2>2 DEF UsersTyped
  <2>3. CASE backfillMustChangePassword
    BY <1>0, <2>3, BackfillMarks
  <2>4. CASE seedDefaultUsers
    BY <1>0, <2>4, SeedAdds
  <2>5. CASE \E u \in DOMAIN users : SetUserPassword(u)
    BY <1>0, <2>5, PasswordSet
  <2> QED
    BY <2>1, <2>2, <2>3, <2>4, <2>5 DEF UsersWritten
<1>6. DOMAIN products' \subseteq Nat /\ \E top \in Nat : \A p \in DOMAIN products' : p <= top
  <2>0. PICK top \in Nat : DOMAIN products \subseteq Nat /\ \A p \in DOMAIN products : p <= top
    BY <1>0 DEF StartupTypes
  <2>1. ProductsWritten
    BY WrittenBy
  <2>2. CASE DOMAIN products' \subseteq DOMAIN products
    BY <2>0, <2>2
  <2>3. CASE FlattenCategories
    <3>1. products' = Flatten(products)
      BY <2>3 DEF FlattenCategories
    <3> QED
      BY <2>2, <3>1 DEF Flatten
  <2>4. CASE seedEGOMenu
    <3>1. CASE UNCHANGED products
      BY <2>2, <3>1
    <3>2. CASE products' = CreateProduct(products, Head(todo))
      <4> DEFINE last == LastKey(products)
                 row == Product(Head(todo), NoCategory)
      <4>1. last \in Nat /\ \A p \in DOMAIN products : p <= last
        BY <2>0, LastIsLast
      <4>2. products' = With(products, last + 1, row)
        BY <3>2 DEF CreateProduct
      <4> HIDE DEF last, row
      <4>3. DOMAIN products' = DOMAIN products \cup {last + 1}
        BY <4>2, WithIs
      <4>4. last + 1 \in Nat /\ \A p \in DOMAIN products' : p <= last + 1
        BY <2>0, <4>1, <4>3
      <4>5. DOMAIN products' \subseteq Nat
        BY <2>0, <4>3, <4>4
      <4> QED
        BY <4>4, <4>5
    <3> QED
      BY <2>4, <3>1, <3>2 DEF seedEGOMenu
  <2>5. ASSUME NEW p \in DOMAIN products, UpdateProduct(p) \/ DeleteProduct(p)
        PROVE  DOMAIN products' \subseteq DOMAIN products
    <3>1. CASE UpdateProduct(p)
      BY <3>1 DEF UpdateProduct
    <3>2. CASE DeleteProduct(p)
      <4>1. products' = Without(products, p)
        BY <3>2 DEF DeleteProduct
      <4> QED
        BY <4>1, WithoutIs
    <3> QED
      BY <2>5, <3>1, <3>2
  <2> QED
    BY <2>1, <2>2, <2>3, <2>4, <2>5 DEF ProductsWritten
<1> QED
  BY <1>1, <1>2, <1>3, <1>4, <1>5, <1>6 DEF StartupTypes, RowsTyped, UsersTyped

\* A step that adds columns is left only when it has added them.
LEMMA ColumnSteps ==
  ASSUME [StartupNext]_startupVars, at \in Groups, at' # at, at' # "down"
  PROVE  addColumnIfMissing(at) /\ at' = After(at)
<1> USE DEF Go, Groups
<1>1. CASE CreateTables \/ AddMenuColumns \/ AddStaffColumns \/ AddHoursColumns \/ AddPushColumns \/ AddFloorColumns
  BY <1>1 DEF CreateTables, AddMenuColumns, AddStaffColumns, AddHoursColumns, AddPushColumns, AddFloorColumns,
          addColumnIfMissing
<1>2. CASE UNCHANGED startupVars \/ BeginStart \/ Stop \/ InitPush \/ SeedingFails
  BY <1>2 DEF startupVars, BeginStart, Stop, InitPush, SeedingFails
<1>3. CASE Edits
  BY <1>3 DEF Edits, Edit, UpdateProduct, DeleteProduct, SetUserPassword, DeleteTable, RotateTableToken,
          SetTablePosition, AdminAddSpot
<1>4. CASE CountCategories \/ CountProducts \/ CountUsers \/ CountPlaced
  BY <1>4 DEF CountCategories, CountProducts, CountUsers, CountPlaced, Count
<1>5. CASE FlattenCategories \/ seedDefaultCategories \/ seedEGOMenu
  BY <1>5 DEF FlattenCategories, seedDefaultCategories, seedEGOMenu
<1>6. CASE ListDefaults \/ backfillMustChangePassword \/ seedDefaultUsers
  BY <1>6 DEF ListDefaults, backfillMustChangePassword, seedDefaultUsers
<1>7. CASE SeedTableOne \/ LoadFloor \/ ListUntokened \/ ensureTableTokens
  BY <1>7 DEF SeedTableOne, LoadFloor, ListUntokened, ensureTableTokens
<1> QED
  BY <1>1, <1>2, <1>3, <1>4, <1>5, <1>6, <1>7 DEF StartupNext, InitDB

\* Every step keeps the columns that were added.
LEMMA ColumnsHeld ==
  ASSUME StartupInv, [StartupNext]_startupVars
  PROVE  ColumnsThere'
<1>0. ColumnsThere /\ at \in AllSteps \cup {"down"}
  BY DEF StartupInv, StartupTypes
<1>1. columns \subseteq columns'
  BY WrittenBy DEF ColumnsWritten, addColumnIfMissing
<1>2. CASE at' = at \/ at' = "down" \/ at' = "create"
  BY <1>0, <1>1, <1>2 DEF ColumnsThere, Rising
<1>3. CASE at \in Groups /\ at' # at /\ at' # "down"
  <2>1. at \in columns' /\ at' = After(at)
    BY <1>3, ColumnSteps DEF addColumnIfMissing
  <2> QED
    BY <1>0, <1>1, <1>3, <2>1, AfterIs DEF ColumnsThere, Rising, Groups
<1>4. CASE at \in AllSteps \ (Groups \cup {"up"}) /\ at' = After(at)
  BY <1>0, <1>1, <1>4, AfterIs DEF ColumnsThere, Rising, Groups, AllSteps
<1> QED
  BY <1>2, <1>3, <1>4, StartMoves DEF Moves, AllSteps

\* Which actions each step has.
StepActions ==
  /\ at = "down" => BeginStart
  /\ at = "flatten" => FlattenCategories
  /\ at = "backfill" => ListDefaults \/ backfillMustChangePassword
  /\ at = "menu" => CountProducts \/ seedEGOMenu
  /\ at = "staff" => CountUsers \/ seedDefaultUsers
  /\ at = "floor" => CountPlaced \/ LoadFloor
  /\ at = "tokens" => ListUntokened \/ ensureTableTokens
  /\ at = "push" => InitPush

\* An action belongs to a step, and a step begins with nothing read.
LEMMA StepOf ==
  ASSUME [StartupNext]_startupVars, at' # "down"
  PROVE  /\ UNCHANGED startupVars \/ StepActions
         /\ at' = at \/ todo' = Unread
<1> USE DEF Go, StepActions
<1>1. CASE CreateTables \/ AddMenuColumns \/ AddStaffColumns \/ AddHoursColumns \/ AddPushColumns \/ AddFloorColumns
  BY <1>1 DEF CreateTables, AddMenuColumns, AddStaffColumns, AddHoursColumns, AddPushColumns, AddFloorColumns,
          addColumnIfMissing
<1>2. CASE UNCHANGED startupVars \/ BeginStart \/ Stop \/ InitPush \/ SeedingFails
  BY <1>2 DEF startupVars, BeginStart, Stop, InitPush, SeedingFails
<1>3. CASE Edits
  BY <1>3 DEF Edits, Edit, UpdateProduct, DeleteProduct, SetUserPassword, DeleteTable, RotateTableToken,
          SetTablePosition, AdminAddSpot
<1>4. CASE CountCategories \/ CountProducts \/ CountUsers \/ CountPlaced
  BY <1>4 DEF CountCategories, CountProducts, CountUsers, CountPlaced, Count
<1>5. CASE FlattenCategories \/ seedDefaultCategories \/ seedEGOMenu
  BY <1>5 DEF FlattenCategories, seedDefaultCategories, seedEGOMenu
<1>6. CASE ListDefaults \/ backfillMustChangePassword \/ seedDefaultUsers
  BY <1>6 DEF ListDefaults, backfillMustChangePassword, seedDefaultUsers
<1>7. CASE SeedTableOne \/ LoadFloor \/ ListUntokened \/ ensureTableTokens
  BY <1>7 DEF SeedTableOne, LoadFloor, ListUntokened, ensureTableTokens
<1> QED
  BY <1>1, <1>2, <1>3, <1>4, <1>5, <1>6, <1>7 DEF StartupNext, InitDB

\* Every step keeps the administrator's account.
LEMMA UsersHeld ==
  ASSUME StartupInv, [StartupNext]_startupVars
  PROVE  UsersThere'
<1>0. UsersThere /\ UsersTyped /\ at \in AllSteps \cup {"down"}
  BY DEF StartupInv, StartupTypes, UsersTyped
<1>1. UsersWritten
  BY WrittenBy
<1>2. CASE seedDefaultUsers
  <2>1. /\ at = "staff" /\ todo # Unread /\ failed' = failed
        /\ at' = IF Tail(todo) = <<>> THEN "floor" ELSE "staff"
        /\ todo' = IF Tail(todo) = <<>> THEN Unread ELSE Tail(todo)
    BY <1>2, AfterIs DEF seedDefaultUsers, Doing, Go, Runs
  <2>2. UserSeeded(Head(todo)) /\ UsersTyped'
    BY <1>0, <1>2, SeedAdds
  <2>3. CASE todo = <<"admin", "manager">>
    <3>1. Head(todo) = "admin" /\ Tail(todo) = <<"manager">>
      BY <2>3
    <3>2. at' = "staff" /\ todo' = <<"manager">>
      BY <2>1, <3>1
    <3>3. "staff" \notin failed => DOMAIN users = {}
      BY <1>0, <2>1, <2>3 DEF UsersThere
    <3> QED
      BY <1>0, <2>1, <2>2, <3>1, <3>2, <3>3 DEF UsersThere, UserSeeded
  <2>4. CASE todo = <<"manager">> /\ "admin" \in DOMAIN users
    <3>1. Head(todo) = "manager" /\ Tail(todo) = <<>>
      BY <2>4
    <3>2. at' = "floor"
      BY <2>1, <3>1
    <3> QED
      BY <1>0, <2>2, <2>4, <3>1, <3>2 DEF UsersThere, UserSeeded
  <2> QED
    BY <1>0, <2>1, <2>3, <2>4 DEF UsersThere
<1>3. ASSUME DOMAIN users' = DOMAIN users, ~seedDefaultUsers,
             \A u \in DOMAIN users : users'[u].default => users[u].default
      PROVE  UsersThere'
  <2>1. CASE at' = "down"
    BY <1>0, <1>3, <2>1 DEF UsersThere
  <2>2. CASE at' # "down" /\ at = "staff" /\ UNCHANGED startupVars
    BY <1>0, <2>2 DEF UsersThere, startupVars, rows
  <2>3. CASE CountUsers
    <3>1. at = "staff" /\ at' = (IF todo' = <<>> THEN "floor" ELSE "staff")
      BY <2>3, AfterIs DEF CountUsers, Count, Go, Unread, seedUsers
    <3>2. todo' # Unread => todo' = <<"admin", "manager">> /\ ("staff" \notin failed' => DOMAIN users = {})
      BY <2>3 DEF CountUsers, Count, Go, Unread, seedUsers, Runs, Fails
    <3>3. todo' = Unread => DOMAIN users # {}
      BY <2>3 DEF CountUsers, Count, Go, Unread, seedUsers, Runs, Fails
    <3> QED
      BY <1>0, <1>3, <3>1, <3>2, <3>3 DEF UsersThere, Unread
  <2>4. CASE at' # "down" /\ at # "staff"
    <3>1. at' = at \/ todo' = Unread
      BY <2>4, StepOf
    <3>2. at' \in {"floor", "tokens", "push", "up"} => at \in {"floor", "tokens", "push", "up"}
      BY <2>4, StartMoves, AfterIs DEF Moves, AllSteps
    <3>3. at' # "staff" \/ todo' = Unread
      BY <2>4, <3>1
    <3> QED
      BY <1>0, <1>3, <3>2, <3>3 DEF UsersThere
  <2> QED
    BY <1>3, <2>1, <2>2, <2>3, <2>4, StepOf DEF StepActions
<1>4. CASE UNCHANGED users /\ ~seedDefaultUsers
  BY <1>3, <1>4
<1>5. CASE backfillMustChangePassword /\ ~seedDefaultUsers
  <2>1. UNCHANGED users \/ UserMarked(Head(todo))
    BY <1>0, <1>5, BackfillMarks
  <2> QED
    BY <1>3, <1>5, <2>1 DEF UserMarked
<1>6. ASSUME NEW u \in DOMAIN users, SetUserPassword(u), ~seedDefaultUsers
      PROVE  UsersThere'
  <2>1. UserChanged(u)
    BY <1>0, <1>6, PasswordSet
  <2> QED
    BY <1>3, <1>6, <2>1 DEF UserChanged
<1> QED
  BY <1>1, <1>2, <1>4, <1>5, <1>6 DEF UsersWritten
\* A list of a finite set in some order holds each element once.
LEMMA EveryOrder ==
  ASSUME NEW S, IsFiniteSet(S), NEW s \in SetToSeqs(S)
  PROVE  /\ s \in Seq(S) /\ (s = <<>> <=> S = {})
         /\ \A i, j \in 1 .. Len(s) : i # j => s[i] # s[j]
         /\ \A x \in S : \E i \in 1 .. Len(s) : s[i] = x
<1> DEFINE k == Cardinality(S)
<1>1. k \in Nat
  BY FS_CardinalityType
<1>2. s \in [1 .. k -> S] /\ \A i, j \in 1 .. k : i # j => s[i] # s[j]
  BY DEF SetToSeqs
<1>3. IsFiniteSet(1 .. k) /\ Cardinality(1 .. k) = k
  BY <1>1, FS_Interval
<1>4. s \in Injection(1 .. k, S)
  BY <1>2 DEF Injection, IsInjective
<1>5. s \in Surjection(1 .. k, S)
  BY <1>3, <1>4, FS_Injection
<1>6. \A x \in S : \E i \in 1 .. k : s[i] = x
  BY <1>5 DEF Surjection
<1> HIDE DEF k
<1>7. s \in Seq(S) /\ Len(s) = k
  BY <1>1, <1>2
<1> QED
  BY <1>2, <1>6, <1>7

\* A list is its first element and the rest.
LEMMA HeadThenTail ==
  ASSUME NEW S, NEW s \in Seq(S), s # <<>>
  PROVE  /\ Head(s) \in S /\ Tail(s) \in Seq(S) /\ Len(Tail(s)) = Len(s) - 1 /\ Len(s) \in Nat \ {0}
         /\ Head(s) = s[1] /\ \A i \in 1 .. Len(Tail(s)) : Tail(s)[i] = s[i + 1]
         /\ \A i \in 1 .. Len(s) : s[i] = Head(s) \/ \E j \in 1 .. Len(Tail(s)) : Tail(s)[j] = s[i]
<1>1. /\ Head(s) \in S /\ Tail(s) \in Seq(S) /\ Len(Tail(s)) = Len(s) - 1 /\ Len(s) \in Nat \ {0}
      /\ Head(s) = s[1] /\ \A i \in 1 .. Len(Tail(s)) : Tail(s)[i] = s[i + 1]
  OBVIOUS
<1>2. ASSUME NEW i \in 1 .. Len(s)
      PROVE  s[i] = Head(s) \/ \E j \in 1 .. Len(Tail(s)) : Tail(s)[j] = s[i]
  <2>1. CASE i = 1
    BY <1>1, <2>1
  <2>2. CASE i # 1
    <3>1. i - 1 \in 1 .. Len(Tail(s)) /\ Tail(s)[i - 1] = s[i]
      BY <1>1, <2>2
    <3> QED
      BY <3>1
  <2> QED
    BY <2>1, <2>2
<1> QED
  BY <1>1, <1>2

\* The seeded accounts are finitely many.
LEMMA AdminAndManager == IsFiniteSet({"admin", "manager"})
<1>1. IsFiniteSet({"admin"})
  BY FS_Singleton
<1>2. IsFiniteSet({"admin"} \cup {"manager"}) /\ {"admin"} \cup {"manager"} = {"admin", "manager"}
  BY <1>1, FS_AddElement
<1> QED
  BY <1>2

\* Every step keeps the accounts of the published password marked.
LEMMA MustChangeHeld ==
  ASSUME StartupInv, [StartupNext]_startupVars
  PROVE  MustChange'
<1>0. MustChange /\ UsersThere /\ UsersTyped /\ ColumnsThere /\ at \in AllSteps \cup {"down"}
  BY DEF StartupInv, StartupTypes, UsersTyped
<1>1. UsersWritten /\ FaultsNoted
  BY WrittenBy
<1>2. CASE at' \in Rising \cup {"down"}
  BY <1>2 DEF MustChange, Rising
<1>3. CASE ListDefaults
  <2>1. PICK order \in SetToSeqs({"admin", "manager"}) : Go("backfill", order)
    BY <1>3, SeedNames DEF ListDefaults
  <2>2. /\ order \in Seq({"admin", "manager"}) /\ order # <<>>
        /\ \A x \in {"admin", "manager"} : \E i \in 1 .. Len(order) : order[i] = x
    <3> DEFINE names == {"admin", "manager"}
    <3>1. names # {} /\ IsFiniteSet(names) /\ order \in SetToSeqs(names)
      BY <2>1, AdminAndManager
    <3> HIDE DEF names
    <3>2. /\ order \in Seq(names) /\ order # <<>>
          /\ \A x \in names : \E i \in 1 .. Len(order) : order[i] = x
      BY <3>1, EveryOrder
    <3> QED
      BY <3>2 DEF names
  <2>3. at' = "backfill" /\ todo' = order
    BY <2>1, <2>2 DEF Go
  <2>4. users' = users
    BY <1>3 DEF ListDefaults, rows
  <2> QED
    BY <1>0, <2>2, <2>3, <2>4 DEF MustChange, UsersThere, Listed, Rising
<1>4. CASE backfillMustChangePassword
  <2>1. /\ todo \in Seq({"admin", "manager"}) /\ todo # <<>> /\ at = "backfill"
        /\ Go("backfill", Tail(todo))
    BY <1>0, <1>4 DEF backfillMustChangePassword, Doing, MustChange, Unread
  <2>2. /\ Tail(todo) \in Seq({"admin", "manager"})
        /\ \A x : Listed(x) => x = Head(todo) \/ \E j \in 1 .. Len(Tail(todo)) : Tail(todo)[j] = x
    BY <2>1, HeadThenTail DEF Listed
  <2>3. at' = (IF Tail(todo) = <<>> THEN "hours columns" ELSE "backfill") /\ todo' = Tail(todo)
    BY <2>1, AfterIs DEF Go, Unread
  <2>4. ASSUME "backfill" \notin failed', NEW u \in DOMAIN users', users'[u].default
        PROVE  users'[u].must \/ \E j \in 1 .. Len(todo') : todo'[j] = u
    <3>1. "backfill" \notin failed /\ "staff columns" \in columns
      BY <1>0, <1>4, <2>1, <2>4 DEF backfillMustChangePassword, Fails, Runs, ColumnsThere, Rising
    <3>2. users' = IF Published(Head(todo)) THEN [users EXCEPT ![Head(todo)].must = TRUE] ELSE users
      BY <1>4, <2>4, <3>1 DEF backfillMustChangePassword, Needs, Fails
    <3>3. UNCHANGED users \/ (Published(Head(todo)) /\ UserMarked(Head(todo)))
      BY <1>0, <1>4, BackfillMarks
    <3>4. u \in DOMAIN users /\ users[u].default
      BY <2>4, <3>3 DEF UserMarked
    <3>5. users[u].must \/ Listed(u)
      BY <1>0, <2>1, <3>1, <3>4 DEF MustChange, Unread
    <3>6. CASE u = Head(todo)
      <4>1. Published(Head(todo)) /\ users' = [users EXCEPT ![Head(todo)].must = TRUE]
        BY <3>2, <3>4, <3>6 DEF Published
      <4>2. users[u] \in UserRow
        BY <1>0, <3>4 DEF UsersTyped
      <4>3. users'[u] = [users[u] EXCEPT !.must = TRUE]
        BY <3>4, <3>6, <4>1
      <4> QED
        BY <4>2, <4>3 DEF UserRow
    <3>7. CASE u # Head(todo)
      BY <2>2, <2>3, <3>3, <3>4, <3>5, <3>7 DEF UserMarked
    <3> QED
      BY <3>6, <3>7
  <2>5. CASE Tail(todo) = <<>>
    <3>1. at' = "hours columns" /\ Len(todo') = 0
      BY <2>3, <2>5
    <3>2. ASSUME "backfill" \notin failed', NEW u \in DOMAIN users', users'[u].default
          PROVE  users'[u].must
      <4>1. users'[u].must \/ \E j \in 1 .. Len(todo') : todo'[j] = u
        BY <2>4, <3>2
      <4>2. 1 .. 0 = {}
        OBVIOUS
      <4> QED
        BY <3>1, <4>1, <4>2
    <3> QED
      BY <3>1, <3>2 DEF MustChange
  <2>6. CASE Tail(todo) # <<>>
    BY <2>2, <2>3, <2>4, <2>6 DEF MustChange, Rising, Listed
  <2> QED
    BY <2>5, <2>6
<1>5. CASE UNCHANGED startupVars
  BY <1>0, <1>5 DEF MustChange, Listed, startupVars, rows
<1>6. CASE at' = "backfill" /\ ~ListDefaults /\ ~backfillMustChangePassword /\ ~UNCHANGED startupVars
  <2>1. todo' = Unread
    BY <1>6, StepOf DEF StepActions
  <2> QED
    BY <1>6, <2>1 DEF MustChange, Rising
<1>7. CASE at' \notin Rising \cup {"down", "backfill"} /\ ~ListDefaults /\ ~backfillMustChangePassword /\ ~UNCHANGED startupVars
  <2>1. at \notin Rising \cup {"down", "backfill"}
    <3>1. at # "backfill"
      BY <1>7, StepOf DEF StepActions
    <3>2. \A s \in Rising : After(s) \in Rising \cup {"backfill"}
      BY AfterIs DEF Rising
    <3>3. "create" \in Rising /\ "down" \notin AllSteps
      BY DEF Rising, AllSteps
    <3> QED
      BY <1>0, <1>7, <3>1, <3>2, <3>3, StartMoves DEF Moves
  <2>2. "backfill" \notin failed' => "backfill" \notin failed
    <3>1. at # "down"
      BY <2>1
    <3> QED
      BY <1>1, <3>1 DEF FaultsNoted, BeginStart
  <2>3. CASE UNCHANGED users
    BY <1>0, <1>7, <2>1, <2>2, <2>3 DEF MustChange, Rising
  <2>4. CASE seedDefaultUsers
    <3>1. UserSeeded(Head(todo))
      BY <1>0, <2>4, SeedAdds
    <3> QED
      BY <1>0, <1>7, <2>1, <2>2, <3>1 DEF MustChange, UserSeeded
  <2>5. ASSUME NEW u \in DOMAIN users, SetUserPassword(u)
        PROVE  MustChange'
    <3>1. UserChanged(u)
      BY <1>0, <2>5, PasswordSet
    <3> QED
      BY <1>0, <1>7, <2>1, <2>2, <3>1 DEF MustChange, UserChanged
  <2> QED
    BY <1>1, <1>7, <2>3, <2>4, <2>5 DEF UsersWritten
<1> QED
  BY <1>2, <1>3, <1>4, <1>5, <1>6, <1>7
\* The tokens of the tables are of those made and differ.
Apart ==
  /\ \A n \in DOMAIN tables : tables[n].token \in 0 .. issued
  /\ \A m, n \in DOMAIN tables : tables[m].token = tables[n].token /\ tables[m].token # NoToken => m = n

\* Tokens that differ still differ when one more is made.
LEMMA ApartStill ==
  ASSUME issued \in Nat, Apart, TokensMove
  PROVE  Apart' /\ Untokened' \subseteq Untokened
<1>1. CASE issued' \in {issued, issued + 1} /\ SameTokens
  BY <1>1 DEF Apart, SameTokens, Untokened
<1>2. ASSUME NEW n, NewToken(n)
      PROVE  Apart' /\ Untokened' \subseteq Untokened
  <2>1. /\ issued' = issued + 1 /\ DOMAIN tables' = DOMAIN tables \cup {n} /\ tables'[n].token = issued + 1
        /\ \A m \in DOMAIN tables \ {n} : tables'[m].token = tables[m].token
    BY <1>2 DEF NewToken
  <2>2. \A m \in DOMAIN tables' : m = n \/ (m \in DOMAIN tables /\ tables'[m].token = tables[m].token)
    BY <2>1
  <2>3. \A m \in DOMAIN tables : tables[m].token \in 0 .. issued
    BY DEF Apart
  <2>4. \A m \in DOMAIN tables' : tables'[m].token \in 0 .. issued'
    BY <2>1, <2>2, <2>3
  <2>5. \A m \in DOMAIN tables' : m # n => tables'[m].token # issued + 1
    BY <2>2, <2>3
  <2>6. ASSUME NEW m \in DOMAIN tables', NEW k \in DOMAIN tables', tables'[m].token = tables'[k].token,
               tables'[m].token # NoToken
        PROVE  m = k
    BY <2>1, <2>2, <2>5, <2>6 DEF Apart
  <2>7. Untokened' \subseteq Untokened
    <3>1. issued + 1 # NoToken
      BY DEF NoToken
    <3> QED
      BY <2>1, <2>2, <3>1 DEF Untokened
  <2> QED
    BY <2>4, <2>6, <2>7 DEF Apart
<1> QED
  BY <1>1, <1>2 DEF TokensMove

\* Stated in the words of the invariant.
LEMMA ApartIs ==
  ASSUME RowsTyped, issued \in Nat
  PROVE  Apart <=> /\ \A n \in DOMAIN tables : tables[n].token <= issued
                   /\ \A m, n \in DOMAIN tables : tables[m].token = tables[n].token /\ tables[m].token # NoToken => m = n
<1>1. \A n \in DOMAIN tables : tables[n].token \in Nat
  BY DEF RowsTyped, TableRow
<1>2. \A n \in DOMAIN tables : tables[n].token \in 0 .. issued <=> tables[n].token <= issued
  BY <1>1
<1> QED
  BY <1>2 DEF Apart

\* Every step keeps the tokens apart and the list of untokened tables true.
LEMMA ApartHeld ==
  ASSUME StartupInv, [StartupNext]_startupVars
  PROVE  TokensApart'
<1>0. TokensApart /\ RowsTyped /\ issued \in Nat /\ at \in AllSteps \cup {"down"}
  BY DEF StartupInv, StartupTypes, RowsTyped
<1>1. RowsTyped' /\ TokensMove
  BY TokensMoveSo
<1>2. Apart
  BY <1>0, ApartIs DEF TokensApart
<1>3. Apart' /\ Untokened' \subseteq Untokened
  BY <1>0, <1>1, <1>2, ApartStill
<1>4. issued' \in Nat
  <2>1. issued' = issued \/ issued' = issued + 1
    BY <1>1 DEF TokensMove, NewToken
  <2> QED
    BY <1>0, <2>1
<1>5. /\ \A n \in DOMAIN tables' : tables'[n].token <= issued'
      /\ \A m, n \in DOMAIN tables' : tables'[m].token = tables'[n].token /\ tables'[m].token # NoToken => m = n
  BY <1>3, <1>4 DEF Apart
<1>6. CASE at' \notin {"tokens", "push", "up"}
  BY <1>5, <1>6 DEF TokensApart
<1>7. CASE ListUntokened
  <2>1. PICK order \in SetToSeqs(Untokened) : Go("tokens", order)
    BY <1>7 DEF ListUntokened
  <2>2. IsFiniteSet(Untokened)
    BY <1>0, FS_Subset DEF Untokened, RowsTyped
  <2>3. /\ order \in Seq(Untokened) /\ (order = <<>> <=> Untokened = {})
        /\ \A i, j \in 1 .. Len(order) : i # j => order[i] # order[j]
        /\ \A x \in Untokened : \E i \in 1 .. Len(order) : order[i] = x
    BY <2>1, <2>2, EveryOrder
  <2>4. Untokened' = Untokened
    BY <1>7 DEF ListUntokened, Untokened, rows
  <2>5. at' = (IF order = <<>> THEN "push" ELSE "tokens") /\ todo' = order
    BY <2>1, AfterIs DEF Go, Unread
  <2>6. CASE order = <<>>
    BY <1>5, <2>3, <2>4, <2>5, <2>6 DEF TokensApart
  <2>7. CASE order # <<>>
    BY <1>5, <2>3, <2>4, <2>5, <2>7 DEF TokensApart, Listed
  <2> QED
    BY <2>6, <2>7
<1>8. CASE ensureTableTokens
  <2>1. /\ todo \in Seq(Untokened) /\ todo # <<>> /\ at = "tokens" /\ Go("tokens", Tail(todo))
        /\ \A i, j \in 1 .. Len(todo) : i # j => todo[i] # todo[j]
        /\ \A n \in Untokened : Listed(n)
    BY <1>0, <1>8 DEF ensureTableTokens, Doing, TokensApart, Unread
  <2> DEFINE n == Head(todo)
             rest == Tail(todo)
  <2>2. /\ n \in Untokened /\ rest \in Seq(Untokened) /\ n = todo[1]
        /\ Len(rest) = Len(todo) - 1 /\ Len(todo) \in Nat \ {0}
        /\ \A i \in 1 .. Len(rest) : rest[i] = todo[i + 1]
        /\ \A i \in 1 .. Len(todo) : todo[i] = n \/ \E j \in 1 .. Len(rest) : rest[j] = todo[i]
    BY <2>1, HeadThenTail
  <2>3. at' = (IF rest = <<>> THEN "push" ELSE "tokens") /\ todo' = rest
    BY <2>1, AfterIs DEF Go, Unread
  <2>4. Untokened' = Untokened \ {n}
    <3>1. n \in DOMAIN tables
      BY <2>2 DEF Untokened
    <3>2. issued' = issued + 1 /\ tables' = [tables EXCEPT ![n].token = issued + 1]
      BY <1>8 DEF ensureTableTokens
    <3> HIDE DEF n
    <3>3. NewToken(n) /\ DOMAIN tables' = DOMAIN tables
      BY <1>0, <3>1, <3>2, Rotated
    <3>4. issued + 1 # NoToken
      BY <1>0 DEF NoToken
    <3> QED
      BY <3>3, <3>4 DEF NewToken, Untokened
  <2> HIDE DEF n, rest
  <2>5. \A i \in 1 .. Len(rest) : i \in Nat /\ i + 1 \in 1 .. Len(todo) /\ 1 \in 1 .. Len(todo) /\ i + 1 # 1
    BY <2>2
  <2>6. \A i \in 1 .. Len(rest) : rest[i] # n
    BY <2>1, <2>2, <2>5
  <2>7. ASSUME NEW i \in 1 .. Len(rest), NEW j \in 1 .. Len(rest), i # j
        PROVE  rest[i] # rest[j]
    <3>1. i + 1 # j + 1 /\ i + 1 \in 1 .. Len(todo) /\ j + 1 \in 1 .. Len(todo)
      BY <2>2, <2>5, <2>7
    <3>2. rest[i] = todo[i + 1] /\ rest[j] = todo[j + 1]
      BY <2>2
    <3> QED
      BY <2>1, <3>1, <3>2
  <2>8. rest \in Seq(Untokened \ {n})
    <3>1. \A i \in 1 .. Len(rest) : rest[i] \in Untokened \ {n}
      BY <2>2, <2>6
    <3>2. Len(rest) \in Nat /\ rest \in [1 .. Len(rest) -> Untokened]
      BY <2>2
    <3>3. rest \in [1 .. Len(rest) -> Untokened \ {n}]
      BY <3>1, <3>2
    <3> QED
      BY <3>2, <3>3
  <2>9. ASSUME NEW x \in Untokened \ {n}
        PROVE  \E j \in 1 .. Len(rest) : rest[j] = x
    <3>1. PICK i \in 1 .. Len(todo) : todo[i] = x
      BY <2>1 DEF Listed
    <3>2. todo[i] = n \/ \E j \in 1 .. Len(rest) : rest[j] = todo[i]
      BY <2>2
    <3> QED
      BY <3>1, <3>2
  <2>10. CASE rest = <<>>
    <3>1. Len(rest) = 0 /\ 1 .. 0 = {}
      BY <2>10
    <3>2. Untokened' = {}
      BY <2>4, <2>9, <3>1
    <3> QED
      BY <1>5, <2>3, <2>10, <3>2 DEF TokensApart
  <2>11. CASE rest # <<>>
    BY <1>5, <2>3, <2>4, <2>7, <2>8, <2>9, <2>11 DEF TokensApart, Listed
  <2> QED
    BY <2>10, <2>11
<1>9. CASE UNCHANGED startupVars
  <2>1. UNCHANGED <<at, todo, tables, issued>>
    BY <1>9 DEF startupVars, rows
  <2> QED
    BY <1>0, <2>1 DEF TokensApart, Listed, Untokened
<1>10. CASE at' = "tokens" /\ ~ListUntokened /\ ~ensureTableTokens /\ ~UNCHANGED startupVars
  <2>1. todo' = Unread
    BY <1>10, StepOf DEF StepActions
  <2> QED
    BY <1>5, <1>10, <2>1 DEF TokensApart
<1>11. CASE at' \in {"push", "up"} /\ ~ListUntokened /\ ~ensureTableTokens /\ ~UNCHANGED startupVars
  <2>1. at # "tokens"
    BY <1>11, StepOf DEF StepActions
  <2>2. at \in {"push", "up"}
    BY <1>0, <1>11, <2>1, StartMoves, AfterIs DEF Moves, AllSteps
  <2>3. Untokened' = {}
    BY <1>0, <1>3, <2>2 DEF TokensApart
  <2> QED
    BY <1>5, <1>11, <2>3 DEF TokensApart
<1> QED
  BY <1>6, <1>7, <1>8, <1>9, <1>10, <1>11
\* Every step hands out the stored key or none.
LEMMA KeyHeld ==
  ASSUME StartupInv, [StartupNext]_startupVars
  PROVE  KeyServed'
<1>1. KeyServed
  BY DEF StartupInv
<1>2. KeyWritten
  BY WrittenBy
<1> QED
  BY <1>1, <1>2 DEF KeyWritten, KeyServed, InitPush

\* The parts of KeepsRows.
KeepsTokens ==
  \A n \in DOMAIN before.tables :
    n \in DOMAIN tables /\ tables[n].token \in {before.tables[n].token}
                                               \cup {t \in 1 .. issued : before.tables[n].token = NoToken}
KeepsKey == before.key # NoKey => key = before.key
KeepsUsers ==
  \A u \in DOMAIN before.users :
    /\ u \in DOMAIN users /\ users[u].default = before.users[u].default
    /\ users[u].must # before.users[u].must => users[u].default
KeepsProducts ==
  \A p \in DOMAIN before.products :
    /\ p \in DOMAIN products
    /\ before.products[p].subcategory = NoCategory => products[p] = before.products[p]
KeepsMenu == DOMAIN before.products # {} /\ "menu" \notin failed => DOMAIN products = DOMAIN before.products
KeepsFloor ==
  Placed(before.tables) # {} /\ "floor" \notin failed =>
    /\ DOMAIN tables \subseteq DOMAIN before.tables \cup {1}
    /\ \A n \in DOMAIN before.tables :
         /\ tables[n].placed = before.tables[n].placed
         /\ tables[n].bookable = before.tables[n].bookable

\* They make up KeepsRows.
LEMMA KeepsParts == KeepsRows <=> KeepsTokens /\ KeepsKey /\ KeepsUsers /\ KeepsProducts /\ KeepsMenu /\ KeepsFloor
  BY DEF KeepsRows, KeepsTokens, KeepsKey, KeepsUsers, KeepsProducts, KeepsMenu, KeepsFloor

\* What a step of the start that is neither cut nor over has to go by.
Starting == StartupInv /\ [StartupNext]_startupVars /\ at \notin {"down", "up"}

-----------------------------------------------------------------------------
(* What a start keeps of the rows it found                                 *)

\* Such a step finds every part kept so far; the rows it is compared with
\* stay, and failures are only added.
LEMMA StartingHas ==
  ASSUME Starting
  PROVE  /\ KeepsTokens /\ KeepsKey /\ KeepsUsers /\ KeepsProducts /\ KeepsMenu /\ KeepsFloor
         /\ UNCHANGED before /\ failed \subseteq failed'
         /\ UsersTyped /\ RowsTyped /\ issued \in Nat
<1>1. StartupInv /\ [StartupNext]_startupVars /\ at \notin {"down", "up"}
  BY DEF Starting
<1>2. KeepsRows /\ UsersTyped /\ RowsTyped /\ issued \in Nat
  BY <1>1 DEF StartupInv, StartupTypes, UsersTyped, RowsTyped, Keeps
<1>3. FaultsNoted
  BY <1>1, WrittenBy
<1>4. UNCHANGED before /\ failed \subseteq failed'
  BY <1>1, <1>3 DEF FaultsNoted, BeginStart
<1> QED
  BY <1>2, <1>4, KeepsParts

\* The tables of a start: old ones keep their token or get their first.
OldRows == DOMAIN tables \subseteq DOMAIN tables' /\ \A m \in DOMAIN tables : tables'[m] = tables[m]
FirstTokens ==
  /\ issued' \in {issued, issued + 1} /\ DOMAIN tables \subseteq DOMAIN tables'
  /\ \A m \in DOMAIN tables :
       \/ tables'[m].token = tables[m].token
       \/ tables[m].token = NoToken /\ tables'[m].token = issued + 1 /\ issued' = issued + 1

\* INSERT OR IGNORE leaves the tables that are there.
LEMMA InsertedKeeps ==
  ASSUME NEW n, InsertTable(n)
  PROVE  OldRows /\ DOMAIN tables' \subseteq DOMAIN tables \cup {n} /\ issued' \in {issued, issued + 1}
<1>1. CASE n \in DOMAIN tables
  BY <1>1 DEF InsertTable, OldRows
<1>2. CASE n \notin DOMAIN tables
  <2>1. tables' = With(tables, n, Table(issued + 1)) /\ issued' = issued + 1
    BY <1>2 DEF InsertTable
  <2>2. /\ DOMAIN With(tables, n, Table(issued + 1)) = DOMAIN tables \cup {n}
        /\ \A m \in DOMAIN tables \ {n} : With(tables, n, Table(issued + 1))[m] = tables[m]
    BY DEF With
  <2> QED
    BY <1>2, <2>1, <2>2 DEF OldRows
<1> QED
  BY <1>1, <1>2

\* Marking a table leaves every token.
LEMMA MarkedKeeps ==
  ASSUME RowsTyped, NEW n, NEW b \in BOOLEAN,
         \/ tables' = [tables EXCEPT ![n].bookable = b]
         \/ tables' = [tables EXCEPT ![n].placed = b]
  PROVE  DOMAIN tables' = DOMAIN tables /\ \A m \in DOMAIN tables : tables'[m].token = tables[m].token
<1> DEFINE B == [tables EXCEPT ![n].bookable = b]
           P == [tables EXCEPT ![n].placed = b]
<1>0. \A m \in DOMAIN tables : tables[m] \in TableRow
  BY DEF RowsTyped
<1>1. /\ DOMAIN B = DOMAIN tables
      /\ \A m \in DOMAIN tables : B[m] = IF m = n THEN [tables[m] EXCEPT !.bookable = b] ELSE tables[m]
  OBVIOUS
<1>2. /\ DOMAIN P = DOMAIN tables
      /\ \A m \in DOMAIN tables : P[m] = IF m = n THEN [tables[m] EXCEPT !.placed = b] ELSE tables[m]
  OBVIOUS
<1>3. \A row \in TableRow : [row EXCEPT !.bookable = b].token = row.token /\ [row EXCEPT !.placed = b].token = row.token
  BY DEF TableRow
<1>4. \A m \in DOMAIN tables : B[m].token = tables[m].token /\ P[m].token = tables[m].token
  BY <1>0, <1>1, <1>2, <1>3
<1>5. tables' = B \/ tables' = P
  OBVIOUS
<1> HIDE DEF B, P
<1> QED
  BY <1>1, <1>2, <1>4, <1>5

\* During a start a table keeps its token or is given its first; and only the
\* floor preset moves tables or adds others than table 1.
LEMMA StartTables ==
  ASSUME Starting
  PROVE  /\ FirstTokens
         /\ ~LoadFloor =>
              /\ DOMAIN tables' \subseteq DOMAIN tables \cup {1}
              /\ \A m \in DOMAIN tables : /\ tables'[m].placed = tables[m].placed
                                          /\ tables'[m].bookable = tables[m].bookable
<1>0. StartupInv /\ [StartupNext]_startupVars /\ at \notin {"down", "up"} /\ RowsTyped /\ issued \in Nat
  BY StartingHas DEF Starting
<1>1. TablesWritten
  BY <1>0, WrittenBy
<1>2. CASE UNCHANGED tables /\ issued' \in {issued, issued + 1}
  BY <1>2 DEF FirstTokens
<1>3. CASE SeedTableOne
  <2>1. UNCHANGED <<tables, issued>> \/ InsertTable(1)
    BY <1>3 DEF SeedTableOne
  <2>2. CASE InsertTable(1)
    BY <2>2, InsertedKeeps DEF OldRows, FirstTokens
  <2> QED
    BY <1>2, <2>1, <2>2
<1>4. CASE LoadFloor
  <2>1. UNCHANGED <<tables, issued>> \/ \E what, n : FloorStatement(what, n)
    BY <1>4 DEF LoadFloor
  <2>2. ASSUME NEW what, NEW n, FloorStatement(what, n)
        PROVE  FirstTokens
    <3>1. CASE InsertTable(n)
      BY <3>1, InsertedKeeps DEF OldRows, FirstTokens
    <3>2. CASE UNCHANGED issued /\ \E b \in BOOLEAN : \/ tables' = [tables EXCEPT ![n].bookable = b]
                                                  \/ tables' = [tables EXCEPT ![n].placed = b]
      BY <1>0, <3>2, MarkedKeeps DEF FirstTokens
    <3> QED
      BY <2>2, <3>1, <3>2 DEF FloorStatement, Unplaced
  <2> QED
    BY <1>2, <1>4, <2>1, <2>2 DEF FirstTokens
<1>5. CASE ensureTableTokens
  <2>1. todo \in Seq(Untokened) /\ todo # <<>>
    BY <1>0, <1>5 DEF ensureTableTokens, Doing, StartupInv, TokensApart, Unread
  <2> DEFINE n == Head(todo)
  <2>2. n \in Untokened
    BY <2>1
  <2>3. n \in DOMAIN tables /\ tables[n].token = NoToken
    BY <2>2 DEF Untokened
  <2>4. issued' = issued + 1 /\ tables' = [tables EXCEPT ![n].token = issued + 1]
    BY <1>5 DEF ensureTableTokens
  <2> HIDE DEF n
  <2>5. /\ NewToken(n) /\ DOMAIN tables' = DOMAIN tables
        /\ \A m \in DOMAIN tables : tables'[m].placed = tables[m].placed /\ tables'[m].bookable = tables[m].bookable
    BY <1>0, <2>3, <2>4, Rotated
  <2> QED
    BY <2>3, <2>5 DEF NewToken, FirstTokens
<1>6. ~TableEdits
  BY <1>0 DEF TableEdits, AdminAddSpot, DeleteTable, RotateTableToken, SetTablePosition, Edit
<1>7. InitPush => issued' \in {issued, issued + 1}
  BY DEF InitPush
<1> QED
  BY <1>1, <1>2, <1>3, <1>4, <1>5, <1>6, <1>7 DEF TablesWritten
\* Printed QR codes stay good.
LEMMA TokensKept ==
  ASSUME Starting
  PROVE  KeepsTokens'
<1>0. KeepsTokens /\ UNCHANGED before /\ issued \in Nat /\ FirstTokens
  BY StartingHas, StartTables
<1> SUFFICES ASSUME NEW n \in DOMAIN before.tables
             PROVE  /\ n \in DOMAIN tables'
                    /\ tables'[n].token \in {before.tables[n].token}
                                            \cup {t \in 1 .. issued' : before.tables[n].token = NoToken}
  BY <1>0 DEF KeepsTokens
<1> DEFINE old == before.tables[n].token
<1>1. n \in DOMAIN tables /\ (tables[n].token = old \/ (tables[n].token \in 1 .. issued /\ old = NoToken))
  BY <1>0 DEF KeepsTokens
<1>2. issued' \in Nat /\ issued <= issued'
  <2>1. issued' = issued \/ issued' = issued + 1
    BY <1>0 DEF FirstTokens
  <2> QED
    BY <1>0, <2>1
<1> HIDE DEF old
<1>3. n \in DOMAIN tables'
  BY <1>0, <1>1 DEF FirstTokens
<1>4. CASE tables'[n].token = tables[n].token
  BY <1>0, <1>1, <1>2, <1>3, <1>4 DEF old
<1>5. CASE tables[n].token = NoToken /\ tables'[n].token = issued + 1 /\ issued' = issued + 1
  <2>1. old = NoToken
    BY <1>0, <1>1, <1>5 DEF NoToken
  <2>2. tables'[n].token \in 1 .. issued'
    BY <1>0, <1>5
  <2> QED
    BY <1>3, <2>1, <2>2 DEF old
<1> QED
  BY <1>0, <1>1, <1>4, <1>5 DEF FirstTokens

\* The push key stays.
LEMMA KeyKept ==
  ASSUME Starting
  PROVE  KeepsKey'
<1>1. KeepsKey /\ UNCHANGED before /\ KeyWritten
  BY StartingHas, WrittenBy DEF Starting
<1> QED
  BY <1>1 DEF KeepsKey, KeyWritten, InitPush

\* The accounts and their passwords stay.
LEMMA UsersKept ==
  ASSUME Starting
  PROVE  KeepsUsers'
<1>0. KeepsUsers /\ UNCHANGED before /\ UsersTyped /\ UsersWritten /\ at # "up"
  BY StartingHas, WrittenBy DEF Starting
<1>1. CASE UNCHANGED users
  BY <1>0, <1>1 DEF KeepsUsers
<1>2. CASE backfillMustChangePassword
  <2>1. UNCHANGED users \/ (Published(Head(todo)) /\ UserMarked(Head(todo)))
    BY <1>0, <1>2, BackfillMarks
  <2>2. ASSUME Published(Head(todo)), UserMarked(Head(todo)), NEW u \in DOMAIN before.users
        PROVE  /\ u \in DOMAIN users' /\ users'[u].default = before.users[u].default
               /\ users'[u].must # before.users[u].must => users'[u].default
    <3>1. /\ u \in DOMAIN users /\ users[u].default = before.users[u].default
          /\ users[u].must # before.users[u].must => users[u].default
      BY <1>0 DEF KeepsUsers
    <3>2. /\ u \in DOMAIN users' /\ users'[u].default = users[u].default
          /\ users'[u].must = (u = Head(todo) \/ users[u].must)
      BY <2>2, <3>1 DEF UserMarked
    <3>3. CASE u = Head(todo)
      BY <2>2, <3>1, <3>2, <3>3 DEF Published
    <3>4. CASE u # Head(todo)
      <4>1. users[u].must \in BOOLEAN
        BY <1>0, <3>1 DEF UsersTyped, UserRow
      <4>2. users'[u].must = users[u].must
        BY <3>2, <3>4, <4>1
      <4> QED
        BY <3>1, <3>2, <4>2
    <3> QED
      BY <3>3, <3>4
  <2>3. CASE Published(Head(todo)) /\ UserMarked(Head(todo))
    BY <1>0, <2>2, <2>3 DEF KeepsUsers
  <2> QED
    BY <1>1, <2>1, <2>3
<1>3. CASE seedDefaultUsers
  <2>1. UserSeeded(Head(todo)) /\ Head(todo) \notin DOMAIN users
    BY <1>0, <1>3, SeedAdds
  <2>2. \A u \in DOMAIN users : u \in DOMAIN users' /\ users'[u] = users[u]
    BY <2>1 DEF UserSeeded
  <2> QED
    BY <1>0, <2>2 DEF KeepsUsers
<1>4. ~ \E u \in DOMAIN users : SetUserPassword(u)
  BY <1>0 DEF SetUserPassword, Edit
<1> QED
  BY <1>0, <1>1, <1>2, <1>3, <1>4 DEF UsersWritten

\* The flattening leaves products without a subcategory.
LEMMA FlattenIs ==
  ASSUME NEW ps
  PROVE  /\ DOMAIN Flatten(ps) = DOMAIN ps
         /\ \A p \in DOMAIN ps : ps[p].subcategory = NoCategory => Flatten(ps)[p] = ps[p]
  BY DEF Flatten

\* A new dish has an id of its own.
LEMMA CreatedIs ==
  ASSUME NEW ps, DOMAIN ps \subseteq Nat, NEW top \in Nat, \A p \in DOMAIN ps : p <= top, NEW category
  PROVE  /\ DOMAIN ps \subseteq DOMAIN CreateProduct(ps, category)
         /\ \A p \in DOMAIN ps : CreateProduct(ps, category)[p] = ps[p]
<1> DEFINE last == LastKey(ps)
           row == Product(category, NoCategory)
           more == With(ps, last + 1, row)
<1>1. last \in Nat /\ \A p \in DOMAIN ps : p <= last
  BY LastIsLast
<1>2. DOMAIN more = DOMAIN ps \cup {last + 1} /\ \A p \in DOMAIN ps \ {last + 1} : more[p] = ps[p]
  BY DEF With
<1>3. CreateProduct(ps, category) = more
  BY DEF CreateProduct
<1> HIDE DEF last, row, more
<1>4. last + 1 \notin DOMAIN ps
  BY <1>1
<1> QED
  BY <1>2, <1>3, <1>4

\* The products stay, and none is added to a menu that had any.
LEMMA ProductsKept ==
  ASSUME Starting
  PROVE  KeepsProducts' /\ KeepsMenu'
<1>0. /\ KeepsProducts /\ KeepsMenu /\ UNCHANGED before /\ failed \subseteq failed'
      /\ ProductsWritten /\ at # "up" /\ StartupTypes /\ Keeps /\ at # "down"
  BY StartingHas, WrittenBy DEF Starting, StartupInv
<1>1. CASE UNCHANGED products
  BY <1>0, <1>1 DEF KeepsProducts, KeepsMenu
<1>2. CASE FlattenCategories
  <2>1. products' = Flatten(products)
    BY <1>2 DEF FlattenCategories
  <2>2. /\ DOMAIN products' = DOMAIN products
        /\ \A p \in DOMAIN products : products[p].subcategory = NoCategory => products'[p] = products[p]
    BY <2>1, FlattenIs
  <2>3. KeepsProducts'
    BY <1>0, <2>2 DEF KeepsProducts
  <2>4. KeepsMenu'
    BY <1>0, <2>2 DEF KeepsMenu
  <2> QED
    BY <2>3, <2>4
<1>3. CASE seedEGOMenu
  <2>1. UNCHANGED products \/ products' = CreateProduct(products, Head(todo))
    BY <1>3 DEF seedEGOMenu
  <2>2. ASSUME products' = CreateProduct(products, Head(todo))
        PROVE  KeepsProducts' /\ KeepsMenu'
    <3>1. PICK top \in Nat : DOMAIN products \subseteq Nat /\ \A p \in DOMAIN products : p <= top
      BY <1>0 DEF StartupTypes
    <3>2. /\ DOMAIN products \subseteq DOMAIN products'
          /\ \A p \in DOMAIN products : products'[p] = products[p]
      BY <2>2, <3>1, CreatedIs
    <3>3. KeepsProducts'
      BY <1>0, <3>2 DEF KeepsProducts
    <3>4. at = "menu" /\ todo # Unread
      BY <1>3 DEF seedEGOMenu, Doing
    <3>5. "menu" \notin failed' => DOMAIN before.products = {}
      BY <1>0, <3>4 DEF Keeps
    <3>6. KeepsMenu'
      BY <1>0, <3>5 DEF KeepsMenu
    <3> QED
      BY <3>3, <3>6
  <2> QED
    BY <1>1, <2>1, <2>2
<1>4. ~ \E p \in DOMAIN products : UpdateProduct(p) \/ DeleteProduct(p)
  BY <1>0 DEF UpdateProduct, DeleteProduct, Edit
<1> QED
  BY <1>0, <1>1, <1>2, <1>3, <1>4 DEF ProductsWritten

\* A floor that was laid out stays as it was.
LEMMA FloorKept ==
  ASSUME Starting
  PROVE  KeepsFloor'
<1>0. /\ KeepsFloor /\ KeepsTokens /\ UNCHANGED before /\ failed \subseteq failed'
      /\ Keeps /\ at # "up" /\ at # "down" /\ FirstTokens
  BY StartingHas, StartTables DEF Starting, StartupInv
<1>1. CASE LoadFloor
  <2>1. at = "floor" /\ todo # Unread
    BY <1>1 DEF LoadFloor, Doing
  <2>2. "floor" \notin failed' => Placed(before.tables) = {}
    BY <1>0, <2>1 DEF Keeps
  <2> QED
    BY <1>0, <2>2 DEF KeepsFloor
<1>2. CASE ~LoadFloor
  <2>1. /\ DOMAIN tables' \subseteq DOMAIN tables \cup {1}
        /\ \A m \in DOMAIN tables : /\ tables'[m].placed = tables[m].placed
                                    /\ tables'[m].bookable = tables[m].bookable
    BY <1>2, StartTables
  <2>2. \A n \in DOMAIN before.tables : n \in DOMAIN tables
    BY <1>0 DEF KeepsTokens
  <2> QED
    BY <1>0, <2>1, <2>2 DEF KeepsFloor
<1> QED
  BY <1>1, <1>2

\* Together: every statement of a start keeps what it found.
LEMMA RowsKept ==
  ASSUME StartupInv, [StartupNext]_startupVars, at \notin {"down", "up"}
  PROVE  KeepsRows'
<1>1. Starting
  BY DEF Starting
<1>2. KeepsTokens' /\ KeepsKey' /\ KeepsUsers' /\ KeepsProducts' /\ KeepsMenu' /\ KeepsFloor'
  BY <1>1, TokensKept, KeyKept, UsersKept, ProductsKept, FloorKept
<1> QED
  BY <1>2 DEF KeepsRows, KeepsTokens, KeepsKey, KeepsUsers, KeepsProducts, KeepsMenu, KeepsFloor

\* The record of what a start keeps is itself kept, and begins true.
LEMMA KeepsHeld ==
  ASSUME StartupInv, [StartupNext]_startupVars
  PROVE  Keeps'
<1>0. at \in AllSteps \cup {"down"} /\ Keeps /\ RowsTyped /\ UsersTyped
  BY DEF StartupInv, StartupTypes, RowsTyped, UsersTyped
<1>1. CASE at' \in {"down", "up"}
  BY <1>1 DEF Keeps
<1>2. CASE at = "down" /\ at' \notin {"down", "up"}
  <2>1. BeginStart
    BY <1>2, StepOf DEF StepActions, startupVars
  <2>2. /\ UNCHANGED <<products, users, tables, key, issued>> /\ todo' = Unread
        /\ before' = [products |-> products, users |-> users, tables |-> tables, key |-> key]
    BY <2>1 DEF BeginStart, rows
  <2>3. KeepsTokens' /\ KeepsKey' /\ KeepsUsers'
    BY <2>2 DEF KeepsTokens, KeepsKey, KeepsUsers
  <2>4. KeepsProducts' /\ KeepsMenu' /\ KeepsFloor'
    BY <2>2 DEF KeepsProducts, KeepsMenu, KeepsFloor
  <2>5. KeepsRows'
    BY <2>3, <2>4 DEF KeepsRows, KeepsTokens, KeepsKey, KeepsUsers, KeepsProducts, KeepsMenu, KeepsFloor
  <2> QED
    BY <2>2, <2>5 DEF Keeps
<1>3. CASE at \notin {"down", "up"} /\ at' \notin {"down", "up"}
  <2>1. KeepsRows'
    BY <1>3, RowsKept
  <2>2. /\ KeepsMenu /\ KeepsFloor /\ KeepsTokens /\ UNCHANGED before /\ failed \subseteq failed'
    BY <1>3, StartingHas DEF Starting
  <2>3. at' = "floor" /\ todo' # Unread /\ "floor" \notin failed' => Placed(before'.tables) = {}
    <3>1. CASE UNCHANGED startupVars
      BY <1>0, <3>1 DEF startupVars, Keeps
    <3>2. CASE CountPlaced
      <4>1. todo' # Unread /\ "floor" \notin failed' => Placed(tables) = {}
        BY <3>2 DEF CountPlaced, Count, Go, Runs, Fails, Unread
      <4>2. \A n \in DOMAIN before.tables : n \in DOMAIN tables
        BY <2>2 DEF KeepsTokens
      <4> QED
        BY <2>2, <4>1, <4>2 DEF KeepsFloor, Placed
    <3>3. CASE LoadFloor
      BY <1>0, <2>2, <3>3 DEF LoadFloor, Doing, Keeps
    <3>4. CASE at' = "floor" /\ ~UNCHANGED startupVars /\ ~CountPlaced /\ ~LoadFloor
      BY <3>4, StepOf DEF StepActions
    <3> QED
      BY <3>1, <3>2, <3>3, <3>4
  <2>4. at' = "menu" /\ todo' # Unread /\ "menu" \notin failed' => DOMAIN before'.products = {}
    <3>1. CASE UNCHANGED startupVars
      BY <1>0, <3>1 DEF startupVars, Keeps
    <3>2. CASE CountProducts
      <4>1. todo' # Unread /\ "menu" \notin failed' => DOMAIN products = {}
        BY <3>2 DEF CountProducts, Count, Go, Runs, Fails, Unread
      <4> QED
        BY <2>2, <4>1 DEF KeepsMenu
    <3>3. CASE seedEGOMenu
      BY <1>0, <2>2, <3>3 DEF seedEGOMenu, Doing, Keeps
    <3>4. CASE at' = "menu" /\ ~UNCHANGED startupVars /\ ~CountProducts /\ ~seedEGOMenu
      BY <3>4, StepOf DEF StepActions
    <3> QED
      BY <3>1, <3>2, <3>3, <3>4
  <2> QED
    BY <2>1, <2>3, <2>4 DEF Keeps
<1>4. at = "up" => at' \in {"down", "up"}
  BY StartMoves DEF Moves, AllSteps
<1> QED
  BY <1>1, <1>2, <1>3, <1>4

\* A new database, and one of any older version, satisfies the invariant.
LEMMA StartupBegins ==
  ASSUME StartupInit
  PROVE  StartupInv
<1>0. at = "down" /\ issued = 1 /\ serving = NoKey
  BY DEF StartupInit
<1>1. ColumnsThere /\ KeyServed /\ Keeps /\ MustChange
  BY <1>0 DEF ColumnsThere, KeyServed, Keeps, MustChange, Rising
<1>2. at \in AllSteps \cup {"down"} /\ issued \in Nat /\ columns \subseteq Groups /\ key \in Nat
  <2>1. at \in AllSteps \cup {"down"} /\ issued \in Nat
    BY <1>0
  <2>2. key = NoKey \/ key = 1
    BY DEF StartupInit
  <2>3. columns \subseteq Groups
    BY DEF StartupInit, Groups
  <2> QED
    BY <2>1, <2>2, <2>3 DEF NoKey
<1>3. DOMAIN products \subseteq {1}
  <2>1. \A x : DOMAIN <<x>> = {1} /\ DOMAIN <<>> = {}
    OBVIOUS
  <2> QED
    BY <2>1 DEF StartupInit
<1>4. UsersTyped /\ \/ DOMAIN users = {}
                    \/ DOMAIN users = {"admin", "manager"}
  <2>1. CASE users = <<>>
    <3>1. DOMAIN users = {} /\ users \in [{} -> UserRow]
      BY <2>1
    <3> QED
      BY <3>1 DEF UsersTyped
  <2>2. ASSUME NEW changed \in BOOLEAN,
               users = [u \in {"admin", "manager"} |-> [default |-> u = "admin" => ~changed, must |-> FALSE]]
        PROVE  UsersTyped /\ DOMAIN users = {"admin", "manager"}
    <3>1. DOMAIN users = {"admin", "manager"}
      BY <2>2
    <3>2. \A u \in {"admin", "manager"} : [default |-> u = "admin" => ~changed, must |-> FALSE] \in UserRow
      BY DEF UserRow
    <3>3. users \in [{"admin", "manager"} -> UserRow]
      BY <2>2, <3>2
    <3> QED
      BY <3>1, <3>3 DEF UsersTyped
  <2> QED
    BY <2>1, <2>2 DEF StartupInit
<1>5. RowsTyped /\ \A n \in DOMAIN tables : tables[n].token = NoToken
  <2>1. CASE tables = <<>>
    BY <2>1, FS_EmptySet DEF RowsTyped
  <2>2. ASSUME NEW onMap \in BOOLEAN, tables = [n \in {3} |-> [Table(NoToken) EXCEPT !.placed = onMap]]
        PROVE  RowsTyped /\ \A n \in DOMAIN tables : tables[n].token = NoToken
    <3> DEFINE row == [Table(NoToken) EXCEPT !.placed = onMap]
    <3>1. row \in TableRow /\ row.token = NoToken
      BY DEF Table, TableRow, NoToken
    <3>2. IsFiniteSet({3})
      BY FS_Singleton
    <3> HIDE DEF row
    <3>3. DOMAIN tables = {3} /\ \A n \in {3} : tables[n] = row
      BY <2>2 DEF row
    <3>4. tables \in [{3} -> TableRow]
      BY <2>2, <3>1 DEF row
    <3> QED
      BY <3>1, <3>2, <3>3, <3>4 DEF RowsTyped
  <2> QED
    BY <2>1, <2>2 DEF StartupInit
<1>6. StartupTypes
  <2>1. DOMAIN products \subseteq Nat /\ \A p \in DOMAIN products : p <= 1
    BY <1>3
  <2> QED
    BY <1>2, <1>4, <1>5, <2>1 DEF StartupTypes, UsersTyped, RowsTyped
<1>7. UsersThere
  BY <1>0, <1>4 DEF UsersThere
<1>8. TokensApart
  BY <1>0, <1>5 DEF TokensApart, NoToken
<1> QED
  BY <1>1, <1>6, <1>7, <1>8 DEF StartupInv

\* Every step of Next keeps the invariant.
LEMMA StartupStep ==
  ASSUME StartupInv, [StartupNext]_startupVars
  PROVE  StartupInv'
  BY TypesHeld, ColumnsHeld, UsersHeld, MustChangeHeld, ApartHeld, KeyHeld, KeepsHeld DEF StartupInv

\* The invariant holds however often starts are cut and whatever fails:
\* InitDB may be taken up again anywhere (db.go).
THEOREM StartupHolds == StartupSpec => []StartupInv
<1> QED
  BY StartupBegins, StartupStep, PTL DEF StartupSpec

\* The invariant contains what a whole start is.
LEMMA WholeFollows == StartupInv => StartsWhole
<1> SUFFICES ASSUME StartupInv
             PROVE  StartsWhole
  OBVIOUS
<1>1. ColumnsThere /\ UsersThere /\ MustChange /\ TokensApart /\ KeyServed /\ RowsTyped /\ columns \subseteq Groups
  BY DEF StartupInv, StartupTypes, RowsTyped
<1>2. NameTaken => "staff" \in failed
  <2>1. <<"admin", "manager">> # Unread /\ Head(<<"admin", "manager">>) = "admin" /\ Head(<<"manager">>) = "manager"
    BY DEF Unread
  <2> QED
    BY <1>1, <2>1 DEF NameTaken, Doing, UsersThere
<1>3. ASSUME at = "up"
      PROVE  /\ columns = Groups
             /\ "admin" \in DOMAIN users
             /\ "backfill" \notin failed => \A u \in DOMAIN users : users[u].default => users[u].must
             /\ Untokened = {}
             /\ \A m, n \in DOMAIN tables : tables[m].token = tables[n].token => m = n
             /\ serving \in {NoKey, key}
  <2>1. columns = Groups
    BY <1>1, <1>3 DEF ColumnsThere, Rising, Groups
  <2>2. "admin" \in DOMAIN users
    BY <1>1, <1>3 DEF UsersThere
  <2>3. "backfill" \notin failed => \A u \in DOMAIN users : users[u].default => users[u].must
    BY <1>1, <1>3 DEF MustChange, Rising
  <2>4. Untokened = {}
    BY <1>1, <1>3 DEF TokensApart
  <2>5. \A m, n \in DOMAIN tables : tables[m].token = tables[n].token => m = n
    BY <1>1, <2>4 DEF TokensApart, Untokened
  <2> QED
    BY <1>1, <2>1, <2>2, <2>3, <2>4, <2>5 DEF KeyServed
<1> QED
  BY <1>2, <1>3 DEF StartsWhole

\* A server that is up has every column, an administrator, a forced change on
\* published passwords, QR codes that differ, and hands out the stored push
\* key; and no start ends for good over an account seeded before.
THEOREM ServesWhole == StartupSpec => []StartsWhole
<1> QED
  BY StartupHolds, WholeFollows, PTL

\* No statement of a start undoes what the admin changed: QR codes, push key,
\* accounts, products, a laid-out floor.
THEOREM EditsSurvive == StartupSpec => StartsKeepEdits
<1>1. StartupInv /\ [StartupNext]_startupVars => [at \notin {"down", "up"} => KeepsRows']_startupVars
  BY RowsKept
<1> QED
  BY <1>1, StartupHolds, PTL DEF StartupSpec, StartsKeepEdits

=============================================================================
