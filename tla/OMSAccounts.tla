------------------------------ MODULE OMSAccounts ------------------------------
(***************************************************************************)
(* The OMS account of the console: the login kept in the table, the        *)
(* clients built from it, which share a token between concurrent requests, *)
(* and the calls that check, replace or upgrade the password.              *)
(*                                                                         *)
(* A client has two mutexes, taken in the order mfaMu, tokenMu: a login on *)
(* behalf of a request holds both until the answer, the two MFA calls hold *)
(* the first.  Clients are cached by the login they were built from; every *)
(* save forgets them all, and requests under way keep the one they have.   *)
(* The calls that check a password build a client of their own.            *)
(***************************************************************************)
EXTENDS Naturals, FiniteSets

CONSTANTS
  Users,      \* slots for concurrent HTTP requests
  Clients,    \* slots for clients that are cached or in use
  Passwords,  \* passwords of the one username
  First,      \* the one the remote system has at the start
  GateSlots,  \* platformOrderQueryConcurrency
  MaxTokens,  \* bound of the model: tokens the remote system issues
  MaxOrders,  \* bound of the model: what the remote system demands or changes
  MaxCalls,   \* bound of the model: calls
  NoPassword, NoClient, NoUser

ASSUME SlotsAssumption == GateSlots \in Nat \ {0} /\ MaxTokens \in Nat

ASSUME EmptyAssumption ==
  /\ First \in Passwords /\ NoPassword \notin Passwords /\ NoClient \notin Clients /\ NoUser \notin Users
  /\ MaxOrders \in Nat /\ MaxCalls \in Nat

Tokens == 1 .. MaxTokens
NoToken == 0

VARIABLES
  remote,   \* [password, demand]: what a login must bring
  valid,    \* tokens the remote system accepts
  issued,   \* the number of tokens issued
  orders,   \* the number of demands and changes of the remote system
  account,  \* [password, enabled]: the row of xlwms_oms_accounts
  cached,   \* [Passwords -> Clients \cup {NoClient}]: clients
  client,   \* [Clients -> Client]
  call,     \* [Users -> Call]
  asked,    \* the number of calls
  proven    \* history: the passwords the remote system took for right

remoteVars == <<remote, valid, issued, orders>>
omsVars == <<remoteVars, account, cached, client, call, asked, proven>>

Demand == {"none", "mfa", "update"}

Operation == {"query", "list", "check", "beginMFA", "completeMFA", "create", "update", "upgrade"}

Step == {"idle", "row", "client", "gate", "access", "login", "operate", "invalidate",
         "beginMFA", "beginLogin", "sendCode", "completeMFA", "verifyCode", "completeLogin",
         "probe", "change", "verify", "validate", "save", "forget"}

Client == [password : Passwords \cup {NoPassword}, token : Tokens \cup {NoToken}, code : BOOLEAN,
           mfaMu : Users \cup {NoUser}]

Call == [op : Operation \cup {"none"}, at : Step, client : Clients \cup {NoClient},
         token : Tokens \cup {NoToken}, again : BOOLEAN,
         password : Passwords \cup {NoPassword}, new : Passwords \cup {NoPassword}]

NoCall == [op |-> "none", at |-> "idle", client |-> NoClient, token |-> NoToken,
           again |-> FALSE, password |-> NoPassword, new |-> NoPassword]

(* NewClient *)
Fresh(password) ==
  [password |-> password, token |-> NoToken, code |-> FALSE, mfaMu |-> NoUser]

OMSInit ==
  /\ valid = {} /\ issued = 0 /\ orders = 0 /\ asked = 0
  /\ remote = [password |-> First, demand |-> "none"]
  /\ \/ account = [password |-> NoPassword, enabled |-> FALSE] /\ proven = {}
     \/ account = [password |-> First, enabled |-> TRUE] /\ proven = {First}
  /\ cached = [p \in Passwords |-> NoClient]
  /\ client = [k \in Clients |-> Fresh(NoPassword)]
  /\ call = [u \in Users |-> NoCall]

--------------------------------------------------------------------------------
At(u, op, step) == call[u].op \in op /\ call[u].at = step

GoTo(u, step) == call' = [call EXCEPT ![u].at = step]

Mine(u) == client[call[u].client]

UsedBesides(u, k) ==
  (\E p \in Passwords : cached[p] = k) \/ (\E v \in Users \ {u} : call[v].client = k)

InUse(k) == (\E p \in Passwords : cached[p] = k) \/ (\E u \in Users : call[u].client = k)

(* The request is over, or goes on as another; the client it held is garbage unless the cache *)
(* or another request holds it too.                                                           *)
GoOnAs(u, next, clients) ==
  /\ call' = [call EXCEPT ![u] = next]
  /\ client' = [k \in Clients |-> IF k # call[u].client \/ UsedBesides(u, k) THEN clients[k]
                                  ELSE Fresh(NoPassword)]

EndCall(u, clients) == GoOnAs(u, NoCall, clients)

(* A handler that changed the login lists the accounts in its answer, with their health. *)
ListAccounts == [NoCall EXCEPT !.op = "check", !.at = "row"]

(* The two mutexes of the client are free again. *)
Unlocked(u) == [client EXCEPT ![call[u].client].mfaMu = NoUser]

(* loginWithSession: the remote system compares the password before it demands anything. *)
Right(password) == password = remote.password
LetIn(password) == Right(password) /\ remote.demand = "none" /\ issued < MaxTokens

Issue ==
  /\ issued' = issued + 1
  /\ valid' = valid \cup {issued + 1}
  /\ UNCHANGED <<remote, orders>>

Prove(password) == proven' = IF Right(password) THEN proven \cup {password} ELSE proven

Enabled == account.password # NoPassword /\ account.enabled

--------------------------------------------------------------------------------
(* Requests: any operation through a client, and the health check of the account list *)

Ask(u, op, password, new) ==
  /\ call[u].at = "idle" /\ asked < MaxCalls
  /\ asked' = asked + 1
  /\ op \in {"create", "update"} => new = NoPassword /\ password # NoPassword
  /\ op = "upgrade" => password # NoPassword /\ new \notin {NoPassword, password}
  /\ op \notin {"create", "update", "upgrade"} => password = NoPassword /\ new = NoPassword
  /\ call' = [call EXCEPT ![u] = [NoCall EXCEPT !.op = op, !.password = password, !.new = new,
                                   !.at = IF op = "update" THEN "probe" ELSE "row"]]
  /\ UNCHANGED <<remoteVars, account, cached, client, proven>>

(* OperatorForAccount reads the row; another call may save it before the client is looked up. *)
ReadRow(u) ==
  /\ At(u, {"query", "list", "check", "beginMFA", "completeMFA"}, "row")
  /\ IF Enabled
     THEN /\ call' = [call EXCEPT ![u].at = "client", ![u].password = account.password]
          /\ UNCHANGED client
     ELSE EndCall(u, client)
  /\ UNCHANGED <<asked, remoteVars, account, cached, proven>>

(* The search over all orders has a gate of its own, the lists and the assignment have none. *)
AfterClient(op) ==
  CASE op = "query" -> "gate" [] op \in {"list", "check"} -> "access" [] OTHER -> op

(* clientForCredentials *)
TakeClient(u) ==
  /\ call[u].at = "client"
  /\ LET p == call[u].password
         free == {k \in Clients : ~InUse(k)}
         k == IF cached[p] # NoClient THEN cached[p] ELSE CHOOSE slot \in free : TRUE
     IN /\ cached[p] # NoClient \/ free # {}
        /\ call' = [call EXCEPT ![u].client = k, ![u].password = NoPassword,
                                 ![u].at = AfterClient(call[u].op)]
        /\ cached' = [cached EXCEPT ![p] = k]
        /\ client' = IF cached[p] # NoClient THEN client ELSE [client EXCEPT ![k] = Fresh(p)]
  /\ UNCHANGED <<asked, remoteVars, account, proven>>

InGate(k) ==
  {u \in Users : call[u].op = "query" /\ call[u].client = k /\ call[u].at # "gate"}

(* platformOrderQueryGate.acquire; the slot is released when the request returns. *)
EnterGate(u) ==
  /\ call[u].at = "gate"
  /\ Cardinality(InGate(call[u].client)) < GateSlots
  /\ GoTo(u, "access")
  /\ UNCHANGED <<asked, remoteVars, account, cached, client, proven>>

(* accessToken: a token that is there is used, a pending code is an error, else a login. *)
UseToken(u, token, clients) ==
  IF call[u].op # "check"
  THEN call' = [call EXCEPT ![u].at = "operate", ![u].token = token] /\ client' = clients
  ELSE EndCall(u, clients)

Access(u) ==
  /\ call[u].at = "access" /\ Mine(u).mfaMu = NoUser
  /\ \/ Mine(u).token # NoToken /\ UseToken(u, Mine(u).token, client)
     \/ Mine(u).token = NoToken /\ Mine(u).code /\ EndCall(u, client)
     \/ /\ Mine(u).token = NoToken /\ ~Mine(u).code
        /\ GoTo(u, "login")
        /\ client' = [client EXCEPT ![call[u].client].mfaMu = u]
  /\ UNCHANGED <<asked, remoteVars, account, cached, proven>>

LoggedIn(u) ==
  [client EXCEPT ![call[u].client].token = issued + 1, ![call[u].client].mfaMu = NoUser,
                 ![call[u].client].code = FALSE]

Login(u) ==
  /\ call[u].at = "login"
  /\ LetIn(Mine(u).password)
  /\ Issue
  /\ UseToken(u, issued + 1, LoggedIn(u))
  /\ Prove(Mine(u).password)
  /\ UNCHANGED <<asked, account, cached>>

(* A login, a code or a request that is refused or fails: the locks are given back. *)
GiveUp(u) ==
  /\ call[u].at \in {"login", "beginLogin", "sendCode", "verifyCode", "completeLogin"}
  /\ EndCall(u, Unlocked(u))
  /\ IF call[u].at \in {"login", "beginLogin"} THEN Prove(Mine(u).password) ELSE UNCHANGED proven
  /\ UNCHANGED <<asked, remoteVars, account, cached>>

(* authenticatedRequest: a token that is rejected is dropped and the operation tried once more; *)
(* an answer, and any other error, whatever the token is by now, ends the call.                 *)
Operate(u) ==
  /\ call[u].at = "operate"
  /\ \/ call[u].token \notin valid /\ ~call[u].again /\ GoTo(u, "invalidate") /\ UNCHANGED client
     \/ EndCall(u, client)
  /\ UNCHANGED <<asked, remoteVars, account, cached, proven>>

(* tokenMu is held by a login on behalf of a request. *)
TokenMuFree(k) == \A u \in Users : client[k].mfaMu = u => call[u].at # "login"

(* Mutant: the token is dropped whichever it is by now. *)
WithoutAny(k, token) == [client EXCEPT ![k].token = NoToken]

Without(k, token) ==
  IF client[k].token = token THEN [client EXCEPT ![k].token = NoToken] ELSE client

(* invalidateToken *)
Invalidate(u) ==
  /\ call[u].at = "invalidate" /\ TokenMuFree(call[u].client)
  /\ client' = Without(call[u].client, call[u].token)
  /\ call' = [call EXCEPT ![u].at = "access", ![u].token = NoToken, ![u].again = TRUE]
  /\ UNCHANGED <<asked, remoteVars, account, cached, proven>>

--------------------------------------------------------------------------------
(* The second factor *)

(* BeginMFAVerification: nothing to do while there is a token; a pending code is dropped. *)
BeginMFA(u) ==
  /\ call[u].at = "beginMFA" /\ Mine(u).mfaMu = NoUser
  /\ IF Mine(u).token # NoToken THEN EndCall(u, client)
     ELSE /\ GoTo(u, "beginLogin")
          /\ client' = [client EXCEPT ![call[u].client].mfaMu = u, ![call[u].client].code = FALSE]
  /\ UNCHANGED <<asked, remoteVars, account, cached, proven>>

BeginLogin(u) ==
  /\ call[u].at = "beginLogin"
  /\ Prove(Mine(u).password)
  /\ \/ LetIn(Mine(u).password) /\ Issue /\ EndCall(u, LoggedIn(u))
     \/ /\ Right(Mine(u).password) /\ remote.demand = "mfa"
        /\ GoTo(u, "sendCode")
        /\ UNCHANGED <<asked, remoteVars, client>>
  /\ UNCHANGED <<asked, account, cached>>

SendCode(u) ==
  /\ call[u].at = "sendCode"
  /\ EndCall(u, [Unlocked(u) EXCEPT ![call[u].client].code = TRUE])
  /\ UNCHANGED <<asked, remoteVars, account, cached, proven>>

(* CompleteMFAVerification *)
CompleteMFA(u) ==
  /\ call[u].at = "completeMFA" /\ Mine(u).mfaMu = NoUser
  /\ IF ~Mine(u).code THEN EndCall(u, client)
     ELSE /\ GoTo(u, "verifyCode")
          /\ client' = [client EXCEPT ![call[u].client].mfaMu = u]
  /\ UNCHANGED <<asked, remoteVars, account, cached, proven>>

(* The code is right, or it was the last attempt; GiveUp has the other answers. *)
VerifyCode(u) ==
  /\ call[u].at = "verifyCode"
  /\ \/ GoTo(u, "completeLogin") /\ UNCHANGED client
     \/ EndCall(u, [Unlocked(u) EXCEPT ![call[u].client].code = FALSE])
  /\ UNCHANGED <<asked, remoteVars, account, cached, proven>>

(* The login with the session of the code needs no second factor. *)
CompleteLogin(u) ==
  /\ call[u].at = "completeLogin"
  /\ Right(Mine(u).password) /\ remote.demand # "update" /\ issued < MaxTokens
  /\ Issue
  /\ GoOnAs(u, ListAccounts, LoggedIn(u))
  /\ UNCHANGED <<asked, account, cached, proven>>

--------------------------------------------------------------------------------
(* The login of the account: create, update, upgrade *)

(* These calls hold no client of the cache. *)
Done(u) == call' = [call EXCEPT ![u] = NoCall]

(* CreateAccount lists the accounts, UpgradeAccountPassword checks that it is enabled. *)
ReadFirst(u) ==
  /\ At(u, {"create", "upgrade"}, "row")
  /\ IF (call[u].op = "create" /\ account.password = NoPassword) \/ (call[u].op = "upgrade" /\ Enabled)
     THEN GoTo(u, "probe") ELSE Done(u)
  /\ UNCHANGED <<asked, remoteVars, account, cached, client, proven>>

(* Mutant: what the probe answers is ignored. *)
PassesAlways(op, password) == TRUE

(* The probe of a password: which answers let the call go on. *)
Passes(op, password) ==
  /\ Right(password)
  /\ CASE op = "create" -> TRUE
       [] op = "update" -> remote.demand # "update"
       [] op = "upgrade" -> remote.demand = "update"

AfterProbe(op) ==
  CASE op = "create" -> "save" [] op = "update" -> "validate" [] op = "upgrade" -> "change"

Probe(u) ==
  /\ call[u].at = "probe"
  /\ Passes(call[u].op, call[u].password)
  /\ GoTo(u, AfterProbe(call[u].op))
  /\ Prove(call[u].password)
  /\ UNCHANGED <<asked, remoteVars, account, cached, client>>

(* A probe that is refused, or any request of these calls that fails. *)
Abandon(u) ==
  /\ At(u, {"create", "update", "upgrade"}, call[u].at)
  /\ call[u].at \in {"row", "probe", "change", "verify", "validate", "save"}
  /\ Done(u)
  /\ UNCHANGED <<asked, remoteVars, account, cached, client, proven>>

(* UpgradeRequiredPassword: the remote password is another one from here on, whatever the call *)
(* hears of it.                                                                                *)
ChangeRemotely(u) ==
  /\ call[u].at = "change"
  /\ Passes("upgrade", call[u].password)
  /\ remote' = [password |-> call[u].new, demand |-> "none"]
  /\ \/ GoTo(u, "verify")
     \/ Done(u)
  /\ UNCHANGED <<asked, valid, issued, orders, account, cached, client, proven>>

VerifyLogin(u) ==
  /\ call[u].at = "verify"
  /\ LetIn(call[u].new)
  /\ call' = [call EXCEPT ![u].at = "validate", ![u].password = call[u].new]
  /\ Issue
  /\ Prove(call[u].new)
  /\ UNCHANGED <<asked, account, cached, client>>

(* validateAccountKey in saveVerifiedAccountCredentials *)
Validate(u) ==
  /\ call[u].at = "validate"
  /\ IF Enabled THEN GoTo(u, "save") ELSE Done(u)
  /\ UNCHANGED <<asked, remoteVars, account, cached, client, proven>>

(* SetOMSAccount replaces and enables; CreateOMSAccount leaves a row that is there alone. *)
SaveLogin(u) ==
  /\ call[u].at = "save"
  /\ IF call[u].op = "create" /\ account.password # NoPassword
     THEN Done(u) /\ UNCHANGED account
     ELSE /\ account' = [password |-> call[u].password, enabled |-> TRUE]
          /\ GoTo(u, "forget")
  /\ UNCHANGED <<asked, remoteVars, cached, client, proven>>

(* forgetClients *)
Forget(u) ==
  /\ call[u].at = "forget"
  /\ cached' = [p \in Passwords |-> NoClient]
  /\ call' = [call EXCEPT ![u] = IF call[u].op = "create" THEN NoCall ELSE ListAccounts]
  /\ client' = [k \in Clients |-> IF \E v \in Users : call[v].client = k THEN client[k]
                                  ELSE Fresh(NoPassword)]
  /\ UNCHANGED <<asked, remoteVars, account, proven>>

(* UpdateOMSAccountMetadata *)
SwitchAccount ==
  /\ account.password # NoPassword
  /\ account' = [account EXCEPT !.enabled = ~account.enabled]
  /\ UNCHANGED <<asked, remoteVars, cached, client, call, proven>>

--------------------------------------------------------------------------------
(* The remote system *)

Revoke(token) ==
  /\ token \in valid
  /\ valid' = valid \ {token}
  /\ UNCHANGED <<asked, remote, issued, orders, account, cached, client, call, proven>>

(* A second factor or another password is demanded, or the password is changed elsewhere. *)
Decree ==
  /\ orders < MaxOrders /\ orders' = orders + 1
  /\ \/ \E d \in Demand : remote' = [remote EXCEPT !.demand = d]
     \/ \E p \in Passwords : remote' = [remote EXCEPT !.password = p]
  /\ UNCHANGED <<asked, valid, issued, account, cached, client, call, proven>>

CallProceeds(u) ==
  \/ ReadRow(u) \/ TakeClient(u) \/ EnterGate(u) \/ Access(u) \/ Login(u) \/ GiveUp(u)
  \/ Operate(u) \/ Invalidate(u)
  \/ BeginMFA(u) \/ BeginLogin(u) \/ SendCode(u) \/ CompleteMFA(u) \/ VerifyCode(u)
  \/ CompleteLogin(u)
  \/ ReadFirst(u) \/ Probe(u) \/ Abandon(u) \/ ChangeRemotely(u) \/ VerifyLogin(u)
  \/ Validate(u) \/ SaveLogin(u) \/ Forget(u)

(* The bound of the model leaves nothing to do; a call that is stuck is a deadlock. *)
Rest ==
  /\ asked = MaxCalls /\ \A u \in Users : call[u] = NoCall
  /\ UNCHANGED omsVars

OMSNext ==
  \/ \E u \in Users :
       \/ CallProceeds(u)
       \/ \E op \in Operation, p, n \in Passwords \cup {NoPassword} : Ask(u, op, p, n)
  \/ SwitchAccount \/ Decree \/ Rest
  \/ \E token \in Tokens : Revoke(token)

OMSSpec == OMSInit /\ [][OMSNext]_omsVars
--------------------------------------------------------------------------------
(* Properties *)

OMSTypeOK ==
  /\ remote \in [password : Passwords, demand : Demand]
  /\ valid \subseteq Tokens /\ issued \in 0 .. MaxTokens /\ orders \in 0 .. MaxOrders /\ asked \in 0 .. MaxCalls
  /\ account \in [password : Passwords \cup {NoPassword}, enabled : BOOLEAN]
  /\ cached \in [Passwords -> Clients \cup {NoClient}]
  /\ client \in [Clients -> Client]
  /\ call \in [Users -> Call]
  /\ proven \subseteq Passwords

(* A client gives up a token only when the remote system no longer accepts it: of the requests *)
(* that find the same token rejected only the first drops it, the token the next login brought *)
(* is kept, and neither MFA call replaces a token that still serves.                           *)
FreshTokenIsKept ==
  [][\A k \in Clients :
       (InUse(k) /\ InUse(k)' /\ client[k].token \in valid)
         => client'[k].token = client[k].token]_omsVars

(* The saved password was taken for right by the remote system, the one an upgrade brought in  *)
(* by a login of its own: whatever fails between the two systems and whatever two calls do to  *)
(* one account, no password is saved that was never tried.                                     *)
SavedWasVerified == account.password # NoPassword => account.password \in proven
================================================================================
