--------------------------- MODULE OMSAccounts_proofs ---------------------------
(***************************************************************************)
(* Proofs about OMSAccounts.tla.  The inductive invariant says what a call *)
(* may rely on at each of its steps: it has a client, it holds the mutex   *)
(* of the client where it talks to the remote system for it, a client that *)
(* waits for a code has no token, and a token that was found rejected can  *)
(* never be accepted again, because the remote system issues new ones.     *)
(***************************************************************************)
EXTENDS OMSAccounts, Integers, TLAPS

WithClient ==
  {"gate", "access", "login", "operate", "invalidate", "beginMFA", "beginLogin", "sendCode",
   "completeMFA", "verifyCode", "completeLogin"}

Holding == {"login", "beginLogin", "sendCode", "verifyCode", "completeLogin"}

(* What a call needs for the step it is at. *)
Fits(c) ==
  /\ c.at = "probe" => c.op \in {"create", "update", "upgrade"}
  /\ c.at = "client" => c.op \in {"query", "list", "check", "beginMFA", "completeMFA"} /\ c.password # NoPassword
  /\ c.at \in {"change", "verify"} \/ c.op = "upgrade" => c.new # NoPassword
  /\ c.at \in WithClient => c.client \in Clients

CallsFit == \A u \in Users : Fits(call[u])

Holders ==
  \A u \in Users : call[u].at \in Holding =>
    /\ client[call[u].client].mfaMu = u
    /\ client[call[u].client].token = NoToken

CodeExcludesToken == \A k \in Clients : client[k].code => client[k].token = NoToken

TokensWereIssued ==
  /\ \A token \in valid : token <= issued
  /\ \A u \in Users : call[u].token <= issued
  /\ \A k \in Clients : client[k].token <= issued

RejectedStays == \A u \in Users : call[u].at = "invalidate" => call[u].token \notin valid

TokenInv == OMSTypeOK /\ CallsFit /\ Holders /\ CodeExcludesToken /\ TokensWereIssued /\ RejectedStays

(* What a call is about to save was tried. *)
CarriedWasTried ==
  \A u \in Users : call[u].at \in {"validate", "save"} => call[u].password \in proven

PasswordInv == SavedWasVerified /\ CarriedWasTried

--------------------------------------------------------------------------------
(* Types *)

LEMMA NoCallTyped == NoCall \in Call /\ ListAccounts \in Call
BY EmptyAssumption DEF Call, NoCall, ListAccounts, Operation, Step, Tokens, NoToken

LEMMA FreshTyped == \A p \in Passwords \cup {NoPassword} : Fresh(p) \in Client
BY EmptyAssumption DEF Fresh, Client, NoToken

LEMMA InitTyped == OMSInit => OMSTypeOK
<1> SUFFICES ASSUME OMSInit PROVE OMSTypeOK
  OBVIOUS
<1>1. remote \in [password : Passwords, demand : Demand] /\ valid \subseteq Tokens
  BY EmptyAssumption DEF OMSInit, Demand
<1>2. issued \in 0 .. MaxTokens /\ orders \in 0 .. MaxOrders /\ asked \in 0 .. MaxCalls
  BY SlotsAssumption, EmptyAssumption DEF OMSInit
<1>3. account \in [password : Passwords \cup {NoPassword}, enabled : BOOLEAN] /\ proven \subseteq Passwords
  <2>1. \/ account = [password |-> NoPassword, enabled |-> FALSE] /\ proven = {}
        \/ account = [password |-> First, enabled |-> TRUE] /\ proven = {First}
    BY DEF OMSInit
  <2>2. \A p \in Passwords \cup {NoPassword}, e \in BOOLEAN :
          [password |-> p, enabled |-> e] \in [password : Passwords \cup {NoPassword}, enabled : BOOLEAN]
    OBVIOUS
  <2>3. First \in Passwords
    BY EmptyAssumption
  <2> QED  BY <2>1, <2>2, <2>3
<1>4. cached \in [Passwords -> Clients \cup {NoClient}] /\ client \in [Clients -> Client]
  BY FreshTyped DEF OMSInit
<1>5. call \in [Users -> Call]
  BY NoCallTyped DEF OMSInit
<1> QED  BY <1>1, <1>2, <1>3, <1>4, <1>5 DEF OMSTypeOK

LEMMA CallUpdates ==
  ASSUME NEW u, NEW f \in [Users -> Call]
  PROVE  /\ \A step \in Step : [f EXCEPT ![u].at = step] \in [Users -> Call]
         /\ \A k \in Clients \cup {NoClient} : [f EXCEPT ![u].client = k] \in [Users -> Call]
         /\ \A token \in Tokens \cup {NoToken} : [f EXCEPT ![u].token = token] \in [Users -> Call]
         /\ \A again \in BOOLEAN : [f EXCEPT ![u].again = again] \in [Users -> Call]
         /\ \A p \in Passwords \cup {NoPassword} : [f EXCEPT ![u].password = p] \in [Users -> Call]
<1>1. \A r \in Call, again \in BOOLEAN : [r EXCEPT !.again = again] \in Call
  BY ZenonT(60) DEF Call
<1>2. /\ \A r \in Call, step \in Step : [r EXCEPT !.at = step] \in Call
      /\ \A r \in Call, k \in Clients \cup {NoClient} : [r EXCEPT !.client = k] \in Call
      /\ \A r \in Call, token \in Tokens \cup {NoToken} : [r EXCEPT !.token = token] \in Call
      /\ \A r \in Call, p \in Passwords \cup {NoPassword} : [r EXCEPT !.password = p] \in Call
  BY DEF Call
<1> QED  BY <1>1, <1>2

LEMMA GoToTyped ==
  ASSUME NEW u \in Users, NEW step \in Step, OMSTypeOK, GoTo(u, step)
  PROVE  call' \in [Users -> Call]
BY DEF OMSTypeOK, GoTo, Call

LEMMA GoOnTyped ==
  ASSUME NEW u \in Users, NEW next \in Call, NEW clients \in [Clients -> Client],
         OMSTypeOK, GoOnAs(u, next, clients)
  PROVE  call' \in [Users -> Call] /\ client' \in [Clients -> Client]
BY FreshTyped DEF OMSTypeOK, GoOnAs

LEMMA EndTyped ==
  ASSUME NEW u \in Users, NEW clients \in [Clients -> Client], OMSTypeOK, EndCall(u, clients)
  PROVE  call' \in [Users -> Call] /\ client' \in [Clients -> Client]
BY GoOnTyped, NoCallTyped DEF EndCall

LEMMA DoneTyped ==
  ASSUME NEW u \in Users, OMSTypeOK, Done(u)
  PROVE  call' \in [Users -> Call]
BY NoCallTyped DEF OMSTypeOK, Done

LEMMA ClientFields ==
  ASSUME NEW r \in Client, NEW token \in Tokens \cup {NoToken}, NEW code \in BOOLEAN,
         NEW holder \in Users \cup {NoUser}
  PROVE  /\ [r EXCEPT !.token = token] \in Client
         /\ [r EXCEPT !.code = code] \in Client
         /\ [r EXCEPT !.mfaMu = holder] \in Client
<1>1. [r EXCEPT !.token = token] \in Client
  BY ZenonT(60) DEF Client
<1>2. [r EXCEPT !.code = code] \in Client
  BY ZenonT(60) DEF Client
<1>3. [r EXCEPT !.mfaMu = holder] \in Client
  BY ZenonT(60) DEF Client
<1> QED  BY <1>1, <1>2, <1>3

LEMMA ClientUpdates ==
  ASSUME NEW k, NEW f \in [Clients -> Client], NEW token \in Tokens \cup {NoToken}, NEW code \in BOOLEAN,
         NEW holder \in Users \cup {NoUser}
  PROVE  /\ [f EXCEPT ![k].token = token] \in [Clients -> Client]
         /\ [f EXCEPT ![k].code = code] \in [Clients -> Client]
         /\ [f EXCEPT ![k].mfaMu = holder] \in [Clients -> Client]
BY ClientFields

LEMMA UnlockedTyped ==
  ASSUME NEW u \in Users, OMSTypeOK
  PROVE  Unlocked(u) \in [Clients -> Client]
<1>1. client \in [Clients -> Client]
  BY DEF OMSTypeOK
<1>2. [client EXCEPT ![call[u].client].mfaMu = NoUser] \in [Clients -> Client]
  BY <1>1, ClientUpdates
<1> QED  BY <1>2 DEF Unlocked

LEMMA LoggedInTyped ==
  ASSUME NEW u \in Users, OMSTypeOK, issued < MaxTokens
  PROVE  LoggedIn(u) \in [Clients -> Client]
<1> DEFINE token == issued + 1
           one == [client EXCEPT ![call[u].client].token = token]
           two == [one EXCEPT ![call[u].client].mfaMu = NoUser]
<1>1. token \in Tokens
  BY SlotsAssumption DEF OMSTypeOK, Tokens
<1>2. one \in [Clients -> Client]
  BY <1>1, ClientUpdates DEF OMSTypeOK
<1>3. two \in [Clients -> Client]
  <2> HIDE DEF one
  <2> QED  BY <1>1, <1>2, ClientUpdates
<1>4. [two EXCEPT ![call[u].client].code = FALSE] \in [Clients -> Client]
  <2> HIDE DEF two
  <2> QED  BY <1>1, <1>3, ClientUpdates
<1> QED  BY <1>4 DEF LoggedIn

LEMMA UseTokenTyped ==
  ASSUME NEW u \in Users, NEW token \in Tokens \cup {NoToken}, NEW clients \in [Clients -> Client],
         OMSTypeOK, UseToken(u, token, clients)
  PROVE  call' \in [Users -> Call] /\ client' \in [Clients -> Client]
<1>1. CASE call[u].op # "check"
  BY <1>1 DEF OMSTypeOK, UseToken, Call, Step
<1>2. CASE call[u].op = "check"
  BY <1>2, EndTyped DEF UseToken
<1> QED  BY <1>1, <1>2

LEMMA IssueTyped ==
  ASSUME OMSTypeOK, issued < MaxTokens, Issue
  PROVE  /\ remote' \in [password : Passwords, demand : Demand]
         /\ valid' \subseteq Tokens /\ issued' \in 0 .. MaxTokens /\ orders' \in 0 .. MaxOrders
BY SlotsAssumption DEF OMSTypeOK, Issue, Tokens

LEMMA ProveTyped ==
  ASSUME NEW p, OMSTypeOK, Prove(p)
  PROVE  proven' \subseteq Passwords /\ proven \subseteq proven' /\ (Right(p) => p \in proven')
BY DEF OMSTypeOK, Prove, Right
LEMMA StepTyped ==
  ASSUME OMSTypeOK, CallsFit, [OMSNext]_omsVars
  PROVE  OMSTypeOK'
<1> USE DEF remoteVars
<1>1. ASSUME NEW u \in Users, ReadRow(u) PROVE OMSTypeOK'
  <2>1. CASE Enabled
    BY <1>1, <2>1 DEF ReadRow, OMSTypeOK, Call, Step
  <2>2. CASE ~Enabled
    BY <1>1, <2>2, EndTyped DEF ReadRow, OMSTypeOK
  <2> QED  BY <2>1, <2>2
<1>2. ASSUME NEW u \in Users, TakeClient(u) PROVE OMSTypeOK'
  <2>1. call[u].password \in Passwords /\ AfterClient(call[u].op) \in Step
    BY <1>2 DEF TakeClient, CallsFit, Fits, OMSTypeOK, Call, AfterClient, Step
  <2>2. PICK k \in Clients :
          /\ call' = [call EXCEPT ![u].client = k, ![u].password = NoPassword,
                                   ![u].at = AfterClient(call[u].op)]
          /\ cached' = [cached EXCEPT ![call[u].password] = k]
          /\ client' = client \/ client' = [client EXCEPT ![k] = Fresh(call[u].password)]
    BY <1>2, <2>1 DEF TakeClient, OMSTypeOK
  <2>3. call' \in [Users -> Call]
    <3> DEFINE one == [call EXCEPT ![u].client = k]
               two == [one EXCEPT ![u].password = NoPassword]
    <3>1. one \in [Users -> Call]
      BY CallUpdates DEF OMSTypeOK
    <3>2. two \in [Users -> Call]
      <4> HIDE DEF one
      <4> QED  BY <3>1, CallUpdates
    <3>3. [two EXCEPT ![u].at = AfterClient(call[u].op)] \in [Users -> Call]
      <4> HIDE DEF two
      <4> QED  BY <2>1, <3>2, CallUpdates
    <3> QED  BY <2>2, <3>3
  <2>4. client' \in [Clients -> Client]
    BY <2>1, <2>2, FreshTyped DEF OMSTypeOK
  <2>5. cached' \in [Passwords -> Clients \cup {NoClient}]
    BY <2>1, <2>2 DEF OMSTypeOK
  <2> QED  BY <1>2, <2>3, <2>4, <2>5 DEF TakeClient, OMSTypeOK
<1>3. ASSUME NEW u \in Users, EnterGate(u) PROVE OMSTypeOK'
  BY <1>3, GoToTyped DEF EnterGate, OMSTypeOK, Step
<1>4. ASSUME NEW u \in Users, Access(u) PROVE OMSTypeOK'
  <2>1. client \in [Clients -> Client] /\ [client EXCEPT ![call[u].client].mfaMu = u] \in [Clients -> Client]
    BY ClientUpdates DEF OMSTypeOK, NoToken
  <2>2. CASE Mine(u).token # NoToken /\ UseToken(u, Mine(u).token, client)
    <3>1. Mine(u).token \in Tokens
      BY <1>4, <2>2 DEF Access, CallsFit, Fits, WithClient, OMSTypeOK, Mine, Client
    <3> QED  BY <1>4, <2>1, <2>2, <3>1, UseTokenTyped DEF Access, OMSTypeOK
  <2>3. CASE EndCall(u, client)
    BY <1>4, <2>1, <2>3, EndTyped DEF Access, OMSTypeOK
  <2>4. CASE GoTo(u, "login") /\ client' = [client EXCEPT ![call[u].client].mfaMu = u]
    BY <1>4, <2>1, <2>4, GoToTyped DEF Access, OMSTypeOK, Step
  <2> QED  BY <1>4, <2>2, <2>3, <2>4 DEF Access
<1>5. ASSUME NEW u \in Users, Login(u) PROVE OMSTypeOK'
  <2>1. issued < MaxTokens /\ issued + 1 \in Tokens
    BY <1>5, SlotsAssumption DEF Login, LetIn, OMSTypeOK, Tokens
  <2>2. call' \in [Users -> Call] /\ client' \in [Clients -> Client]
    <3> DEFINE token == issued + 1
    <3>1. UseToken(u, token, LoggedIn(u)) /\ token \in Tokens
      BY <1>5, <2>1 DEF Login
    <3> HIDE DEF token
    <3> QED  BY <2>1, <3>1, LoggedInTyped, UseTokenTyped
  <2> QED  BY <1>5, <2>1, <2>2, IssueTyped, ProveTyped DEF Login, OMSTypeOK
<1>6. ASSUME NEW u \in Users, GiveUp(u) PROVE OMSTypeOK'
  BY <1>6, EndTyped, UnlockedTyped, ProveTyped DEF GiveUp, OMSTypeOK
<1>7. ASSUME NEW u \in Users, Operate(u) PROVE OMSTypeOK'
  BY <1>7, EndTyped, GoToTyped DEF Operate, OMSTypeOK, Step
<1>8. ASSUME NEW u \in Users, Invalidate(u) PROVE OMSTypeOK'
  <2>1. client' \in [Clients -> Client]
    BY <1>8, ClientUpdates DEF Invalidate, Without, OMSTypeOK
  <2>2. call' \in [Users -> Call]
    <3> DEFINE one == [call EXCEPT ![u].at = "access"]
               two == [one EXCEPT ![u].token = NoToken]
    <3>1. one \in [Users -> Call]
      BY CallUpdates DEF OMSTypeOK, Step
    <3>2. two \in [Users -> Call]
      <4> HIDE DEF one
      <4> QED  BY <3>1, CallUpdates
    <3>3. [two EXCEPT ![u].again = TRUE] \in [Users -> Call]
      <4> HIDE DEF two
      <4> QED  BY <3>2, CallUpdates
    <3> QED  BY <1>8, <3>3 DEF Invalidate
  <2> QED  BY <1>8, <2>1, <2>2 DEF Invalidate, OMSTypeOK
<1>9. ASSUME NEW u \in Users, BeginMFA(u) PROVE OMSTypeOK'
  <2>1. CASE EndCall(u, client)
    BY <1>9, <2>1, EndTyped DEF BeginMFA, OMSTypeOK
  <2>2. CASE /\ GoTo(u, "beginLogin")
             /\ client' = [client EXCEPT ![call[u].client].mfaMu = u, ![call[u].client].code = FALSE]
    <3> DEFINE one == [client EXCEPT ![call[u].client].mfaMu = u]
    <3>1. one \in [Clients -> Client]
      BY ClientUpdates DEF OMSTypeOK
    <3>2. [one EXCEPT ![call[u].client].code = FALSE] \in [Clients -> Client]
      <4> HIDE DEF one
      <4> QED  BY <3>1, ClientUpdates
    <3> QED  BY <1>9, <2>2, <3>2, GoToTyped DEF BeginMFA, OMSTypeOK, Step
  <2> QED  BY <1>9, <2>1, <2>2 DEF BeginMFA
<1>10. ASSUME NEW u \in Users, BeginLogin(u) PROVE OMSTypeOK'
  <2>1. CASE LetIn(Mine(u).password) /\ Issue /\ EndCall(u, LoggedIn(u))
    BY <1>10, <2>1, EndTyped, LoggedInTyped, IssueTyped, ProveTyped DEF BeginLogin, LetIn, OMSTypeOK
  <2>2. CASE GoTo(u, "sendCode") /\ UNCHANGED <<asked, remoteVars, client>>
    BY <1>10, <2>2, GoToTyped, ProveTyped DEF BeginLogin, OMSTypeOK, Step
  <2> QED  BY <1>10, <2>1, <2>2 DEF BeginLogin
<1>11. ASSUME NEW u \in Users, SendCode(u) PROVE OMSTypeOK'
  <2>1. [Unlocked(u) EXCEPT ![call[u].client].code = TRUE] \in [Clients -> Client]
    BY UnlockedTyped, ClientUpdates
  <2> QED  BY <1>11, <2>1, EndTyped DEF SendCode, OMSTypeOK
<1>12. ASSUME NEW u \in Users, CompleteMFA(u) PROVE OMSTypeOK'
  <2>1. [client EXCEPT ![call[u].client].mfaMu = u] \in [Clients -> Client]
    BY ClientUpdates DEF OMSTypeOK
  <2> QED  BY <1>12, <2>1, EndTyped, GoToTyped DEF CompleteMFA, OMSTypeOK, Step
<1>13. ASSUME NEW u \in Users, VerifyCode(u) PROVE OMSTypeOK'
  <2>1. [Unlocked(u) EXCEPT ![call[u].client].code = FALSE] \in [Clients -> Client]
    BY UnlockedTyped, ClientUpdates
  <2> QED  BY <1>13, <2>1, EndTyped, GoToTyped DEF VerifyCode, OMSTypeOK, Step
<1>14. ASSUME NEW u \in Users, CompleteLogin(u) PROVE OMSTypeOK'
  BY <1>14, GoOnTyped, NoCallTyped, LoggedInTyped, IssueTyped DEF CompleteLogin, OMSTypeOK
<1>15. ASSUME NEW u \in Users, ReadFirst(u) PROVE OMSTypeOK'
  BY <1>15, GoToTyped, DoneTyped DEF ReadFirst, OMSTypeOK, Step
<1>16. ASSUME NEW u \in Users, Probe(u) PROVE OMSTypeOK'
  <2>1. AfterProbe(call[u].op) \in Step
    BY <1>16 DEF Probe, CallsFit, Fits, AfterProbe, Step
  <2> QED  BY <1>16, <2>1, GoToTyped, ProveTyped DEF Probe, OMSTypeOK
<1>17. ASSUME NEW u \in Users, Abandon(u) PROVE OMSTypeOK'
  BY <1>17, DoneTyped DEF Abandon, OMSTypeOK
<1>18. ASSUME NEW u \in Users, ChangeRemotely(u) PROVE OMSTypeOK'
  <2>1. call[u].new \in Passwords
    BY <1>18 DEF ChangeRemotely, CallsFit, Fits, OMSTypeOK, Call
  <2>2. remote' \in [password : Passwords, demand : Demand]
    BY <1>18, <2>1 DEF ChangeRemotely, Demand
  <2> QED  BY <1>18, <2>2, GoToTyped, DoneTyped DEF ChangeRemotely, OMSTypeOK, Step
<1>19. ASSUME NEW u \in Users, VerifyLogin(u) PROVE OMSTypeOK'
  <2>1. call[u].new \in Passwords \cup {NoPassword}
    BY DEF OMSTypeOK, Call
  <2>2. call' \in [Users -> Call]
    <3> DEFINE one == [call EXCEPT ![u].at = "validate"]
    <3>1. one \in [Users -> Call]
      BY CallUpdates DEF OMSTypeOK, Step
    <3>2. [one EXCEPT ![u].password = call[u].new] \in [Users -> Call]
      <4> HIDE DEF one
      <4> QED  BY <2>1, <3>1, CallUpdates
    <3> QED  BY <1>19, <3>2 DEF VerifyLogin
  <2> QED  BY <1>19, <2>2, IssueTyped, ProveTyped DEF VerifyLogin, LetIn, OMSTypeOK
<1>20. ASSUME NEW u \in Users, Validate(u) PROVE OMSTypeOK'
  BY <1>20, GoToTyped, DoneTyped DEF Validate, OMSTypeOK, Step
<1>21. ASSUME NEW u \in Users, SaveLogin(u) PROVE OMSTypeOK'
  <2>1. call[u].password \in Passwords \cup {NoPassword}
    BY DEF OMSTypeOK, Call
  <2>2. [password |-> call[u].password, enabled |-> TRUE] \in [password : Passwords \cup {NoPassword}, enabled : BOOLEAN]
    BY <2>1
  <2> QED  BY <1>21, <2>2, GoToTyped, DoneTyped DEF SaveLogin, OMSTypeOK, Step
<1>22. ASSUME NEW u \in Users, Forget(u) PROVE OMSTypeOK'
  <2>1. call' \in [Users -> Call]
    BY <1>22, NoCallTyped DEF Forget, OMSTypeOK
  <2>2. client' \in [Clients -> Client]
    BY <1>22, FreshTyped DEF Forget, OMSTypeOK
  <2> QED  BY <1>22, <2>1, <2>2 DEF Forget, OMSTypeOK
<1>23. ASSUME NEW u \in Users, NEW op \in Operation, NEW p \in Passwords \cup {NoPassword},
              NEW n \in Passwords \cup {NoPassword}, Ask(u, op, p, n)
       PROVE  OMSTypeOK'
  <2> DEFINE next == [NoCall EXCEPT !.op = op, !.password = p, !.new = n, !.at = IF op = "update" THEN "probe" ELSE "row"]
  <2>1. next \in Call
    BY EmptyAssumption DEF NoCall, Call, Step, Tokens, NoToken
  <2>2. call' \in [Users -> Call]
    <3>1. call' = [call EXCEPT ![u] = next]
      BY <1>23 DEF Ask
    <3> HIDE DEF next
    <3> QED  BY <2>1, <3>1 DEF OMSTypeOK
  <2>3. asked' \in 0 .. MaxCalls
    BY <1>23, EmptyAssumption DEF Ask, OMSTypeOK
  <2> QED  BY <1>23, <2>2, <2>3 DEF Ask, OMSTypeOK
<1>24. CASE SwitchAccount
  <2>1. account' \in [password : Passwords \cup {NoPassword}, enabled : BOOLEAN]
    <3>1. \A r \in [password : Passwords \cup {NoPassword}, enabled : BOOLEAN], e \in BOOLEAN :
            [r EXCEPT !.enabled = e] \in [password : Passwords \cup {NoPassword}, enabled : BOOLEAN]
      BY Zenon
    <3>2. (~account.enabled) \in BOOLEAN
      BY Zenon
    <3>3. account' = [account EXCEPT !.enabled = ~account.enabled]
      BY <1>24 DEF SwitchAccount
    <3> QED  BY <3>1, <3>2, <3>3, Zenon DEF OMSTypeOK
  <2> QED  BY <1>24, <2>1 DEF SwitchAccount, OMSTypeOK
<1>25. CASE Decree
  <2>1. remote' \in [password : Passwords, demand : Demand]
    BY <1>25 DEF Decree, OMSTypeOK
  <2>2. orders' \in 0 .. MaxOrders
    BY <1>25, EmptyAssumption DEF Decree, OMSTypeOK
  <2> QED  BY <1>25, <2>1, <2>2 DEF Decree, OMSTypeOK
<1>26. CASE UNCHANGED omsVars
  BY <1>26 DEF omsVars, OMSTypeOK
<1>27. ASSUME NEW token \in Tokens, Revoke(token) PROVE OMSTypeOK'
  BY <1>27 DEF Revoke, OMSTypeOK
<1> QED
  BY <1>1, <1>2, <1>3, <1>4, <1>5, <1>6, <1>7, <1>8, <1>9, <1>10, <1>11, <1>12, <1>13, <1>14, <1>15, <1>16,
     <1>17, <1>18, <1>19, <1>20, <1>21, <1>22, <1>23, <1>24, <1>25, <1>26, <1>27
  DEF OMSNext, CallProceeds, Rest

--------------------------------------------------------------------------------
(* What a call has at each of its steps *)

LEMMA EmptyFits == Fits(NoCall) /\ Fits(ListAccounts)
BY DEF Fits, NoCall, ListAccounts, WithClient

LEMMA NextFits ==
  ASSUME OMSTypeOK, CallsFit, NEW u \in Users, NEW c, Fits(c), call' = [call EXCEPT ![u] = c]
  PROVE  CallsFit'
<1>1. \A v \in Users : call'[v] = IF v = u THEN c ELSE call[v]
  BY DEF OMSTypeOK
<1> QED  BY <1>1 DEF CallsFit, Fits

LEMMA EndFits ==
  ASSUME OMSTypeOK, CallsFit, NEW u \in Users, NEW clients, Done(u) \/ EndCall(u, clients)
  PROVE  CallsFit'
BY NextFits, EmptyFits DEF Done, EndCall, GoOnAs

LEMMA GoToFits ==
  ASSUME OMSTypeOK, CallsFit, NEW u \in Users, NEW step, GoTo(u, step),
         step = "probe" => call[u].op \in {"create", "update", "upgrade"},
         step # "client",
         step \in {"change", "verify"} => call[u].new # NoPassword,
         step \in WithClient => call[u].client \in Clients
  PROVE  CallsFit'
<1> DEFINE c == [call[u] EXCEPT !.at = step]
<1>1. /\ c.at = step /\ c.op = call[u].op /\ c.new = call[u].new /\ c.client = call[u].client
  BY DEF OMSTypeOK, Call
<1>2. call' = [call EXCEPT ![u] = c]
  BY DEF GoTo
<1> HIDE DEF c
<1>3. Fits(c)
  BY <1>1 DEF CallsFit, Fits
<1> QED  BY <1>2, <1>3, NextFits

LEMMA UseTokenFits ==
  ASSUME OMSTypeOK, CallsFit, NEW u \in Users, NEW token, NEW clients, UseToken(u, token, clients),
         call[u].client \in Clients
  PROVE  CallsFit'
<1> DEFINE c == [call[u] EXCEPT !.at = "operate", !.token = token]
<1>1. /\ c.at = "operate" /\ c.op = call[u].op /\ c.new = call[u].new /\ c.client = call[u].client
  BY DEF OMSTypeOK, Call
<1>2. CASE call' = [call EXCEPT ![u] = c]
  <2> HIDE DEF c
  <2>1. Fits(c)
    BY <1>1 DEF CallsFit, Fits
  <2> QED  BY <1>2, <2>1, NextFits
<1> QED  BY <1>2, EndFits DEF UseToken, OMSTypeOK

LEMMA StepFits ==
  ASSUME OMSTypeOK, CallsFit, [OMSNext]_omsVars
  PROVE  CallsFit'
<1>0. ASSUME NEW u \in Users PROVE Fits(call[u]) /\ call[u] \in Call
  BY <1>0 DEF CallsFit, OMSTypeOK
<1>1. ASSUME NEW u \in Users, ReadRow(u) PROVE CallsFit'
  <2>1. CASE Enabled
    <3> DEFINE c == [call[u] EXCEPT !.at = "client", !.password = account.password]
    <3>1. call' = [call EXCEPT ![u] = c]
      BY <1>1, <2>1 DEF ReadRow
    <3>2. Fits(c)
      BY <1>0, <1>1, <2>1 DEF ReadRow, Enabled, Fits, At, Call, WithClient
    <3> QED  BY <3>1, <3>2, NextFits
  <2> QED  BY <1>1, <2>1, EndFits DEF ReadRow
<1>2. ASSUME NEW u \in Users, TakeClient(u) PROVE CallsFit'
  <2>1. AfterClient(call[u].op) \notin {"probe", "client", "change", "verify"} /\ call[u].password \in Passwords
    BY <1>0, <1>2 DEF TakeClient, Fits, AfterClient, Call
  <2>2. PICK k \in Clients :
          call' = [call EXCEPT ![u].client = k, ![u].password = NoPassword, ![u].at = AfterClient(call[u].op)]
    BY <1>2, <2>1 DEF TakeClient, OMSTypeOK
  <2> DEFINE c == [call[u] EXCEPT !.client = k, !.password = NoPassword, !.at = AfterClient(call[u].op)]
  <2>3. call' = [call EXCEPT ![u] = c]
    BY <2>2 DEF OMSTypeOK
  <2>4. Fits(c)
    BY <1>0, <2>1 DEF Fits, Call
  <2> QED  BY <2>3, <2>4, NextFits
<1>3. ASSUME NEW u \in Users, EnterGate(u) PROVE CallsFit'
  BY <1>0, <1>3, GoToFits DEF EnterGate, Fits, WithClient
<1>4. ASSUME NEW u \in Users, Access(u) PROVE CallsFit'
  <2>1. call[u].client \in Clients
    BY <1>0, <1>4 DEF Access, Fits, WithClient
  <2>2. ASSUME NEW token, NEW clients, UseToken(u, token, clients) PROVE CallsFit'
    BY <1>0, <2>1, <2>2, UseTokenFits
  <2> QED  BY <1>4, <2>1, <2>2, GoToFits, EndFits DEF Access
<1>5. ASSUME NEW u \in Users, Login(u) PROVE CallsFit'
  <2>1. call[u].client \in Clients
    BY <1>0, <1>5 DEF Login, Fits, WithClient
  <2> QED  BY <1>5, <2>1, UseTokenFits DEF Login
<1>6. ASSUME NEW u \in Users, GiveUp(u) PROVE CallsFit'
  BY <1>6, EndFits DEF GiveUp
<1>7. ASSUME NEW u \in Users, Operate(u) PROVE CallsFit'
  <2>1. call[u].client \in Clients
    BY <1>0, <1>7 DEF Operate, Fits, WithClient
  <2> QED  BY <1>7, <2>1, GoToFits, EndFits DEF Operate
<1>8. ASSUME NEW u \in Users, Invalidate(u) PROVE CallsFit'
  <2> DEFINE c == [call[u] EXCEPT !.at = "access", !.token = NoToken, !.again = TRUE]
  <2>1. call' = [call EXCEPT ![u] = c]
    BY <1>8 DEF Invalidate, OMSTypeOK
  <2>2. Fits(c)
    BY <1>0, <1>8 DEF Invalidate, Fits, Call, WithClient
  <2> QED  BY <2>1, <2>2, NextFits
<1>9. ASSUME NEW u \in Users, BeginMFA(u) PROVE CallsFit'
  <2>1. call[u].client \in Clients
    BY <1>0, <1>9 DEF BeginMFA, Fits, WithClient
  <2> QED  BY <1>9, <2>1, GoToFits, EndFits DEF BeginMFA
<1>10. ASSUME NEW u \in Users, BeginLogin(u) PROVE CallsFit'
  <2>1. call[u].client \in Clients
    BY <1>0, <1>10 DEF BeginLogin, Fits, WithClient
  <2> QED  BY <1>10, <2>1, GoToFits, EndFits DEF BeginLogin
<1>11. ASSUME NEW u \in Users, SendCode(u) PROVE CallsFit'
  BY <1>11, EndFits DEF SendCode
<1>12. ASSUME NEW u \in Users, CompleteMFA(u) PROVE CallsFit'
  <2>1. call[u].client \in Clients
    BY <1>0, <1>12 DEF CompleteMFA, Fits, WithClient
  <2> QED  BY <1>12, <2>1, GoToFits, EndFits DEF CompleteMFA
<1>13. ASSUME NEW u \in Users, VerifyCode(u) PROVE CallsFit'
  <2>1. call[u].client \in Clients
    BY <1>0, <1>13 DEF VerifyCode, Fits, WithClient
  <2> QED  BY <1>13, <2>1, GoToFits, EndFits DEF VerifyCode
<1>14. ASSUME NEW u \in Users, CompleteLogin(u) PROVE CallsFit'
  BY <1>14, NextFits, EmptyFits DEF CompleteLogin, GoOnAs
<1>15. ASSUME NEW u \in Users, ReadFirst(u) PROVE CallsFit'
  BY <1>0, <1>15, GoToFits, EndFits DEF ReadFirst, Fits, WithClient, At
<1>16. ASSUME NEW u \in Users, Probe(u) PROVE CallsFit'
  <2>1. /\ AfterProbe(call[u].op) \in {"save", "validate", "change"}
        /\ AfterProbe(call[u].op) = "change" => call[u].op = "upgrade"
    BY <1>0, <1>16 DEF Probe, Fits, AfterProbe
  <2> QED  BY <1>0, <1>16, <2>1, GoToFits DEF Probe, Fits, WithClient
<1>17. ASSUME NEW u \in Users, Abandon(u) PROVE CallsFit'
  BY <1>0, <1>17, GoToFits, EndFits DEF Abandon, Fits, WithClient, At
<1>18. ASSUME NEW u \in Users, ChangeRemotely(u) PROVE CallsFit'
  BY <1>0, <1>18, GoToFits, EndFits DEF ChangeRemotely, Fits, WithClient, At
<1>19. ASSUME NEW u \in Users, VerifyLogin(u) PROVE CallsFit'
  <2> DEFINE c == [call[u] EXCEPT !.at = "validate", !.password = call[u].new]
  <2>1. call' = [call EXCEPT ![u] = c]
    BY <1>19 DEF VerifyLogin, OMSTypeOK
  <2>2. Fits(c)
    BY <1>0, <1>19 DEF VerifyLogin, Fits, Call, WithClient
  <2> QED  BY <2>1, <2>2, NextFits
<1>20. ASSUME NEW u \in Users, Validate(u) PROVE CallsFit'
  BY <1>0, <1>20, GoToFits, EndFits DEF Validate, Fits, WithClient, At
<1>21. ASSUME NEW u \in Users, SaveLogin(u) PROVE CallsFit'
  BY <1>0, <1>21, GoToFits, EndFits DEF SaveLogin, Fits, WithClient, At
<1>22. ASSUME NEW u \in Users, Forget(u) PROVE CallsFit'
  BY <1>22, NextFits, EmptyFits DEF Forget
<1>23. ASSUME NEW u \in Users, NEW op \in Operation, NEW p \in Passwords \cup {NoPassword},
              NEW n \in Passwords \cup {NoPassword}, Ask(u, op, p, n)
       PROVE  CallsFit'
  <2> DEFINE c == [NoCall EXCEPT !.op = op, !.password = p, !.new = n, !.at = IF op = "update" THEN "probe" ELSE "row"]
  <2>1. call' = [call EXCEPT ![u] = c]
    BY <1>23 DEF Ask
  <2>2. Fits(c)
    BY <1>23 DEF Ask, Fits, NoCall, WithClient
  <2> QED  BY <2>1, <2>2, NextFits
<1>24. CASE UNCHANGED call
  BY <1>24 DEF CallsFit
<1> QED
  BY <1>1, <1>2, <1>3, <1>4, <1>5, <1>6, <1>7, <1>8, <1>9, <1>10, <1>11, <1>12, <1>13, <1>14, <1>15, <1>16,
     <1>17, <1>18, <1>19, <1>20, <1>21, <1>22, <1>23, <1>24
  DEF OMSNext, CallProceeds, Rest, SwitchAccount, Decree, Revoke, omsVars

--------------------------------------------------------------------------------
(* Tokens and mutexes: what the step of a call may do to a client, whichever action it is *)

Emptied(u, k) ==
  /\ ~InUse(k) \/ ~InUse(k)'
  /\ \A v \in Users : call[v].client = k => v = u
  /\ client'[k].token = NoToken /\ ~client'[k].code

Locked(u, k) ==
  /\ client[k].mfaMu = NoUser /\ client'[k].mfaMu = u
  /\ client[k].token = NoToken /\ client'[k].token = NoToken

Released(u, k) ==
  /\ call[u].at \in Holding
  /\ client'[k].token = client[k].token

Supplied(u, k) ==
  /\ call[u].at \in Holding
  /\ client'[k].token = issued' /\ ~client'[k].code

Dropped(u, k) ==
  /\ call[u].at = "invalidate" /\ client[k].token = call[u].token
  /\ client'[k] = [client[k] EXCEPT !.token = NoToken]

ClientMoves(u, k) ==
  \/ client'[k] = client[k]
  \/ Emptied(u, k)
  \/ /\ k = call[u].client
     /\ Locked(u, k) \/ Released(u, k) \/ Supplied(u, k) \/ Dropped(u, k)

CallMoves(u) ==
  /\ \A v \in Users \ {u} : call'[v] = call[v]
  /\ call'[u].at \in Holding =>
       /\ call'[u].client = call[u].client
       /\ \/ call[u].at \in Holding /\ client'[call[u].client] = client[call[u].client]
          \/ Locked(u, call[u].client)
  /\ call'[u].token <= issued'
  /\ call'[u].at = "invalidate" => call'[u].token \notin valid'

RemoteMoves ==
  /\ issued <= issued' /\ issued' \in Nat
  /\ \A token \in valid' : token \in valid \/ (token = issued + 1 /\ issued' = issued + 1)

StepMoves(u) == CallMoves(u) /\ RemoteMoves /\ \A k \in Clients : ClientMoves(u, k)

LEMMA MovesKeepInv ==
  ASSUME TokenInv, OMSTypeOK', CallsFit', NEW u \in Users, StepMoves(u)
  PROVE  TokenInv'
<1> USE EmptyAssumption, SlotsAssumption DEF TokenInv, StepMoves, OMSTypeOK
<1>1. ASSUME NEW v \in Users, call'[v].at \in Holding
      PROVE  client'[call'[v].client].mfaMu = v /\ client'[call'[v].client].token = NoToken
  <2>1. CASE v = u
    BY <1>1, <2>1 DEF CallMoves, Holders, Locked
  <2>2. CASE v # u
    <3> DEFINE k == call[v].client
    <3>1. call'[v] = call[v] /\ k \in Clients /\ client[k].mfaMu = v /\ client[k].token = NoToken
      BY <1>1, <2>2 DEF CallMoves, Holders, CallsFit, Fits, Holding, WithClient
    <3>2. client'[k].mfaMu = v /\ client'[k].token = NoToken
      <4>1. CASE client'[k] = client[k]
        BY <3>1, <4>1
      <4>2. CASE Emptied(u, k)
        BY <2>2, <4>2 DEF Emptied
      <4>3. CASE k = call[u].client /\ Locked(u, k)
        BY <3>1, <4>3 DEF Locked
      <4>4. CASE k = call[u].client /\ (Released(u, k) \/ Supplied(u, k))
        BY <2>2, <3>1, <4>4 DEF Released, Supplied, Holders
      <4>5. CASE k = call[u].client /\ Dropped(u, k)
        BY <3>1, <4>5 DEF Dropped, Client
      <4> QED  BY <3>1, <4>1, <4>2, <4>3, <4>4, <4>5 DEF ClientMoves
    <3> QED  BY <3>1, <3>2
  <2> QED  BY <2>1, <2>2
<1>2. ASSUME NEW k \in Clients, client'[k].code PROVE client'[k].token = NoToken
  <2>1. CASE client'[k] = client[k]
    BY <1>2, <2>1 DEF CodeExcludesToken
  <2>2. CASE Emptied(u, k) \/ Locked(u, k) \/ Dropped(u, k)
    BY <2>2 DEF Emptied, Locked, Dropped, Client
  <2>3. CASE k = call[u].client /\ (Released(u, k) \/ Supplied(u, k))
    BY <1>2, <2>3 DEF Released, Supplied, Holders
  <2> QED  BY <2>1, <2>2, <2>3 DEF ClientMoves
<1>3. \A token \in valid' : token <= issued'
  BY DEF RemoteMoves, TokensWereIssued, Tokens
<1>4. ASSUME NEW v \in Users PROVE call'[v].token <= issued'
  <2>1. call[v].token \in Int
    BY DEF Call, Tokens, NoToken
  <2> QED  BY <2>1 DEF CallMoves, RemoteMoves, TokensWereIssued
<1>5. ASSUME NEW k \in Clients PROVE client'[k].token <= issued'
  <2>1. client[k].token \in Int /\ client[k].token <= issued /\ issued <= issued' /\ 0 <= issued'
    BY DEF Client, Tokens, NoToken, TokensWereIssued, RemoteMoves
  <2>2. client'[k].token \in {client[k].token, NoToken, issued'}
    BY DEF ClientMoves, Emptied, Locked, Released, Supplied, Dropped, Client
  <2> QED  BY <2>1, <2>2 DEF NoToken
<1>6. ASSUME NEW v \in Users, call'[v].at = "invalidate" PROVE call'[v].token \notin valid'
  <2>1. CASE v = u
    BY <1>6, <2>1 DEF CallMoves
  <2>2. CASE v # u
    <3>1. call[v].token \in Int /\ call[v].token <= issued
      BY DEF Call, Tokens, NoToken, TokensWereIssued
    <3> QED  BY <1>6, <2>2, <3>1 DEF CallMoves, RemoteMoves, RejectedStays
  <2> QED  BY <2>1, <2>2
<1> QED
  BY <1>1, <1>2, <1>3, <1>4, <1>5, <1>6 DEF Holders, CodeExcludesToken, TokensWereIssued, RejectedStays

LEMMA MovesKeepTokens ==
  ASSUME TokenInv, NEW u \in Users, StepMoves(u), NEW k \in Clients,
         InUse(k), InUse(k)', client[k].token \in valid
  PROVE  client'[k].token = client[k].token
<1>1. NoToken \notin valid
  BY DEF TokenInv, OMSTypeOK, Tokens, NoToken
<1>2. ClientMoves(u, k)
  BY DEF StepMoves
<1>3. CASE Emptied(u, k)
  BY <1>3 DEF Emptied
<1>4. CASE k = call[u].client /\ (Locked(u, k) \/ Released(u, k) \/ Supplied(u, k))
  BY <1>1, <1>4 DEF Locked, Released, Supplied, TokenInv, Holders
<1>5. CASE k = call[u].client /\ Dropped(u, k)
  BY <1>5 DEF Dropped, TokenInv, RejectedStays
<1> QED  BY <1>2, <1>3, <1>4, <1>5 DEF ClientMoves

--------------------------------------------------------------------------------
(* Every step of a call is such a step. *)

LEMMA NextOthers ==
  ASSUME OMSTypeOK, NEW u \in Users, NEW c, call' = [call EXCEPT ![u] = c]
  PROVE  call'[u] = c /\ \A v \in Users \ {u} : call'[v] = call[v]
BY DEF OMSTypeOK

LEMMA GoToKeeps ==
  ASSUME OMSTypeOK, NEW u \in Users, NEW step, GoTo(u, step)
  PROVE  /\ \A v \in Users \ {u} : call'[v] = call[v]
         /\ call'[u].at = step /\ call'[u].client = call[u].client /\ call'[u].token = call[u].token
         /\ call'[u].op = call[u].op /\ call'[u].password = call[u].password
<1>1. call[u] \in Call
  BY DEF OMSTypeOK
<1> QED  BY <1>1 DEF OMSTypeOK, GoTo, Call

LEMMA SmallToken ==
  ASSUME TokenInv, NEW u \in Users
  PROVE  /\ call[u].token \in Int /\ call[u].token <= issued /\ 0 <= issued
         /\ issued \in Int /\ NoToken = 0 /\ NoToken \notin valid
BY SlotsAssumption DEF TokenInv, OMSTypeOK, Call, Tokens, NoToken, TokensWereIssued

(* A step of a call in which the remote system issues no token. *)
LEMMA Quiet ==
  ASSUME UNCHANGED <<valid, issued>>, OMSTypeOK
  PROVE  RemoteMoves
BY DEF RemoteMoves, OMSTypeOK

LEMMA IssueMoves ==
  ASSUME OMSTypeOK, Issue
  PROVE  RemoteMoves /\ issued' = issued + 1
BY SlotsAssumption DEF RemoteMoves, OMSTypeOK, Issue

LEMMA GoOnMoves ==
  ASSUME TokenInv, NEW u \in Users, NEW clients, GoOnAs(u, NoCall, clients) \/ GoOnAs(u, ListAccounts, clients),
         UNCHANGED cached, RemoteMoves
  PROVE  CallMoves(u) /\ \A k \in Clients : client'[k] = clients[k] \/ Emptied(u, k)
<1> PICK next \in {NoCall, ListAccounts} : GoOnAs(u, next, clients)
  OBVIOUS
<1>1. next.at \notin Holding /\ next.at # "invalidate" /\ next.client = NoClient /\ next.token = NoToken
  <2>1. CASE next = NoCall
    BY <2>1 DEF NoCall, Holding
  <2>2. CASE next = ListAccounts
    <3>1. NoCall.client = NoClient /\ NoCall.token = NoToken
      BY DEF NoCall
    <3>2. ListAccounts.at = "row" /\ ListAccounts.client = NoCall.client /\ ListAccounts.token = NoCall.token
      BY DEF ListAccounts, NoCall
    <3> QED  BY <2>2, <3>1, <3>2 DEF Holding
  <2> QED  BY <2>1, <2>2
<1>2. call'[u] = next /\ \A v \in Users \ {u} : call'[v] = call[v]
  BY NextOthers DEF GoOnAs, TokenInv
<1>3. CallMoves(u)
  BY <1>1, <1>2, SmallToken DEF CallMoves, RemoteMoves, TokenInv, OMSTypeOK
<1>4. ASSUME NEW k \in Clients PROVE client'[k] = clients[k] \/ Emptied(u, k)
  <2>1. CASE k # call[u].client \/ UsedBesides(u, k)
    BY <2>1 DEF GoOnAs
  <2>2. CASE k = call[u].client /\ ~UsedBesides(u, k)
    <3>1. client'[k] = Fresh(NoPassword)
      BY <2>2 DEF GoOnAs
    <3>2. ~InUse(k)'
      BY <1>1, <1>2, <2>2, EmptyAssumption DEF InUse, UsedBesides
    <3>3. \A v \in Users : call[v].client = k => v = u
      BY <2>2 DEF UsedBesides
    <3> QED  BY <3>1, <3>2, <3>3 DEF Emptied, Fresh
  <2> QED  BY <2>1, <2>2
<1> QED  BY <1>3, <1>4

(* Steps that leave the clients alone, and do not end in a step that needs a mutex. *)
LEMMA PlainMoves ==
  ASSUME TokenInv, NEW u \in Users, NEW c, call' = [call EXCEPT ![u] = c], UNCHANGED <<client, valid, issued>>,
         c.at \notin Holding \/ (call[u].at \in Holding /\ c.client = call[u].client),
         c.at # "invalidate", c.token \in {NoToken, call[u].token}
  PROVE  StepMoves(u)
<1>1. call'[u] = c /\ \A v \in Users \ {u} : call'[v] = call[v]
  BY NextOthers DEF TokenInv
<1> QED
  BY <1>1, SmallToken, Quiet DEF StepMoves, CallMoves, ClientMoves, TokenInv

LEMMA GoToMoves ==
  ASSUME TokenInv, NEW u \in Users, NEW step, GoTo(u, step), UNCHANGED <<client, valid, issued>>,
         step \notin Holding \/ call[u].at \in Holding, step # "invalidate"
  PROVE  StepMoves(u)
BY GoToKeeps, SmallToken, Quiet DEF StepMoves, CallMoves, ClientMoves, TokenInv

LEMMA EndMoves ==
  ASSUME TokenInv, NEW u \in Users, (Done(u) /\ UNCHANGED client) \/ EndCall(u, client), UNCHANGED <<cached, valid, issued>>
  PROVE  StepMoves(u)
<1>1. CASE Done(u) /\ UNCHANGED client
  <2>1. NoCall.at \notin Holding /\ NoCall.at # "invalidate" /\ NoCall.token = NoToken
    BY DEF NoCall, Holding
  <2> QED  BY <1>1, <2>1, PlainMoves DEF Done
<1>2. CASE EndCall(u, client)
  BY <1>2, GoOnMoves, Quiet DEF EndCall, StepMoves, ClientMoves, TokenInv
<1> QED  BY <1>1, <1>2

(* A call takes the mutex of a client that has no token. *)
LEMMA LockMoves ==
  ASSUME TokenInv, NEW u \in Users, NEW step \in Holding, GoTo(u, step), NEW r,
         call[u].client \in Clients, Mine(u).mfaMu = NoUser, Mine(u).token = NoToken,
         client' = [client EXCEPT ![call[u].client] = r], r.mfaMu = u, r.token = NoToken,
         UNCHANGED <<valid, issued>>
  PROVE  StepMoves(u)
<1>1. Locked(u, call[u].client)
  BY DEF TokenInv, OMSTypeOK, Mine, Locked
<1>2. \A k \in Clients : client'[k] = client[k] \/ k = call[u].client
  BY DEF TokenInv, OMSTypeOK
<1>3. step # "invalidate"
  BY DEF Holding
<1> QED
  BY <1>1, <1>2, <1>3, GoToKeeps, SmallToken, Quiet DEF StepMoves, CallMoves, ClientMoves, TokenInv

(* A call that holds the mutex is over, or goes on as the list of the accounts. *)
LEMMA ReleaseMoves ==
  ASSUME TokenInv, NEW u \in Users, NEW clients, EndCall(u, clients) \/ GoOnAs(u, ListAccounts, clients),
         UNCHANGED cached, RemoteMoves, call[u].at \in Holding,
         \A k \in Clients : clients[k] = client[k] \/ k = call[u].client,
         \/ clients[call[u].client].token = client[call[u].client].token
         \/ clients[call[u].client].token = issued' /\ ~clients[call[u].client].code
  PROVE  StepMoves(u)
<1>1. CallMoves(u) /\ \A k \in Clients : client'[k] = clients[k] \/ Emptied(u, k)
  BY GoOnMoves DEF EndCall
<1>2. ASSUME NEW k \in Clients PROVE ClientMoves(u, k)
  BY <1>1 DEF ClientMoves, Released, Supplied
<1> QED  BY <1>1, <1>2 DEF StepMoves

LEMMA UnlockedFields ==
  ASSUME TokenInv, NEW u \in Users, call[u].client \in Clients
  PROVE  /\ \A k \in Clients \ {call[u].client} : Unlocked(u)[k] = client[k]
         /\ Unlocked(u)[call[u].client].token = client[call[u].client].token
         /\ Unlocked(u) \in [Clients -> Client]
<1>1. client[call[u].client] \in Client
  BY DEF TokenInv, OMSTypeOK
<1> QED  BY <1>1, UnlockedTyped DEF TokenInv, OMSTypeOK, Unlocked, Client

LEMMA CodeFields ==
  ASSUME TokenInv, NEW u \in Users, NEW code \in BOOLEAN, call[u].client \in Clients
  PROVE  /\ \A k \in Clients \ {call[u].client} : [Unlocked(u) EXCEPT ![call[u].client].code = code][k] = client[k]
         /\ [Unlocked(u) EXCEPT ![call[u].client].code = code][call[u].client].token
              = client[call[u].client].token
<1>1. Unlocked(u)[call[u].client] \in Client
  BY UnlockedFields
<1> QED  BY <1>1, UnlockedFields DEF Client

LEMMA LoggedInFields ==
  ASSUME TokenInv, NEW u \in Users, call[u].client \in Clients
  PROVE  /\ \A k \in Clients \ {call[u].client} : LoggedIn(u)[k] = client[k]
         /\ LoggedIn(u)[call[u].client].token = issued + 1
         /\ ~LoggedIn(u)[call[u].client].code
<1> DEFINE k == call[u].client
           r == [client[k] EXCEPT !.token = issued + 1, !.mfaMu = NoUser, !.code = FALSE]
<1>1. client[k] \in Client /\ client \in [Clients -> Client] /\ k \in Clients
  BY DEF TokenInv, OMSTypeOK
<1>2. LoggedIn(u) = [client EXCEPT ![k] = r]
  BY <1>1 DEF LoggedIn
<1>3. r.token = issued + 1 /\ r.code = FALSE
  BY <1>1 DEF Client
<1> HIDE DEF r, k
<1>4. \A j \in Clients : [client EXCEPT ![k] = r][j] = IF j = k THEN r ELSE client[j]
  BY <1>1
<1> QED  BY <1>1, <1>2, <1>3, <1>4 DEF k

(* A request goes on with a token of the client as it is, or of the login it has made. *)
LEMMA UseTokenMoves ==
  ASSUME TokenInv, NEW u \in Users, NEW token \in Nat, NEW clients, UseToken(u, token, clients), UNCHANGED cached,
         RemoteMoves, token <= issued', call[u].client \in Clients,
         \/ clients = client
         \/ /\ call[u].at \in Holding
            /\ \A k \in Clients : clients[k] = client[k] \/ k = call[u].client
            /\ clients[call[u].client].token = issued' /\ ~clients[call[u].client].code
  PROVE  StepMoves(u)
<1>1. CASE call[u].op # "check"
  <2> DEFINE c == [call[u] EXCEPT !.at = "operate", !.token = token]
  <2>1. call' = [call EXCEPT ![u] = c] /\ client' = clients
    BY <1>1 DEF UseToken, TokenInv, OMSTypeOK
  <2>2. c.at = "operate" /\ c.token = token
    BY DEF TokenInv, OMSTypeOK, Call
  <2> HIDE DEF c
  <2>3. CallMoves(u)
    BY <2>1, <2>2, NextOthers DEF CallMoves, TokenInv, Holding
  <2> QED  BY <2>1, <2>3 DEF StepMoves, ClientMoves, Supplied
<1>2. CASE EndCall(u, clients)
  <2>1. CASE clients = client
    BY <1>2, <2>1, GoOnMoves DEF EndCall, StepMoves, ClientMoves
  <2> QED  BY <1>2, <2>1, ReleaseMoves
<1> QED  BY <1>1, <1>2 DEF UseToken

LEMMA CallsMove ==
  ASSUME TokenInv, OMSTypeOK', NEW u \in Users, CallProceeds(u)
  PROVE  StepMoves(u)
<1> USE DEF remoteVars
<1>0. /\ OMSTypeOK /\ call[u] \in Call
      /\ call[u].at \in WithClient => call[u].client \in Clients /\ client[call[u].client] \in Client
  BY DEF TokenInv, OMSTypeOK, CallsFit, Fits
<1>1. CASE ReadRow(u)
  <2>1. CASE Enabled
    <3> DEFINE c == [call[u] EXCEPT !.at = "client", !.password = account.password]
    <3>1. call' = [call EXCEPT ![u] = c]
      BY <1>0, <1>1, <2>1 DEF ReadRow, OMSTypeOK
    <3>2. c.at = "client" /\ c.token = call[u].token
      BY <1>0 DEF Call
    <3> HIDE DEF c
    <3> QED  BY <1>1, <2>1, <3>1, <3>2, PlainMoves DEF ReadRow, Holding
  <2> QED  BY <1>1, <2>1, EndMoves DEF ReadRow
<1>3. CASE EnterGate(u)
  BY <1>3, GoToMoves DEF EnterGate, Holding
<1>4. CASE Access(u)
  <2>1. call[u].client \in Clients /\ Mine(u) \in Client
    BY <1>0, <1>4 DEF Access, WithClient, Mine
  <2>2. RemoteMoves
    BY <1>0, <1>4, Quiet DEF Access
  <2>3. CASE UseToken(u, Mine(u).token, client)
    <3>1. Mine(u).token \in Nat /\ Mine(u).token <= issued'
      BY <1>4, <2>1 DEF Access, Client, Tokens, NoToken, TokenInv, TokensWereIssued, Mine
    <3> QED  BY <1>4, <2>1, <2>2, <2>3, <3>1, UseTokenMoves DEF Access
  <2>4. CASE EndCall(u, client)
    BY <1>4, <2>4, EndMoves DEF Access
  <2>5. CASE /\ Mine(u).token = NoToken /\ GoTo(u, "login")
             /\ client' = [client EXCEPT ![call[u].client].mfaMu = u]
    <3> DEFINE r == [Mine(u) EXCEPT !.mfaMu = u]
    <3>1. client' = [client EXCEPT ![call[u].client] = r] /\ r.mfaMu = u /\ r.token = NoToken
      BY <1>0, <2>1, <2>5 DEF Mine, Client, OMSTypeOK
    <3> HIDE DEF r
    <3> QED  BY <1>4, <2>1, <2>5, <3>1, LockMoves DEF Access, Holding
  <2> QED  BY <1>4, <2>3, <2>4, <2>5 DEF Access
<1>5. CASE Login(u)
  <2>1. call[u].client \in Clients
    BY <1>0, <1>5 DEF Login, WithClient
  <2>2. RemoteMoves /\ issued' = issued + 1 /\ issued + 1 \in Nat
    BY <1>0, <1>5, IssueMoves DEF Login, OMSTypeOK
  <2>3. UseToken(u, issued', LoggedIn(u)) /\ issued' \in Nat /\ issued' <= issued' /\ UNCHANGED cached
    BY <1>5, <2>2 DEF Login
  <2>4. /\ \A k \in Clients : LoggedIn(u)[k] = client[k] \/ k = call[u].client
        /\ LoggedIn(u)[call[u].client].token = issued' /\ ~LoggedIn(u)[call[u].client].code
    BY <2>1, <2>2, LoggedInFields
  <2> QED  BY <1>5, <2>1, <2>2, <2>3, <2>4, UseTokenMoves DEF Login, Holding
<1>6. CASE GiveUp(u)
  <2>1. call[u].client \in Clients /\ call[u].at \in Holding
    BY <1>0, <1>6 DEF GiveUp, WithClient, Holding
  <2> QED  BY <1>0, <1>6, <2>1, UnlockedFields, ReleaseMoves, Quiet DEF GiveUp
<1>7. CASE Operate(u)
  <2>1. CASE call[u].token \notin valid /\ GoTo(u, "invalidate") /\ UNCHANGED client
    BY <1>0, <1>7, <2>1, GoToKeeps, SmallToken, Quiet
    DEF Operate, StepMoves, CallMoves, ClientMoves, Holding
  <2> QED  BY <1>7, <2>1, EndMoves DEF Operate
<1>8. CASE Invalidate(u)
  <2> DEFINE c == [call[u] EXCEPT !.at = "access", !.token = NoToken, !.again = TRUE]
  <2>1. call' = [call EXCEPT ![u] = c]
    BY <1>0, <1>8 DEF Invalidate, OMSTypeOK
  <2>2. c.at = "access" /\ c.token = NoToken
    BY <1>0 DEF Call
  <2> HIDE DEF c
  <2>3. CallMoves(u)
    BY <1>0, <1>8, <2>1, <2>2, NextOthers, SmallToken DEF Invalidate, CallMoves, Holding
  <2>4. ASSUME NEW k \in Clients PROVE ClientMoves(u, k)
    BY <1>0, <1>8 DEF Invalidate, Without, ClientMoves, Dropped, OMSTypeOK
  <2> QED  BY <1>0, <1>8, <2>3, <2>4, Quiet DEF Invalidate, StepMoves
<1>9. CASE BeginMFA(u)
  <2>1. call[u].client \in Clients /\ Mine(u) \in Client
    BY <1>0, <1>9 DEF BeginMFA, WithClient, Mine
  <2>2. CASE EndCall(u, client)
    BY <1>9, <2>2, EndMoves DEF BeginMFA
  <2>3. CASE /\ Mine(u).token = NoToken /\ GoTo(u, "beginLogin")
             /\ client' = [client EXCEPT ![call[u].client].mfaMu = u, ![call[u].client].code = FALSE]
    <3> DEFINE r == [Mine(u) EXCEPT !.mfaMu = u, !.code = FALSE]
    <3>1. client' = [client EXCEPT ![call[u].client] = r] /\ r.mfaMu = u /\ r.token = NoToken
      BY <1>0, <2>1, <2>3 DEF Mine, Client, OMSTypeOK
    <3> HIDE DEF r
    <3> QED  BY <1>9, <2>1, <2>3, <3>1, LockMoves DEF BeginMFA, Holding
  <2> QED  BY <1>9, <2>2, <2>3 DEF BeginMFA
<1>10. CASE BeginLogin(u)
  <2>1. call[u].client \in Clients /\ call[u].at \in Holding
    BY <1>0, <1>10 DEF BeginLogin, WithClient, Holding
  <2>2. CASE Issue /\ EndCall(u, LoggedIn(u))
    BY <1>0, <1>10, <2>1, <2>2, IssueMoves, LoggedInFields, ReleaseMoves DEF BeginLogin
  <2>3. CASE GoTo(u, "sendCode") /\ UNCHANGED <<asked, remoteVars, client>>
    BY <2>1, <2>3, GoToMoves
  <2> QED  BY <1>10, <2>2, <2>3 DEF BeginLogin
<1>11. CASE SendCode(u)
  <2>1. call[u].client \in Clients /\ call[u].at \in Holding
    BY <1>0, <1>11 DEF SendCode, WithClient, Holding
  <2> DEFINE clients == [Unlocked(u) EXCEPT ![call[u].client].code = TRUE]
  <2>3. /\ \A k \in Clients : clients[k] = client[k] \/ k = call[u].client
        /\ clients[call[u].client].token = client[call[u].client].token
    BY <2>1, CodeFields
  <2>4. CASE EndCall(u, clients)
    <3> HIDE DEF clients
    <3> QED  BY <1>0, <1>11, <2>1, <2>3, <2>4, ReleaseMoves, Quiet DEF SendCode
  <2> QED  BY <1>11, <2>4 DEF SendCode
<1>12. CASE CompleteMFA(u)
  <2>1. call[u].client \in Clients /\ Mine(u) \in Client
    BY <1>0, <1>12 DEF CompleteMFA, WithClient, Mine
  <2>2. CASE EndCall(u, client)
    BY <1>12, <2>2, EndMoves DEF CompleteMFA
  <2>3. CASE /\ Mine(u).code /\ GoTo(u, "verifyCode")
             /\ client' = [client EXCEPT ![call[u].client].mfaMu = u]
    <3> DEFINE r == [Mine(u) EXCEPT !.mfaMu = u]
    <3>1. Mine(u).token = NoToken
      BY <2>1, <2>3 DEF Mine, TokenInv, CodeExcludesToken
    <3>2. client' = [client EXCEPT ![call[u].client] = r] /\ r.mfaMu = u /\ r.token = NoToken
      BY <1>0, <2>1, <2>3, <3>1 DEF Mine, Client, OMSTypeOK
    <3> HIDE DEF r
    <3> QED  BY <1>12, <2>1, <2>3, <3>1, <3>2, LockMoves DEF CompleteMFA, Holding
  <2> QED  BY <1>12, <2>2, <2>3 DEF CompleteMFA
<1>13. CASE VerifyCode(u)
  <2>1. call[u].client \in Clients /\ call[u].at \in Holding
    BY <1>0, <1>13 DEF VerifyCode, WithClient, Holding
  <2>2. CASE GoTo(u, "completeLogin") /\ UNCHANGED client
    BY <1>13, <2>1, <2>2, GoToMoves DEF VerifyCode
  <2> DEFINE clients == [Unlocked(u) EXCEPT ![call[u].client].code = FALSE]
  <2>3. /\ \A k \in Clients : clients[k] = client[k] \/ k = call[u].client
        /\ clients[call[u].client].token = client[call[u].client].token
    BY <2>1, CodeFields
  <2>4. CASE EndCall(u, clients)
    <3> HIDE DEF clients
    <3> QED  BY <1>0, <1>13, <2>1, <2>3, <2>4, ReleaseMoves, Quiet DEF VerifyCode
  <2> QED  BY <1>13, <2>2, <2>4 DEF VerifyCode
<1>14. CASE CompleteLogin(u)
  <2>1. call[u].client \in Clients /\ call[u].at \in Holding
    BY <1>0, <1>14 DEF CompleteLogin, WithClient, Holding
  <2> QED  BY <1>0, <1>14, <2>1, IssueMoves, LoggedInFields, ReleaseMoves DEF CompleteLogin
<1>15. CASE ReadFirst(u)
  BY <1>15, GoToMoves, EndMoves DEF ReadFirst, Holding
<1>17. CASE Abandon(u)
  BY <1>17, EndMoves DEF Abandon
<1>18. CASE ChangeRemotely(u)
  BY <1>18, GoToMoves, EndMoves DEF ChangeRemotely, Holding
<1>20. CASE Validate(u)
  BY <1>20, GoToMoves, EndMoves DEF Validate, Holding
<1>21. CASE SaveLogin(u)
  BY <1>21, GoToMoves, EndMoves DEF SaveLogin, Holding
<1>2. CASE TakeClient(u)
  <2>1. AfterClient(call[u].op) \notin Holding \cup {"invalidate"} /\ call[u].password \in Passwords
    BY <1>0, <1>2 DEF TakeClient, TokenInv, CallsFit, Fits, AfterClient, Call, Holding
  <2>2. PICK k \in Clients :
          /\ call' = [call EXCEPT ![u].client = k, ![u].password = NoPassword, ![u].at = AfterClient(call[u].op)]
          /\ client' = client \/ (client' = [client EXCEPT ![k] = Fresh(call[u].password)] /\ ~InUse(k))
    BY <1>0, <1>2, <2>1 DEF TakeClient, OMSTypeOK
  <2> DEFINE c == [call[u] EXCEPT !.client = k, !.password = NoPassword, !.at = AfterClient(call[u].op)]
  <2>3. call' = [call EXCEPT ![u] = c]
    BY <1>0, <2>2 DEF OMSTypeOK
  <2>4. c.at = AfterClient(call[u].op) /\ c.token = call[u].token
    BY <1>0 DEF Call
  <2> HIDE DEF c
  <2>5. RemoteMoves
    BY <1>0, <1>2, Quiet DEF TakeClient
  <2>6. CallMoves(u)
    <3>1. call'[u] = c /\ \A v \in Users \ {u} : call'[v] = call[v]
      BY <1>0, <2>3, NextOthers
    <3>2. c.token <= issued'
      BY <2>4, <2>5, SmallToken DEF RemoteMoves
    <3> QED  BY <2>1, <2>4, <3>1, <3>2 DEF CallMoves
  <2>7. ASSUME NEW j \in Clients PROVE ClientMoves(u, j)
    <3>1. CASE client'[j] = client[j]
      BY <3>1 DEF ClientMoves
    <3>2. CASE j = k /\ client'[k] = Fresh(call[u].password) /\ ~InUse(k)
      BY <3>2 DEF ClientMoves, Emptied, Fresh, InUse
    <3> QED  BY <1>0, <2>2, <3>1, <3>2 DEF OMSTypeOK
  <2> QED  BY <2>5, <2>6, <2>7 DEF StepMoves
<1>16. CASE Probe(u)
  <2>1. AfterProbe(call[u].op) \in {"save", "validate", "change"}
    BY <1>16 DEF Probe, TokenInv, CallsFit, Fits, AfterProbe
  <2> QED  BY <1>16, <2>1, GoToMoves DEF Probe, Holding
<1>19. CASE VerifyLogin(u)
  <2> DEFINE c == [call[u] EXCEPT !.at = "validate", !.password = call[u].new]
  <2>1. call' = [call EXCEPT ![u] = c]
    BY <1>0, <1>19 DEF VerifyLogin, OMSTypeOK
  <2>2. c.at = "validate" /\ c.token = call[u].token
    BY <1>0 DEF Call
  <2> HIDE DEF c
  <2>3. RemoteMoves
    BY <1>0, <1>19, IssueMoves DEF VerifyLogin
  <2>4. CallMoves(u)
    <3>1. call'[u] = c /\ \A v \in Users \ {u} : call'[v] = call[v]
      BY <1>0, <2>1, NextOthers
    <3>2. c.token <= issued'
      BY <2>2, <2>3, SmallToken DEF RemoteMoves
    <3> QED  BY <2>2, <3>1, <3>2 DEF CallMoves, Holding
  <2> QED  BY <1>19, <2>3, <2>4 DEF VerifyLogin, StepMoves, ClientMoves
<1>22. CASE Forget(u)
  <2> DEFINE next == IF call[u].op = "create" THEN NoCall ELSE ListAccounts
  <2>1. next.at \notin Holding /\ next.at # "invalidate" /\ next.client = NoClient /\ next.token = NoToken
    <3>1. NoCall.client = NoClient /\ NoCall.token = NoToken /\ NoCall.at = "idle"
      BY DEF NoCall
    <3>2. ListAccounts.at = "row" /\ ListAccounts.client = NoCall.client /\ ListAccounts.token = NoCall.token
      BY DEF ListAccounts, NoCall
    <3> QED  BY <3>1, <3>2 DEF Holding
  <2>2. call' = [call EXCEPT ![u] = next] /\ RemoteMoves
    BY <1>0, <1>22, Quiet DEF Forget
  <2> HIDE DEF next
  <2>3. call'[u] = next /\ \A v \in Users \ {u} : call'[v] = call[v]
    BY <1>0, <2>2, NextOthers
  <2>4. CallMoves(u)
    BY <2>1, <2>2, <2>3, SmallToken DEF CallMoves, RemoteMoves
  <2>5. ASSUME NEW k \in Clients PROVE ClientMoves(u, k)
    <3>1. CASE \E v \in Users : call[v].client = k
      BY <1>22, <3>1 DEF Forget, ClientMoves
    <3>2. CASE ~\E v \in Users : call[v].client = k
      <4>1. client'[k] = Fresh(NoPassword)
        BY <1>22, <3>2 DEF Forget
      <4>2. ~InUse(k)'
        BY <1>22, <2>1, <2>3, <3>2, EmptyAssumption DEF InUse, Forget
      <4> QED  BY <3>2, <4>1, <4>2 DEF ClientMoves, Emptied, Fresh
    <3> QED  BY <3>1, <3>2
  <2> QED  BY <2>2, <2>4, <2>5 DEF StepMoves
<1> QED
  BY <1>1, <1>2, <1>3, <1>4, <1>5, <1>6, <1>7, <1>8, <1>9, <1>10, <1>11, <1>12, <1>13, <1>14, <1>15, <1>16,
     <1>17, <1>18, <1>19, <1>20, <1>21, <1>22
  DEF CallProceeds

LEMMA AskMoves ==
  ASSUME TokenInv, NEW u \in Users, NEW op, NEW p, NEW n, Ask(u, op, p, n)
  PROVE  StepMoves(u)
<1> DEFINE c == [NoCall EXCEPT !.op = op, !.password = p, !.new = n, !.at = IF op = "update" THEN "probe" ELSE "row"]
<1>1. c.at \in {"probe", "row"} /\ c.token = NoToken
  BY DEF NoCall
<1>2. call' = [call EXCEPT ![u] = c] /\ UNCHANGED <<client, valid, issued>>
  BY DEF Ask, remoteVars
<1> HIDE DEF c
<1> QED  BY <1>1, <1>2, PlainMoves DEF Holding

LEMMA OthersKeepTokens ==
  ASSUME TokenInv, OMSTypeOK', UNCHANGED <<client, call, issued>>, valid' \subseteq valid
  PROVE  TokenInv'
BY DEF TokenInv, CallsFit, Fits, Holders, CodeExcludesToken, TokensWereIssued, RejectedStays

LEMMA InitTokens == OMSInit => TokenInv
<1> SUFFICES ASSUME OMSInit PROVE TokenInv
  OBVIOUS
<1>1. \A u \in Users : call[u] = NoCall /\ call[u].at = "idle" /\ call[u].token = NoToken
  BY DEF OMSInit, NoCall
<1>2. \A k \in Clients : client[k].token = NoToken
  BY DEF OMSInit, Fresh
<1>3. CallsFit
  BY <1>1, EmptyFits DEF CallsFit
<1>4. Holders /\ RejectedStays
  BY <1>1 DEF Holders, RejectedStays, Holding
<1>5. CodeExcludesToken /\ TokensWereIssued
  BY <1>1, <1>2 DEF CodeExcludesToken, TokensWereIssued, OMSInit, NoToken
<1> QED  BY <1>3, <1>4, <1>5, InitTyped DEF TokenInv

(* Whose step it is, or that it is nobody's. *)
LEMMA StepsMove ==
  ASSUME TokenInv, [OMSNext]_omsVars, OMSTypeOK'
  PROVE  \/ \E u \in Users : StepMoves(u)
         \/ UNCHANGED <<client, call, issued, cached>> /\ valid' \subseteq valid
BY CallsMove, AskMoves DEF OMSNext, SwitchAccount, Decree, Rest, Revoke, omsVars, remoteVars

LEMMA StepTokens ==
  ASSUME TokenInv, [OMSNext]_omsVars
  PROVE  TokenInv'
<1>1. OMSTypeOK' /\ CallsFit'
  BY StepTyped, StepFits DEF TokenInv
<1> QED  BY <1>1, StepsMove, MovesKeepInv, OthersKeepTokens

--------------------------------------------------------------------------------
(* The state of the account, its clients and its calls always has its type. *)
THEOREM AccountsTyped == OMSSpec => []OMSTypeOK
<1>1. TokenInv => OMSTypeOK
  BY DEF TokenInv
<1> QED  BY <1>1, InitTokens, StepTokens, PTL DEF OMSSpec

(* A token the remote system accepts is kept by its client as long as anybody may use the client: *)
(* whatever the number of requests that share it, only a token found rejected is dropped, and      *)
(* never the one that came after it (client.go:623).                                               *)
THEOREM AcceptedTokensKept == OMSSpec => FreshTokenIsKept
<1>1. TokenInv /\ [OMSNext]_omsVars =>
        [\A k \in Clients : (InUse(k) /\ InUse(k)' /\ client[k].token \in valid)
                             => client'[k].token = client[k].token]_omsVars
  BY StepsMove, MovesKeepTokens, StepTokens DEF TokenInv
<1> QED  BY <1>1, InitTokens, StepTokens, PTL DEF OMSSpec, FreshTokenIsKept

--------------------------------------------------------------------------------
(* Passwords *)

LEMMA ProvenStays ==
  ASSUME OMSTypeOK, [OMSNext]_omsVars
  PROVE  proven \subseteq proven'
<1>1. ASSUME NEW u \in Users, ReadRow(u) \/ TakeClient(u) \/ EnterGate(u) \/ Access(u) \/ Operate(u) \/ Invalidate(u)
      PROVE proven' = proven
  BY <1>1 DEF ReadRow, TakeClient, EnterGate, Access, Operate, Invalidate
<1>2. ASSUME NEW u \in Users, BeginMFA(u) \/ SendCode(u) \/ CompleteMFA(u) \/ VerifyCode(u) \/ CompleteLogin(u)
      PROVE proven' = proven
  BY <1>2 DEF BeginMFA, SendCode, CompleteMFA, VerifyCode, CompleteLogin
<1>3. ASSUME NEW u \in Users, ReadFirst(u) \/ Abandon(u) \/ ChangeRemotely(u) \/ Validate(u) \/ SaveLogin(u) \/ Forget(u)
      PROVE proven' = proven
  BY <1>3 DEF ReadFirst, Abandon, ChangeRemotely, Validate, SaveLogin, Forget
<1>4. ASSUME NEW u \in Users, Login(u) PROVE proven \subseteq proven'
  BY <1>4, ProveTyped DEF Login
<1>5. ASSUME NEW u \in Users, GiveUp(u) PROVE proven \subseteq proven'
  BY <1>5, ProveTyped DEF GiveUp
<1>6. ASSUME NEW u \in Users, BeginLogin(u) PROVE proven \subseteq proven'
  BY <1>6, ProveTyped DEF BeginLogin
<1>7. ASSUME NEW u \in Users, Probe(u) PROVE proven \subseteq proven'
  BY <1>7, ProveTyped DEF Probe
<1>8. ASSUME NEW u \in Users, VerifyLogin(u) PROVE proven \subseteq proven'
  BY <1>8, ProveTyped DEF VerifyLogin
<1>9. ASSUME NEW u \in Users, CallProceeds(u) PROVE proven \subseteq proven'
  BY <1>1, <1>2, <1>3, <1>4, <1>5, <1>6, <1>7, <1>8, <1>9 DEF CallProceeds
<1>10. ASSUME NEW u \in Users, NEW o, NEW p, NEW n, Ask(u, o, p, n) PROVE proven' = proven
  BY <1>10 DEF Ask
<1>11. ASSUME SwitchAccount \/ Decree \/ Rest \/ \E token \in Tokens : Revoke(token) PROVE proven' = proven
  BY <1>11 DEF SwitchAccount, Decree, Rest, Revoke, omsVars
<1>12. CASE UNCHANGED omsVars
  BY <1>12 DEF omsVars
<1> QED  BY <1>9, <1>10, <1>11, <1>12 DEF OMSNext

(* The step of a call is followed by no save, or by one with a password that was tried. *)
LEMMA TriedMoves ==
  ASSUME OMSTypeOK, CarriedWasTried, proven \subseteq proven', NEW u \in Users, NEW c, call' = [call EXCEPT ![u] = c],
         c.at \in {"validate", "save"} => c.password \in proven'
  PROVE  CarriedWasTried'
<1>1. call'[u] = c /\ \A v \in Users \ {u} : call'[v] = call[v]
  BY NextOthers
<1> QED  BY <1>1 DEF CarriedWasTried

LEMMA TriedGoTo ==
  ASSUME OMSTypeOK, CarriedWasTried, proven \subseteq proven', NEW u \in Users, NEW step, GoTo(u, step),
         step \in {"validate", "save"} => call[u].password \in proven'
  PROVE  CarriedWasTried'
<1>1. /\ \A v \in Users \ {u} : call'[v] = call[v]
      /\ call'[u].at = step /\ call'[u].password = call[u].password
  BY GoToKeeps
<1> QED  BY <1>1 DEF CarriedWasTried

LEMMA TriedEnd ==
  ASSUME OMSTypeOK, CarriedWasTried, proven \subseteq proven', NEW u \in Users, NEW clients,
         Done(u) \/ EndCall(u, clients) \/ GoOnAs(u, ListAccounts, clients)
  PROVE  CarriedWasTried'
<1>1. NoCall.at = "idle" /\ ListAccounts.at = "row"
  BY DEF NoCall, ListAccounts
<1> QED  BY <1>1, TriedMoves DEF Done, EndCall, GoOnAs

LEMMA StepTried ==
  ASSUME OMSTypeOK, CallsFit, CarriedWasTried, [OMSNext]_omsVars
  PROVE  CarriedWasTried'
<1>0. proven \subseteq proven'
  BY ProvenStays
<1>1. ASSUME NEW u \in Users,
             EnterGate(u) \/ GiveUp(u) \/ Operate(u) \/ BeginMFA(u) \/ BeginLogin(u) \/ SendCode(u) \/ CompleteMFA(u)
             \/ VerifyCode(u) \/ CompleteLogin(u) \/ ReadFirst(u) \/ Abandon(u) \/ ChangeRemotely(u)
      PROVE  CarriedWasTried'
  BY <1>0, <1>1, TriedGoTo, TriedEnd
  DEF EnterGate, GiveUp, Operate, BeginMFA, BeginLogin, SendCode, CompleteMFA, VerifyCode, CompleteLogin,
      ReadFirst, Abandon, ChangeRemotely
<1>2. ASSUME NEW u \in Users, Access(u) \/ Login(u) PROVE CarriedWasTried'
  <2>1. ASSUME NEW token, NEW clients, UseToken(u, token, clients) PROVE CarriedWasTried'
    <3> DEFINE c == [call[u] EXCEPT !.at = "operate", !.token = token]
    <3>1. CASE call' = [call EXCEPT ![u] = c]
      <4>1. c.at = "operate"
        BY DEF OMSTypeOK, Call
      <4> HIDE DEF c
      <4> QED  BY <1>0, <3>1, <4>1, TriedMoves
    <3> QED  BY <1>0, <2>1, <3>1, TriedEnd DEF UseToken, OMSTypeOK
  <2> QED  BY <1>0, <1>2, <2>1, TriedGoTo, TriedEnd DEF Access, Login
<1>3. ASSUME NEW u \in Users, ReadRow(u) PROVE CarriedWasTried'
  <2> DEFINE c == [call[u] EXCEPT !.at = "client", !.password = account.password]
  <2>1. CASE call' = [call EXCEPT ![u] = c]
    <3>1. c.at = "client"
      BY DEF OMSTypeOK, Call
    <3> HIDE DEF c
    <3> QED  BY <1>0, <2>1, <3>1, TriedMoves
  <2> QED  BY <1>0, <1>3, <2>1, TriedEnd DEF ReadRow, OMSTypeOK
<1>4. ASSUME NEW u \in Users, TakeClient(u) PROVE CarriedWasTried'
  <2>1. AfterClient(call[u].op) \notin {"validate", "save"}
    BY <1>4 DEF TakeClient, CallsFit, Fits, AfterClient
  <2>2. PICK k : call' = [call EXCEPT ![u].client = k, ![u].password = NoPassword, ![u].at = AfterClient(call[u].op)]
    BY <1>4 DEF TakeClient
  <2> DEFINE c == [call[u] EXCEPT !.client = k, !.password = NoPassword, !.at = AfterClient(call[u].op)]
  <2>3. call' = [call EXCEPT ![u] = c] /\ c.at = AfterClient(call[u].op)
    BY <2>2 DEF OMSTypeOK, Call
  <2> HIDE DEF c
  <2> QED  BY <1>0, <2>1, <2>3, TriedMoves
<1>5. ASSUME NEW u \in Users, Invalidate(u) PROVE CarriedWasTried'
  <2> DEFINE c == [call[u] EXCEPT !.at = "access", !.token = NoToken, !.again = TRUE]
  <2>1. call' = [call EXCEPT ![u] = c] /\ c.at = "access"
    BY <1>5 DEF Invalidate, OMSTypeOK, Call
  <2> HIDE DEF c
  <2> QED  BY <1>0, <2>1, TriedMoves
<1>6. ASSUME NEW u \in Users, Probe(u) PROVE CarriedWasTried'
  <2>1. call[u].password \in proven'
    BY <1>6, ProveTyped DEF Probe, Passes
  <2> QED  BY <1>0, <1>6, <2>1, TriedGoTo DEF Probe
<1>7. ASSUME NEW u \in Users, VerifyLogin(u) PROVE CarriedWasTried'
  <2> DEFINE c == [call[u] EXCEPT !.at = "validate", !.password = call[u].new]
  <2>1. call' = [call EXCEPT ![u] = c] /\ c.password = call[u].new
    BY <1>7 DEF VerifyLogin, OMSTypeOK, Call
  <2>2. call[u].new \in proven'
    BY <1>7, ProveTyped DEF VerifyLogin, LetIn
  <2> HIDE DEF c
  <2> QED  BY <1>0, <2>1, <2>2, TriedMoves
<1>8. ASSUME NEW u \in Users, Validate(u) \/ SaveLogin(u) PROVE CarriedWasTried'
  <2>1. Validate(u) => call[u].password \in proven'
    BY <1>0 DEF Validate, CarriedWasTried
  <2> QED  BY <1>0, <1>8, <2>1, TriedGoTo, TriedEnd DEF Validate, SaveLogin
<1>9. ASSUME NEW u \in Users, Forget(u) PROVE CarriedWasTried'
  <2>1. NoCall.at = "idle" /\ ListAccounts.at = "row"
    BY DEF NoCall, ListAccounts
  <2> QED  BY <1>0, <1>9, <2>1, TriedMoves DEF Forget
<1>10. ASSUME NEW u \in Users, NEW op, NEW p, NEW n, Ask(u, op, p, n) PROVE CarriedWasTried'
  <2> DEFINE c == [NoCall EXCEPT !.op = op, !.password = p, !.new = n, !.at = IF op = "update" THEN "probe" ELSE "row"]
  <2>1. call' = [call EXCEPT ![u] = c] /\ c.at \in {"probe", "row"}
    BY <1>10 DEF Ask, NoCall
  <2> HIDE DEF c
  <2> QED  BY <1>0, <2>1, TriedMoves
<1>11. CASE UNCHANGED call
  BY <1>0, <1>11 DEF CarriedWasTried
<1> QED
  BY <1>1, <1>2, <1>3, <1>4, <1>5, <1>6, <1>7, <1>8, <1>9, <1>10, <1>11
  DEF OMSNext, CallProceeds, Rest, SwitchAccount, Decree, Revoke, omsVars

LEMMA StepSaved ==
  ASSUME OMSTypeOK, PasswordInv, [OMSNext]_omsVars
  PROVE  SavedWasVerified'
<1>0. proven \subseteq proven'
  BY ProvenStays
<1>1. ASSUME NEW u \in Users, SaveLogin(u) PROVE SavedWasVerified'
  <2>1. CASE account' = [password |-> call[u].password, enabled |-> TRUE]
    <3>1. account'.password = call[u].password
      BY <2>1
    <3> QED  BY <1>0, <1>1, <3>1 DEF SaveLogin, PasswordInv, CarriedWasTried, SavedWasVerified
  <2>2. CASE UNCHANGED account
    BY <1>0, <2>2 DEF PasswordInv, SavedWasVerified
  <2> QED  BY <1>1, <2>1, <2>2 DEF SaveLogin
<1>2. CASE SwitchAccount
  <2>1. account'.password = account.password
    BY <1>2 DEF SwitchAccount, OMSTypeOK
  <2> QED  BY <1>0, <2>1 DEF PasswordInv, SavedWasVerified
<1>3. CASE UNCHANGED account
  BY <1>0, <1>3 DEF PasswordInv, SavedWasVerified
<1>4. ASSUME NEW u \in Users, CallProceeds(u) PROVE SaveLogin(u) \/ UNCHANGED account
  <2>1. CASE ReadRow(u) \/ TakeClient(u) \/ EnterGate(u) \/ Access(u) \/ Login(u) \/ GiveUp(u) \/ Operate(u)
             \/ Invalidate(u)
    BY <2>1 DEF ReadRow, TakeClient, EnterGate, Access, Login, GiveUp, Operate, Invalidate
  <2>2. CASE BeginMFA(u) \/ BeginLogin(u) \/ SendCode(u) \/ CompleteMFA(u) \/ VerifyCode(u) \/ CompleteLogin(u)
    BY <2>2 DEF BeginMFA, BeginLogin, SendCode, CompleteMFA, VerifyCode, CompleteLogin
  <2>3. CASE ReadFirst(u) \/ Probe(u) \/ Abandon(u) \/ ChangeRemotely(u) \/ VerifyLogin(u) \/ Validate(u)
             \/ Forget(u)
    BY <2>3 DEF ReadFirst, Probe, Abandon, ChangeRemotely, VerifyLogin, Validate, Forget
  <2> QED  BY <1>4, <2>1, <2>2, <2>3 DEF CallProceeds
<1>5. ASSUME NEW u \in Users, CallProceeds(u) PROVE SavedWasVerified'
  BY <1>1, <1>3, <1>4, <1>5
<1>6. ASSUME NEW u \in Users, NEW op \in Operation, NEW p \in Passwords \cup {NoPassword},
             NEW n \in Passwords \cup {NoPassword}, Ask(u, op, p, n)
      PROVE  SavedWasVerified'
  BY <1>3, <1>6 DEF Ask
<1>7. CASE Decree
  BY <1>3, <1>7 DEF Decree
<1>8. CASE Rest \/ UNCHANGED omsVars
  BY <1>3, <1>8 DEF Rest, omsVars
<1>9. ASSUME NEW token \in Tokens, Revoke(token) PROVE SavedWasVerified'
  BY <1>3, <1>9 DEF Revoke
<1> QED
  BY <1>2, <1>5, <1>6, <1>7, <1>8, <1>9 DEF OMSNext

LEMMA InitPasswords == OMSInit => PasswordInv
BY DEF OMSInit, PasswordInv, SavedWasVerified, CarriedWasTried, NoCall

(* The password that is saved was once taken for right by the remote system, whatever fails between *)
(* the change there and the save here and whatever calls run at once (platform_order_accounts.go:506). *)
THEOREM SavedPasswordVerified == OMSSpec => []SavedWasVerified
<1>1. TokenInv /\ PasswordInv /\ [OMSNext]_omsVars => TokenInv' /\ PasswordInv'
  BY StepTokens, StepTried, StepSaved DEF TokenInv, PasswordInv
<1>2. PasswordInv => SavedWasVerified
  BY DEF PasswordInv
<1> QED  BY <1>1, <1>2, InitTokens, InitPasswords, PTL DEF OMSSpec
================================================================================
