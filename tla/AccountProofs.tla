----------------------------- MODULE AccountProofs -----------------------------
(***************************************************************************)
(* Theorems about the people of the back office: the password account of   *)
(* an address (LocalAccounts), the claim of a managed login name           *)
(* (MembershipClaims), and a member's access at the proxy (MemberAccess).  *)
(* Each part states the invariant its properties need, shows that every    *)
(* operation keeps it, and ends with its theorems.                         *)
(***************************************************************************)
EXTENDS LocalAccounts, MembershipClaims, MemberAccess, FiniteSetTheorems, TLAPS

(* The password account: the invariant.                                    *)

\* An account that is not there has no rows, and an id is not used twice.
AccountIsNew ==
  /\ account.id = NoUser => account = NoAccount
  /\ account.id \notin former
  /\ upstream # "none" => account.id # NoUser

\* A link that can still be used belongs to the account.
LinksOwned == \A l \in Links :
  links[l].stage \in {"pending", "active"} => links[l].user = account.id /\ account.id # NoUser

\* So does a session; only an account without one is ever removed.
SessionsOwned == \A s \in Handlers :
  /\ sessions[s].user \in {NoUser, account.id}
  /\ sessions[s].live => sessions[s].user # NoUser

\* A request that changes the password was let in by a session of the account,
\* which keeps the account from being removed.
ChangesHeld == \A h \in Handlers : HandlerAt(h, "changing") \/ HandlerAt(h, "changed") =>
  /\ handler[h].user = account.id /\ account.id # NoUser
  /\ \E s \in Handlers : sessions[s].user = account.id

\* So does the upstream row of a request that provisions the account.
ProvisioningHeld == \A h \in Handlers :
  /\ handler[h].pc \in {"provisioning", "provisioned", "failed"} =>
       handler[h].user = account.id /\ upstream # "none"
  /\ HandlerAt(h, "provisioned") => handler[h].user \in proxyUsers

AccountsInv ==
  /\ AccountsTypeOK /\ AccountIsNew /\ LinksOwned /\ SessionsOwned
  /\ ChangesHeld /\ ProvisioningHeld /\ AccountsAreSound

-----------------------------------------------------------------------------
(* The password account: types.                                            *)

AccountRows == [id : UserIds \cup {NoUser}, active : BOOLEAN, password : 0..MaxPasswords,
                seen : BOOLEAN]
LinkRows == [user : UserIds \cup {NoUser},
             stage : {"none", "pending", "active", "used", "deleted"}]
SessionRows == [user : UserIds \cup {NoUser}, at : 0..MaxPasswords, live : BOOLEAN]
HandlerStates == [pc : Pcs, user : UserIds \cup {NoUser}, link : Links \cup {NoUser},
                  typed : 0..MaxPasswords, made : BOOLEAN]

\* The steps of a request that hold the account in place, and the others.
Holding == {"changing", "changed", "provisioning", "provisioned", "failed"}

LEMMA AccountsTypes ==
    AccountsTypeOK <=>
      /\ account \in AccountRows
      /\ former \subseteq UserIds /\ proxyUsers \subseteq UserIds
      /\ code \in [open : BOOLEAN, attempts : 0..MaxAttempts]
      /\ links \in [Links -> LinkRows] /\ sessions \in [Handlers -> SessionRows]
      /\ upstream \in {"none", "provisioning", "failed", "provisioned"} /\ openJob \in BOOLEAN
      /\ invitation \in [state : {"open", "consumed", "revoked"}, bound : UserIds \cup {NoUser}]
      /\ handler \in [Handlers -> HandlerStates]
      /\ chosen \in 0..MaxPasswords /\ restored \in BOOLEAN
BY DEF AccountsTypeOK, AccountRows, LinkRows, SessionRows, HandlerStates

\* A request goes on, or starts on the account.
LEMMA HandlerGoing ==
    ASSUME handler \in [Handlers -> HandlerStates], NEW h \in Handlers, NEW pc \in Pcs,
           HandlerGoes(h, pc)
    PROVE  /\ handler' \in [Handlers -> HandlerStates]
           /\ handler'[h].pc = pc /\ handler'[h].user = handler[h].user
           /\ \A x \in Handlers : x # h => handler'[x] = handler[x]
BY DEF HandlerGoes, HandlerStates

LEMMA HandlerStarting ==
    ASSUME handler \in [Handlers -> HandlerStates], account \in AccountRows,
           NEW h \in Handlers, NEW pc \in Pcs, HandlerStarts(h, pc)
    PROVE  /\ handler[h].pc = "idle"
           /\ handler' \in [Handlers -> HandlerStates]
           /\ handler'[h].pc = pc /\ handler'[h].user = account.id
           /\ \A x \in Handlers : x # h => handler'[x] = handler[x]
BY ZenonT(60) DEF HandlerStarts, HandlerAt, HandlerStates, AccountRows

-----------------------------------------------------------------------------
(* The password account: each operation keeps the invariant.               *)

\* A request that moves between steps which hold nothing, and at most changes
\* the code, the job row or the invitation.
LEMMA RequestMoves ==
    ASSUME AccountsInv, NEW h \in Handlers,
           UNCHANGED <<account, former, links, sessions, upstream, proxyUsers, passwordVars>>,
           code' \in [open : BOOLEAN, attempts : 0..MaxAttempts], openJob' \in BOOLEAN,
           invitation' \in [state : {"open", "consumed", "revoked"},
                            bound : UserIds \cup {NoUser}],
           handler' \in [Handlers -> HandlerStates],
           \A x \in Handlers : x # h => handler'[x] = handler[x],
           handler[h].pc # "changed", handler'[h].pc \notin Holding
    PROVE  AccountsInv'
<1>1. AccountsTypeOK'
  BY AccountsTypes DEF AccountsInv, AccountsTypeOK, HandlerStates, passwordVars
<1>2. AccountIsNew' /\ LinksOwned' /\ SessionsOwned'
  BY DEF AccountsInv, AccountIsNew, LinksOwned, SessionsOwned
<1>3. ChangesHeld' /\ ProvisioningHeld'
  BY DEF AccountsInv, ChangesHeld, ProvisioningHeld, HandlerAt, Holding
<1>4. OneLiveLink' /\ ProvisionedIsReal' /\ UsedAccountsStay'
  BY DEF AccountsInv, AccountsAreSound, OneLiveLink, ProvisionedIsReal, UsedAccountsStay
<1>5. SessionsEndWithPassword'
  BY DEF AccountsInv, AccountsAreSound, SessionsEndWithPassword, HandlerAt, passwordVars
<1> QED BY <1>1, <1>2, <1>3, <1>4, <1>5 DEF AccountsInv, AccountsAreSound

LEMMA RequestStep ==
    ASSUME AccountsInv, NEW h \in Handlers,
           \/ AskCode(h) \/ StoreCode(h) \/ AskAccount(h) \/ WrongCode(h)
           \/ RecordJob(h) \/ Login(h) \/ VerifyInvitation(h) \/ AcceptInvitation(h)
    PROVE  AccountsInv'
<1> USE AccountsAssumption
<1>0. /\ account \in AccountRows /\ handler \in [Handlers -> HandlerStates]
      /\ openJob \in BOOLEAN /\ code \in [open : BOOLEAN, attempts : 0..MaxAttempts]
      /\ invitation \in [state : {"open", "consumed", "revoked"}, bound : UserIds \cup {NoUser}]
      /\ handler[h].user \in UserIds \cup {NoUser}
  BY AccountsTypes DEF AccountsInv, HandlerStates
<1>1. CASE AskCode(h)
  <2>1. HandlerStarts(h, "mailingCode")
    BY <1>1 DEF AskCode
  <2> QED BY <1>0, <1>1, <2>1, HandlerStarting, RequestMoves, ZenonT(60) DEF AskCode, Pcs, Holding
<1>2. CASE StoreCode(h)
  <2>1. handler[h].pc = "mailingCode" /\ HandlerGoes(h, "done")
    BY <1>2 DEF StoreCode, HandlerAt
  <2>2. 0 \in 0..MaxAttempts
    OBVIOUS
  <2>3. code' \in [open : BOOLEAN, attempts : 0..MaxAttempts]
    BY <1>2, <2>2 DEF StoreCode
  <2> QED BY <1>0, <1>2, <2>1, <2>3, HandlerGoing, RequestMoves DEF StoreCode, Pcs, Holding
<1>3. CASE AskAccount(h)
  <2>1. HandlerStarts(h, "registering")
    BY <1>3 DEF AskAccount
  <2> QED BY <1>0, <1>3, <2>1, HandlerStarting, RequestMoves, ZenonT(60) DEF AskAccount, Pcs, Holding
<1>4. CASE WrongCode(h)
  <2>1. handler[h].pc = "registering" /\ HandlerGoes(h, "done")
    BY <1>4 DEF WrongCode, HandlerAt
  <2>2. code' \in [open : BOOLEAN, attempts : 0..MaxAttempts]
    BY <1>0, <1>4 DEF WrongCode, CodeUsable
  <2> QED BY <1>0, <1>4, <2>1, <2>2, HandlerGoing, RequestMoves DEF WrongCode, Pcs, Holding
<1>5. CASE RecordJob(h)
  <2>1. /\ handler[h].pc \in {"queueing", "completing"} /\ HandlerGoes(h, "done")
        /\ openJob' \in BOOLEAN
    BY <1>5 DEF RecordJob, HandlerAt
  <2> QED BY <1>0, <1>5, <2>1, HandlerGoing, RequestMoves DEF RecordJob, Pcs, Holding
<1>6. CASE Login(h)
  <2>1. CASE HandlerStarts(h, "loggingIn")
    BY <1>0, <1>6, <2>1, HandlerStarting, RequestMoves, ZenonT(60) DEF Login, Pcs, Holding
  <2>2. CASE handler' = [handler EXCEPT ![h].pc = "rehashing", ![h].user = account.id,
                                        ![h].typed = account.password]
    <3>1. PICK row : row = [handler[h] EXCEPT !.pc = "rehashing", !.user = account.id,
                                              !.typed = account.password]
      OBVIOUS
    <3>2. row \in HandlerStates /\ row.pc = "rehashing"
      <4>1. /\ handler[h] \in HandlerStates /\ account.id \in UserIds \cup {NoUser}
            /\ account.password \in 0..MaxPasswords
        BY <1>0 DEF AccountRows
      <4> QED BY <3>1, <4>1 DEF HandlerStates, Pcs
    <3>3. handler' = [handler EXCEPT ![h] = row] /\ handler[h].pc = "idle"
      BY <1>0, <1>6, <2>2, <3>1 DEF Login, HandlerAt
    <3>4. /\ handler' \in [Handlers -> HandlerStates] /\ handler'[h].pc = "rehashing"
          /\ \A x \in Handlers : x # h => handler'[x] = handler[x]
      BY <1>0, <3>2, <3>3
    <3> QED BY <1>0, <1>6, <3>3, <3>4, RequestMoves DEF Login, Holding
  <2> QED BY <1>6, <2>1, <2>2 DEF Login
<1>7. CASE VerifyInvitation(h)
  <2>1. PICK pc \in {"creating", "binding"} : HandlerStarts(h, pc)
    BY <1>7 DEF VerifyInvitation
  <2> QED BY <1>0, <1>7, <2>1, HandlerStarting, RequestMoves DEF VerifyInvitation, Pcs, Holding
<1>8. CASE AcceptInvitation(h)
  <2>1. handler[h].pc = "binding" /\ \E pc \in {"undoing", "done"} : HandlerGoes(h, pc)
    BY <1>8 DEF AcceptInvitation, HandlerAt
  <2>2. PICK pc \in {"undoing", "done"} : HandlerGoes(h, pc)
    BY <2>1
  <2>3. invitation' \in [state : {"open", "consumed", "revoked"}, bound : UserIds \cup {NoUser}]
    BY <1>0, <1>8 DEF AcceptInvitation
  <2> QED BY <1>0, <1>8, <2>1, <2>2, <2>3, HandlerGoing, RequestMoves
          DEF AcceptInvitation, Pcs, Holding
<1> QED BY <1>1, <1>2, <1>3, <1>4, <1>5, <1>6, <1>7, <1>8

\* A request opens the account while there is none.
LEMMA AccountOpens ==
    ASSUME AccountsInv, NEW h \in Handlers, NEW u \in UserIds,
           account = NoAccount, Opens(u),
           UNCHANGED <<former, links, sessions, upstream, openJob, proxyUsers, invitation, passwordVars>>,
           code' \in [open : BOOLEAN, attempts : 0..MaxAttempts],
           handler' \in [Handlers -> HandlerStates],
           \A x \in Handlers : x # h => handler'[x] = handler[x],
           handler'[h].user = u,
           handler'[h].pc \in {"recording", "binding"}
    PROVE  AccountsInv'
<1> USE AccountsAssumption
<1>0. /\ account.id = NoUser /\ account'.id = u /\ u # NoUser /\ u \notin former
      /\ account' \in AccountRows /\ account'.password = 0
  BY DEF Opens, NoAccount, AccountRows
<1>1. AccountsTypeOK'
  BY <1>0, AccountsTypes DEF AccountsInv, AccountsTypeOK, AccountRows, HandlerStates, passwordVars
<1>2. upstream = "none" /\ \A s \in Handlers : sessions[s].user = NoUser /\ ~sessions[s].live
  BY <1>0 DEF AccountsInv, AccountIsNew, SessionsOwned
<1>3. \A x \in Handlers : handler[x].pc \notin Holding
  BY <1>0, <1>2 DEF AccountsInv, ChangesHeld, ProvisioningHeld, HandlerAt, Holding
<1>4. \A l \in Links : links[l].stage \notin {"pending", "active"}
  BY <1>0 DEF AccountsInv, LinksOwned
<1>5. AccountIsNew' /\ LinksOwned' /\ SessionsOwned'
  BY <1>0, <1>2, <1>4 DEF AccountIsNew, LinksOwned, SessionsOwned
<1>6. ChangesHeld' /\ ProvisioningHeld'
  BY <1>0, <1>3 DEF ChangesHeld, ProvisioningHeld, HandlerAt, Holding
<1>7. OneLiveLink' /\ UsedAccountsStay' /\ ProvisionedIsReal' /\ SessionsEndWithPassword'
  BY <1>0, <1>2 DEF AccountsInv, AccountsAreSound, OneLiveLink, UsedAccountsStay, ProvisionedIsReal,
                    SessionsEndWithPassword
<1> QED BY <1>1, <1>5, <1>6, <1>7 DEF AccountsInv, AccountsAreSound

LEMMA OpeningStep ==
    ASSUME AccountsInv, NEW h \in Handlers, Register(h) \/ CreateInvited(h)
    PROVE  AccountsInv'
<1> USE AccountsAssumption
<1>0. /\ account \in AccountRows /\ handler \in [Handlers -> HandlerStates] /\ openJob \in BOOLEAN
      /\ invitation \in [state : {"open", "consumed", "revoked"}, bound : UserIds \cup {NoUser}]
      /\ code \in [open : BOOLEAN, attempts : 0..MaxAttempts]
  BY AccountsTypes DEF AccountsInv
<1>1. CASE Register(h) /\ account = NoAccount
  <2>1. PICK u \in UserIds :
          /\ Opens(u) /\ code' = [open |-> FALSE, attempts |-> code.attempts + 1]
          /\ handler' = [handler EXCEPT ![h].pc = "recording", ![h].user = u]
    BY <1>1 DEF Register
  <2>2. /\ handler' \in [Handlers -> HandlerStates]
        /\ handler'[h].user = u /\ handler'[h].pc = "recording"
        /\ \A x \in Handlers : x # h => handler'[x] = handler[x]
    BY <1>0, <2>1, ZenonT(60) DEF HandlerStates, Pcs
  <2>3. code' \in [open : BOOLEAN, attempts : 0..MaxAttempts]
    <3>1. FALSE \in BOOLEAN /\ code.attempts + 1 \in 0..MaxAttempts
      BY <1>0, <1>1 DEF Register, CodeUsable
    <3> QED BY <2>1, <3>1
  <2> QED BY <1>1, <2>1, <2>2, <2>3, AccountOpens DEF Register
<1>2. CASE Register(h) /\ account # NoAccount
  <2>1. handler[h].pc = "registering" /\ HandlerGoes(h, "done")
    BY <1>2 DEF Register, HandlerAt
  <2> QED BY <1>0, <1>2, <2>1, HandlerGoing, RequestMoves DEF Register, Pcs, Holding
<1>3. CASE CreateInvited(h) /\ account = NoAccount
  <2>1. PICK u \in UserIds :
          Opens(u) /\ handler' = [handler EXCEPT ![h].pc = "binding", ![h].user = u, ![h].made = TRUE]
    BY <1>3 DEF CreateInvited
  <2>2. /\ handler' \in [Handlers -> HandlerStates]
        /\ handler'[h].user = u /\ handler'[h].pc = "binding"
        /\ \A x \in Handlers : x # h => handler'[x] = handler[x]
    <3>1. \A b \in BOOLEAN :
            [handler[h] EXCEPT !.pc = "binding", !.user = u, !.made = b] \in HandlerStates
      BY <1>0, ZenonT(60) DEF HandlerStates, Pcs
    <3>2. TRUE \in BOOLEAN
      OBVIOUS
    <3>3. [handler[h] EXCEPT !.pc = "binding", !.user = u, !.made = TRUE] \in HandlerStates
      BY <3>1, <3>2
    <3> QED BY <1>0, <2>1, <3>3 DEF HandlerStates
  <2> QED BY <1>0, <1>3, <2>1, <2>2, AccountOpens DEF CreateInvited
<1>4. CASE CreateInvited(h) /\ account # NoAccount
  <2>1. handler[h].pc = "creating"
        /\ handler' = [handler EXCEPT ![h].pc = "binding", ![h].user = account.id]
    BY <1>4 DEF CreateInvited, HandlerAt
  <2>2. /\ handler' \in [Handlers -> HandlerStates] /\ handler'[h].pc = "binding"
        /\ \A x \in Handlers : x # h => handler'[x] = handler[x]
    <3>1. PICK row : row = [handler[h] EXCEPT !.pc = "binding", !.user = account.id]
      OBVIOUS
    <3>2. row \in HandlerStates /\ row.pc = "binding"
      <4>1. handler[h] \in HandlerStates /\ account.id \in UserIds \cup {NoUser}
        BY <1>0 DEF AccountRows
      <4> QED BY <3>1, <4>1 DEF HandlerStates, Pcs
    <3>3. handler' = [handler EXCEPT ![h] = row]
      BY <1>0, <2>1, <3>1
    <3> QED BY <1>0, <3>2, <3>3
  <2> QED BY <1>0, <1>4, <2>1, <2>2, RequestMoves DEF CreateInvited, Holding
<1> QED BY <1>1, <1>2, <1>3, <1>4

LEMMA ProvisioningStep ==
    ASSUME AccountsInv, NEW h \in Handlers, ProxyAnswers(h) \/ RecordStatus(h)
    PROVE  AccountsInv'
<1> USE AccountsAssumption
<1>0. /\ handler \in [Handlers -> HandlerStates] /\ AccountsTypeOK /\ account \in AccountRows
      /\ sessions \in [Handlers -> SessionRows] /\ links \in [Links -> LinkRows]
  BY AccountsTypes DEF AccountsInv
<1>1. /\ handler[h].pc \in {"provisioning", "provisioned", "failed"}
      /\ handler[h].user = account.id /\ upstream # "none" /\ account.id # NoUser
      /\ account.id \in UserIds
  BY <1>0 DEF AccountsInv, AccountIsNew, ProvisioningHeld, ProxyAnswers, RecordStatus, HandlerAt,
              AccountRows
<1>2. PICK pc \in Pcs : pc \notin {"changing", "changed"} /\ HandlerGoes(h, pc)
  BY DEF ProxyAnswers, RecordStatus, Pcs
<1>3. /\ handler' \in [Handlers -> HandlerStates]
      /\ handler'[h].pc = pc /\ handler'[h].user = account.id
      /\ \A x \in Handlers : x # h => handler'[x] = handler[x]
  BY <1>0, <1>1, <1>2, HandlerGoing
<1>4. UNCHANGED <<account, former, code, links, sessions, openJob, invitation, chosen, restored>>
  BY DEF ProxyAnswers, RecordStatus, passwordVars
<1>5. /\ proxyUsers \subseteq proxyUsers' /\ proxyUsers' \subseteq UserIds
      /\ pc = "provisioned" => account.id \in proxyUsers'
      /\ upstream' \in {"provisioning", "failed", "provisioned"}
      /\ upstream' = "provisioned" => account.id \in proxyUsers'
  <2>1. CASE ProxyAnswers(h)
    BY <1>0, <1>1, <1>3, <2>1 DEF ProxyAnswers, AccountsInv, AccountsAreSound, ProvisionedIsReal,
         HandlerGoes, HandlerAt, AccountsTypeOK, HandlerStates
  <2>2. CASE RecordStatus(h)
    <3>1. pc \in {"queueing", "completing"}
      BY <1>0, <1>3, <2>2 DEF RecordStatus, HandlerGoes, HandlerStates
    <3> QED BY <1>0, <1>1, <2>2, <3>1 DEF RecordStatus, AccountsInv, ProvisioningHeld, HandlerAt,
              AccountsTypeOK
  <2> QED BY <2>1, <2>2
<1>6. AccountsTypeOK'
  BY <1>0, <1>3, <1>4, <1>5, AccountsTypes DEF AccountsTypeOK, HandlerStates
<1>7. AccountIsNew' /\ LinksOwned' /\ SessionsOwned'
  BY <1>1, <1>4, <1>5 DEF AccountsInv, AccountIsNew, LinksOwned, SessionsOwned
<1>8. ChangesHeld' /\ ProvisioningHeld'
  BY <1>1, <1>2, <1>3, <1>4, <1>5 DEF AccountsInv, ChangesHeld, ProvisioningHeld, HandlerAt
<1>9. OneLiveLink' /\ ProvisionedIsReal' /\ UsedAccountsStay'
  BY <1>4, <1>5 DEF AccountsInv, AccountsAreSound, OneLiveLink, ProvisionedIsReal, UsedAccountsStay
<1>10. SessionsEndWithPassword'
  BY <1>1, <1>3, <1>4 DEF AccountsInv, AccountsAreSound, SessionsEndWithPassword, HandlerAt
<1> QED BY <1>6, <1>7, <1>8, <1>9, <1>10 DEF AccountsInv, AccountsAreSound

\* Logging in and opening a session: the account stays, its sessions are its own.
LEMMA SessionStep ==
    ASSUME AccountsInv, NEW h \in Handlers,
           TouchLogin(h) \/ OpenSession(h) \/ EndSessions(h)
    PROVE  AccountsInv'
<1> USE AccountsAssumption
<1>0. /\ handler \in [Handlers -> HandlerStates] /\ account \in AccountRows
      /\ sessions \in [Handlers -> SessionRows]
  BY AccountsTypes DEF AccountsInv
<1>1. PICK pc \in {"opening", "done"} : HandlerGoes(h, pc)
  BY DEF TouchLogin, OpenSession, EndSessions
<1>2. /\ handler' \in [Handlers -> HandlerStates]
      /\ handler'[h].pc = pc /\ handler'[h].user = handler[h].user
      /\ \A x \in Handlers : x # h => handler'[x] = handler[x]
  BY <1>0, <1>1, HandlerGoing DEF Pcs
<1>3. /\ account' \in AccountRows /\ account'.id = account.id
      /\ account'.password = account.password
      /\ account'.id = NoUser => account' = account
  BY <1>0 DEF TouchLogin, OpenSession, EndSessions, Exists, AccountRows
<1>4. UNCHANGED <<former, code, links, upstream, openJob, proxyUsers, invitation, chosen, restored>>
  BY DEF TouchLogin, OpenSession, EndSessions, passwordVars
<1>5. /\ sessions' \in [Handlers -> SessionRows]
      /\ \A s \in Handlers :
           /\ sessions'[s].user \in {sessions[s].user, account.id}
           /\ sessions'[s].live => \/ sessions[s].live /\ sessions'[s] = sessions[s]
                                   \/ /\ sessions'[s].user = account.id /\ account.id # NoUser
                                      /\ sessions'[s].at = account.password
  <2>1. CASE TouchLogin(h)
    BY <1>0, <2>1 DEF TouchLogin
  <2>2. CASE OpenSession(h)
    <3>1. [user |-> account.id, at |-> account.password, live |-> TRUE] \in SessionRows
      BY <1>0 DEF SessionRows, AccountRows
    <3> QED BY <1>0, <2>2, <3>1 DEF OpenSession, Exists
  <2>3. CASE EndSessions(h)
    BY <1>0, <2>3 DEF EndSessions, SessionsEnded, SessionRows
  <2> QED BY <2>1, <2>2, <2>3
<1>6. AccountsTypeOK'
  BY <1>2, <1>3, <1>4, <1>5, AccountsTypes
     DEF AccountsInv, AccountsTypeOK, HandlerStates, AccountRows, SessionRows
<1>7. AccountIsNew' /\ LinksOwned' /\ SessionsOwned'
  BY <1>3, <1>4, <1>5 DEF AccountsInv, AccountIsNew, LinksOwned, SessionsOwned
<1>8. ChangesHeld'
  <2>1. \A s \in Handlers : sessions[s].user = account.id => sessions'[s].user = account.id
    BY <1>5
  <2> QED BY <1>2, <1>3, <2>1 DEF AccountsInv, ChangesHeld, HandlerAt
<1>9. ProvisioningHeld' /\ OneLiveLink' /\ ProvisionedIsReal'
  BY <1>2, <1>3, <1>4 DEF AccountsInv, AccountsAreSound, ProvisioningHeld, HandlerAt, OneLiveLink,
                          ProvisionedIsReal
<1>10. UsedAccountsStay'
  BY <1>4, <1>5 DEF AccountsInv, AccountsAreSound, UsedAccountsStay, AccountIsNew
<1>11. SessionsEndWithPassword'
  <2>1. CASE handler[h].pc # "changed"
    BY <1>2, <1>3, <1>4, <1>5, <2>1 DEF AccountsInv, AccountsAreSound, SessionsEndWithPassword, HandlerAt
  <2>2. CASE handler[h].pc = "changed"
    <3>1. EndSessions(h) /\ handler[h].user = account.id
      BY <2>2 DEF TouchLogin, OpenSession, HandlerAt, AccountsInv, ChangesHeld
    <3>2. \A s \in Handlers : ~sessions'[s].live
      BY <1>0, <3>1 DEF EndSessions, SessionsEnded, AccountsInv, SessionsOwned, SessionRows
    <3> QED BY <3>2 DEF SessionsEndWithPassword
  <2> QED BY <2>1, <2>2
<1> QED BY <1>6, <1>7, <1>8, <1>9, <1>10, <1>11 DEF AccountsInv, AccountsAreSound

\* The compensation removes an account that nothing refers to.
LEMMA UndoStep ==
    ASSUME AccountsInv, NEW h \in Handlers, UndoAccount(h)
    PROVE  AccountsInv'
<1> USE AccountsAssumption
<1>0. /\ handler \in [Handlers -> HandlerStates] /\ account \in AccountRows
      /\ links \in [Links -> LinkRows] /\ handler[h].pc = "undoing"
      /\ openJob \in BOOLEAN /\ code \in [open : BOOLEAN, attempts : 0..MaxAttempts]
      /\ invitation \in [state : {"open", "consumed", "revoked"}, bound : UserIds \cup {NoUser}]
  BY AccountsTypes DEF AccountsInv, UndoAccount, HandlerAt
<1>1. HandlerGoes(h, "done")
  BY DEF UndoAccount
<1>2. /\ handler' \in [Handlers -> HandlerStates] /\ handler'[h].pc = "done"
      /\ \A x \in Handlers : x # h => handler'[x] = handler[x]
  BY <1>0, <1>1, HandlerGoing DEF Pcs
<1>3. CASE ~Deletable(handler[h].user)
  BY <1>0, <1>2, <1>3, RequestMoves DEF UndoAccount, Holding
<1>4. CASE Deletable(handler[h].user)
  <2>1. /\ handler[h].user = account.id /\ account.id # NoUser /\ upstream = "none"
        /\ \A s \in Handlers : sessions[s].user # account.id
    BY <1>4 DEF Deletable, Exists
  <2>2. /\ account' = NoAccount /\ former' = former \cup {account.id}
        /\ links' = [l \in Links |-> IF links[l].user = account.id
                                     THEN [links[l] EXCEPT !.stage = "deleted"] ELSE links[l]]
        /\ UNCHANGED <<code, sessions, upstream, openJob, proxyUsers, invitation, chosen, restored>>
    BY <1>4, <2>1 DEF UndoAccount, passwordVars
  <2>3. \A s \in Handlers : sessions[s].user = NoUser /\ ~sessions[s].live
    BY <2>1 DEF AccountsInv, SessionsOwned
  <2>4. \A x \in Handlers : handler[x].pc \notin Holding
    BY <2>1 DEF AccountsInv, ChangesHeld, ProvisioningHeld, HandlerAt, Holding
  <2>5. links' \in [Links -> LinkRows] /\ \A l \in Links : links'[l].stage \notin {"pending", "active"}
    BY <1>0, <2>2 DEF AccountsInv, LinksOwned, LinkRows
  <2>6. account' \in AccountRows
    BY <2>2 DEF NoAccount, AccountRows
  <2>7. AccountsTypeOK'
    BY <1>0, <1>2, <2>1, <2>2, <2>5, <2>6, AccountsTypes
       DEF AccountsInv, AccountsTypeOK, AccountRows, HandlerStates, LinkRows
  <2>8. AccountIsNew' /\ LinksOwned' /\ SessionsOwned'
    BY <1>0, <2>1, <2>2, <2>3, <2>5
       DEF AccountsInv, AccountsTypeOK, AccountIsNew, LinksOwned, SessionsOwned, NoAccount
  <2>9. ChangesHeld' /\ ProvisioningHeld'
    BY <1>2, <2>4 DEF ChangesHeld, ProvisioningHeld, HandlerAt, Holding
  <2>10. OneLiveLink' /\ ProvisionedIsReal' /\ SessionsEndWithPassword'
    BY <2>1, <2>2, <2>3, <2>5 DEF OneLiveLink, ProvisionedIsReal, SessionsEndWithPassword
  <2>11. UsedAccountsStay'
    BY <1>0, <2>1, <2>2, <2>3 DEF AccountsInv, AccountsTypeOK, UsedAccountsStay
  <2> QED BY <2>7, <2>8, <2>9, <2>10, <2>11 DEF AccountsInv, AccountsAreSound
<1> QED BY <1>3, <1>4

\* A session request.
LEMMA VisitStep ==
    ASSUME AccountsInv, NEW h \in Handlers, NEW s \in Handlers, Visit(h, s)
    PROVE  AccountsInv'
<1> USE AccountsAssumption
<1>0. /\ handler \in [Handlers -> HandlerStates] /\ account \in AccountRows
      /\ sessions \in [Handlers -> SessionRows] /\ handler[h].pc = "idle"
  BY AccountsTypes DEF AccountsInv, Visit, HandlerAt
<1>1. UNCHANGED <<account, former, code, links, openJob, proxyUsers, invitation, chosen, restored>>
  BY DEF Visit, passwordVars
<1>2. CASE ~Exists(sessions[s].user) \/ ~account.active
  <2>1. UNCHANGED <<handler, upstream>> /\ sessions' = [sessions EXCEPT ![s].live = FALSE]
    BY <1>2 DEF Visit
  <2>2. /\ sessions' \in [Handlers -> SessionRows]
        /\ \A x \in Handlers : /\ sessions'[x].user = sessions[x].user
                               /\ sessions'[x].live => sessions'[x] = sessions[x]
    BY <1>0, <2>1 DEF SessionRows
  <2>3. AccountsTypeOK'
    BY <1>1, <2>1, <2>2, AccountsTypes DEF AccountsInv, AccountsTypeOK, SessionRows
  <2>4. AccountIsNew' /\ LinksOwned' /\ SessionsOwned' /\ ChangesHeld' /\ ProvisioningHeld'
    BY <1>1, <2>1, <2>2
       DEF AccountsInv, AccountIsNew, LinksOwned, SessionsOwned, ChangesHeld, ProvisioningHeld, HandlerAt
  <2>5. OneLiveLink' /\ ProvisionedIsReal' /\ UsedAccountsStay'
    BY <1>1, <2>1, <2>2 DEF AccountsInv, AccountsAreSound, OneLiveLink, ProvisionedIsReal, UsedAccountsStay
  <2>6. SessionsEndWithPassword'
    BY <1>1, <2>1, <2>2 DEF AccountsInv, AccountsAreSound, SessionsEndWithPassword, HandlerAt
  <2> QED BY <2>3, <2>4, <2>5, <2>6 DEF AccountsInv, AccountsAreSound
<1>3. CASE Exists(sessions[s].user) /\ account.active
  <2>1. /\ upstream # "none" /\ upstream' = "provisioning" /\ UNCHANGED sessions
        /\ HandlerStarts(h, "provisioning")
    BY <1>3 DEF Visit
  <2>2. /\ handler' \in [Handlers -> HandlerStates]
        /\ handler'[h].pc = "provisioning" /\ handler'[h].user = account.id
        /\ \A x \in Handlers : x # h => handler'[x] = handler[x]
    BY <1>0, <2>1, HandlerStarting DEF Pcs
  <2>3. AccountsTypeOK'
    BY <1>1, <2>1, <2>2, AccountsTypes DEF AccountsInv, AccountsTypeOK, HandlerStates
  <2>4. AccountIsNew' /\ LinksOwned' /\ SessionsOwned'
    BY <1>1, <2>1 DEF AccountsInv, AccountIsNew, LinksOwned, SessionsOwned
  <2>5. ChangesHeld' /\ ProvisioningHeld'
    BY <1>1, <2>1, <2>2 DEF AccountsInv, ChangesHeld, ProvisioningHeld, HandlerAt
  <2>6. OneLiveLink' /\ ProvisionedIsReal' /\ UsedAccountsStay'
    BY <1>1, <2>1, <2>2 DEF AccountsInv, AccountsAreSound, OneLiveLink, ProvisionedIsReal, UsedAccountsStay
  <2>7. SessionsEndWithPassword'
    BY <1>0, <1>1, <2>1, <2>2 DEF AccountsInv, AccountsAreSound, SessionsEndWithPassword, HandlerAt
  <2> QED BY <2>3, <2>4, <2>5, <2>6, <2>7 DEF AccountsInv, AccountsAreSound
<1> QED BY <1>2, <1>3

\* Using up the links of the account leaves none that works.
LEMMA LinksUsedUp ==
    ASSUME AccountsInv, NEW u, u = account.id
    PROVE  /\ LinksUsed(u) \in [Links -> LinkRows]
           /\ \A l \in Links : LinksUsed(u)[l].stage \notin {"pending", "active"}
BY AccountsTypes DEF AccountsInv, LinksOwned, LinksUsed, LinkRows

\* The upstream row of an account that was registered.
LEMMA RecordingStep ==
    ASSUME AccountsInv, NEW h \in Handlers, RecordProvisioning(h)
    PROVE  AccountsInv'
<1> USE AccountsAssumption
<1>0. /\ handler \in [Handlers -> HandlerStates] /\ handler[h].pc = "recording"
      /\ openJob \in BOOLEAN /\ code \in [open : BOOLEAN, attempts : 0..MaxAttempts]
      /\ invitation \in [state : {"open", "consumed", "revoked"}, bound : UserIds \cup {NoUser}]
  BY AccountsTypes DEF AccountsInv, RecordProvisioning, HandlerAt
<1>1. UNCHANGED <<account, former, code, links, sessions, openJob, proxyUsers, invitation, chosen, restored>>
  BY DEF RecordProvisioning, passwordVars
<1>2. CASE ~Exists(handler[h].user)
  <2>1. HandlerGoes(h, "done") /\ UNCHANGED upstream
    BY <1>2 DEF RecordProvisioning
  <2> QED BY <1>0, <1>1, <2>1, HandlerGoing, RequestMoves DEF Pcs, Holding, passwordVars
<1>3. CASE Exists(handler[h].user)
  <2>1. /\ upstream' = "provisioning" /\ HandlerGoes(h, "provisioning")
        /\ handler[h].user = account.id /\ account.id # NoUser
    BY <1>3 DEF RecordProvisioning, Exists
  <2>2. /\ handler' \in [Handlers -> HandlerStates]
        /\ handler'[h].pc = "provisioning" /\ handler'[h].user = account.id
        /\ \A x \in Handlers : x # h => handler'[x] = handler[x]
    BY <1>0, <2>1, HandlerGoing DEF Pcs
  <2>3. AccountsTypeOK'
    BY <1>1, <2>1, <2>2, AccountsTypes DEF AccountsInv, AccountsTypeOK, HandlerStates
  <2>4. AccountIsNew' /\ LinksOwned' /\ SessionsOwned'
    BY <1>1, <2>1 DEF AccountsInv, AccountIsNew, LinksOwned, SessionsOwned
  <2>5. ChangesHeld' /\ ProvisioningHeld'
    BY <1>1, <2>1, <2>2 DEF AccountsInv, ChangesHeld, ProvisioningHeld, HandlerAt
  <2>6. OneLiveLink' /\ ProvisionedIsReal' /\ UsedAccountsStay'
    BY <1>1, <2>1 DEF AccountsInv, AccountsAreSound, OneLiveLink, ProvisionedIsReal, UsedAccountsStay
  <2>7. SessionsEndWithPassword'
    BY <1>0, <1>1, <2>2 DEF AccountsInv, AccountsAreSound, SessionsEndWithPassword, HandlerAt
  <2> QED BY <2>3, <2>4, <2>5, <2>6, <2>7 DEF AccountsInv, AccountsAreSound
<1> QED BY <1>2, <1>3

\* A session lets in a request that will change the password.
LEMMA ChangeStarts ==
    ASSUME AccountsInv, NEW h \in Handlers, NEW s \in Handlers, ChangePassword(h, s)
    PROVE  AccountsInv'
<1>0. handler \in [Handlers -> HandlerStates] /\ account \in AccountRows
  BY AccountsTypes DEF AccountsInv
<1>1. /\ sessions[s].user = account.id /\ account.id # NoUser /\ HandlerStarts(h, "changing")
      /\ UNCHANGED <<account, former, code, links, sessions, upstream, openJob, proxyUsers, invitation,
                     chosen, restored>>
  BY DEF ChangePassword, Exists, passwordVars
<1>2. /\ handler[h].pc = "idle" /\ handler' \in [Handlers -> HandlerStates]
      /\ handler'[h].pc = "changing" /\ handler'[h].user = account.id
      /\ \A x \in Handlers : x # h => handler'[x] = handler[x]
  BY <1>0, <1>1, HandlerStarting DEF Pcs
<1>3. AccountsTypeOK'
  BY <1>1, <1>2, AccountsTypes DEF AccountsInv, AccountsTypeOK, HandlerStates
<1>4. AccountIsNew' /\ LinksOwned' /\ SessionsOwned'
  BY <1>1 DEF AccountsInv, AccountIsNew, LinksOwned, SessionsOwned
<1>5. ChangesHeld' /\ ProvisioningHeld'
  BY <1>1, <1>2 DEF AccountsInv, ChangesHeld, ProvisioningHeld, HandlerAt
<1>6. OneLiveLink' /\ ProvisionedIsReal' /\ UsedAccountsStay'
  BY <1>1 DEF AccountsInv, AccountsAreSound, OneLiveLink, ProvisionedIsReal, UsedAccountsStay
<1>7. SessionsEndWithPassword'
  BY <1>1, <1>2 DEF AccountsInv, AccountsAreSound, SessionsEndWithPassword, HandlerAt
<1> QED BY <1>3, <1>4, <1>5, <1>6, <1>7 DEF AccountsInv, AccountsAreSound

\* A password is written, and the links of the account are used up: what is left to
\* show is that the sessions end, or that somebody still has to end them.
LEMMA PasswordWritten ==
    ASSUME AccountsInv, NEW p \in 0..MaxPasswords, account.id # NoUser,
           account' = [account EXCEPT !.password = p], links' = LinksUsed(account.id),
           UNCHANGED <<former, code, upstream, openJob, proxyUsers, invitation>>,
           chosen' \in 0..MaxPasswords, restored' \in BOOLEAN,
           handler' \in [Handlers -> HandlerStates],
           \A x \in Handlers :
             \/ handler'[x] = handler[x]
             \/ handler'[x].pc \notin Holding
             \/ HandlerAt(x, "changing") /\ handler'[x].pc = "changed" /\ handler'[x].user = handler[x].user,
           sessions' \in [Handlers -> SessionRows],
           \A s \in Handlers : sessions'[s].user = sessions[s].user /\ (sessions'[s].live => sessions[s].live),
           SessionsEndWithPassword'
    PROVE  AccountsInv'
<1> USE AccountsAssumption
<1>0. account \in AccountRows
  BY AccountsTypes DEF AccountsInv
<1>1. /\ account' \in AccountRows /\ account'.id = account.id
      /\ links' \in [Links -> LinkRows]
      /\ \A l \in Links : links'[l].stage \notin {"pending", "active"}
  BY <1>0, LinksUsedUp DEF AccountRows
<1>2. AccountsTypeOK'
  BY <1>1, AccountsTypes
     DEF AccountsInv, AccountsTypeOK, HandlerStates, AccountRows, LinkRows, SessionRows
<1>3. AccountIsNew' /\ LinksOwned' /\ SessionsOwned'
  BY <1>1 DEF AccountsInv, AccountIsNew, LinksOwned, SessionsOwned
<1>4. ChangesHeld'
  BY <1>1 DEF AccountsInv, ChangesHeld, HandlerAt, Holding
<1>5. ProvisioningHeld'
  BY <1>1 DEF AccountsInv, ProvisioningHeld, HandlerAt, Holding
<1>6. OneLiveLink' /\ ProvisionedIsReal' /\ UsedAccountsStay'
  BY <1>1 DEF AccountsInv, AccountsAreSound, OneLiveLink, ProvisionedIsReal, UsedAccountsStay
<1> QED BY <1>2, <1>3, <1>4, <1>5, <1>6 DEF AccountsInv, AccountsAreSound

\* A login writes the password again; a session of another one is excused from now on.
LEMMA RehashStep ==
    ASSUME AccountsInv, NEW h \in Handlers, Rehash(h)
    PROVE  AccountsInv'
<1> USE AccountsAssumption
<1>0. /\ handler \in [Handlers -> HandlerStates] /\ handler[h].pc = "rehashing"
      /\ account \in AccountRows /\ sessions \in [Handlers -> SessionRows]
      /\ openJob \in BOOLEAN /\ code \in [open : BOOLEAN, attempts : 0..MaxAttempts]
      /\ invitation \in [state : {"open", "consumed", "revoked"}, bound : UserIds \cup {NoUser}]
      /\ chosen \in 0..MaxPasswords /\ restored \in BOOLEAN
  BY AccountsTypes DEF AccountsInv, Rehash, HandlerAt
<1>1. /\ UNCHANGED <<former, code, sessions, upstream, openJob, proxyUsers, invitation, chosen>>
      /\ handler' = [handler EXCEPT ![h].pc = "loggingIn", ![h].typed = 0]
  BY DEF Rehash
<1>2. /\ handler' \in [Handlers -> HandlerStates] /\ handler'[h].pc = "loggingIn"
      /\ \A x \in Handlers : x # h => handler'[x] = handler[x]
  <2>1. PICK row : row = [handler[h] EXCEPT !.pc = "loggingIn", !.typed = 0]
    OBVIOUS
  <2>2. row \in HandlerStates /\ row.pc = "loggingIn"
    <3>1. handler[h] \in HandlerStates /\ 0 \in 0..MaxPasswords
      BY <1>0
    <3> QED BY <2>1, <3>1 DEF HandlerStates, Pcs
  <2>3. handler' = [handler EXCEPT ![h] = row]
    BY <1>0, <1>1, <2>1
  <2> QED BY <1>0, <2>2, <2>3
<1>3. CASE ~Exists(handler[h].user)
  <2>1. UNCHANGED <<account, links, restored>>
    BY <1>3 DEF Rehash
  <2> QED BY <1>0, <1>1, <1>2, <2>1, RequestMoves DEF Holding, passwordVars
<1>4. CASE Exists(handler[h].user)
  <2>1. PICK p : p = handler[h].typed
    OBVIOUS
  <2>2. /\ p \in 0..MaxPasswords /\ account.id # NoUser
        /\ account' = [account EXCEPT !.password = p] /\ links' = LinksUsed(account.id)
        /\ restored' = (restored \/ account.password # p)
    BY <1>0, <1>4, <2>1 DEF Rehash, Exists, HandlerStates
  <2>3. account'.password = p /\ restored' \in BOOLEAN
    BY <1>0, <2>2 DEF AccountRows
  <2>4. SessionsEndWithPassword'
    <3>1. CASE restored'
      BY <3>1 DEF SessionsEndWithPassword
    <3>2. CASE ~restored'
      BY <1>0, <1>1, <1>2, <2>2, <2>3, <3>2
         DEF AccountsInv, AccountsAreSound, SessionsEndWithPassword, HandlerAt
    <3> QED BY <3>1, <3>2
  <2>5. \A x \in Handlers : handler'[x] = handler[x] \/ handler'[x].pc \notin Holding
    BY <1>2 DEF Holding
  <2> QED BY <1>0, <1>1, <1>2, <2>2, <2>3, <2>4, <2>5, PasswordWritten
<1> QED BY <1>3, <1>4

\* A change or a reset of the password.
LEMMA PasswordStep ==
    ASSUME AccountsInv,
           (\E h \in Handlers : WritePassword(h)) \/ (\E l \in Links : ResetPassword(l))
    PROVE  AccountsInv'
<1> USE AccountsAssumption
<1>0. /\ handler \in [Handlers -> HandlerStates] /\ account \in AccountRows
      /\ sessions \in [Handlers -> SessionRows] /\ chosen \in 0..MaxPasswords
  BY AccountsTypes DEF AccountsInv
<1>1. PICK p : p = chosen + 1
  OBVIOUS
<1>2. /\ p \in 0..MaxPasswords /\ chosen' = p /\ restored' = FALSE
      /\ account' = [account EXCEPT !.password = p]
      /\ UNCHANGED <<former, code, upstream, openJob, proxyUsers, invitation>>
  BY <1>0, <1>1 DEF WritePassword, ResetPassword, NewPassword
<1>3. restored' \in BOOLEAN
  BY <1>2
<1>4. ASSUME NEW h \in Handlers, WritePassword(h)
      PROVE  AccountsInv'
  <2>1. /\ handler[h].pc = "changing" /\ HandlerGoes(h, "changed") /\ UNCHANGED sessions
        /\ links' = LinksUsed(handler[h].user)
    BY <1>4 DEF WritePassword, HandlerAt
  <2>2. handler[h].user = account.id /\ account.id # NoUser
    BY <2>1 DEF AccountsInv, ChangesHeld, HandlerAt
  <2>3. /\ handler' \in [Handlers -> HandlerStates]
        /\ handler'[h].pc = "changed" /\ handler'[h].user = handler[h].user
        /\ \A x \in Handlers : x # h => handler'[x] = handler[x]
    BY <1>0, <2>1, HandlerGoing DEF Pcs
  <2>4. SessionsEndWithPassword'
    BY <2>3 DEF SessionsEndWithPassword, HandlerAt
  <2>5. \A x \in Handlers :
          \/ handler'[x] = handler[x]
          \/ HandlerAt(x, "changing") /\ handler'[x].pc = "changed" /\ handler'[x].user = handler[x].user
    BY <2>1, <2>3 DEF HandlerAt
  <2> QED BY <1>0, <1>2, <1>3, <2>1, <2>2, <2>3, <2>4, <2>5, PasswordWritten
<1>5. ASSUME NEW l \in Links, ResetPassword(l)
      PROVE  AccountsInv'
  <2>1. PICK u : u = account.id
    OBVIOUS
  <2>2. /\ UNCHANGED handler /\ sessions' = SessionsEnded(u) /\ links' = LinksUsed(account.id)
        /\ account.id # NoUser
    BY <1>5, <2>1 DEF ResetPassword, Exists
  <2>3. /\ sessions' \in [Handlers -> SessionRows]
        /\ \A s \in Handlers : ~sessions'[s].live /\ sessions'[s].user = sessions[s].user
    BY <1>0, <2>1, <2>2 DEF AccountsInv, SessionsOwned, SessionsEnded, SessionRows
  <2>4. SessionsEndWithPassword'
    BY <2>3 DEF SessionsEndWithPassword
  <2> QED BY <1>0, <1>2, <1>3, <2>2, <2>3, <2>4, PasswordWritten
<1> QED BY <1>4, <1>5

\* The platform suspends or restores the account; the invitation is revoked.
LEMMA PlatformStep ==
    ASSUME AccountsInv, (\E active \in BOOLEAN : SetUserStatus(active)) \/ RevokeInvitation
    PROVE  AccountsInv'
<1> USE AccountsAssumption
<1>0. /\ account \in AccountRows /\ sessions \in [Handlers -> SessionRows]
      /\ invitation \in [state : {"open", "consumed", "revoked"}, bound : UserIds \cup {NoUser}]
  BY AccountsTypes DEF AccountsInv
<1>1. UNCHANGED <<former, code, links, upstream, openJob, proxyUsers, handler, chosen, restored>>
  BY DEF SetUserStatus, RevokeInvitation, passwordVars
<1>2. /\ account' \in AccountRows /\ account'.id = account.id
      /\ account'.password = account.password
      /\ account'.id = NoUser => account' = account
      /\ invitation' \in [state : {"open", "consumed", "revoked"}, bound : UserIds \cup {NoUser}]
  BY <1>0 DEF SetUserStatus, RevokeInvitation, AccountRows, AccountsInv, AccountIsNew
<1>3. /\ sessions' \in [Handlers -> SessionRows]
      /\ \A s \in Handlers : /\ sessions'[s].user = sessions[s].user
                             /\ sessions'[s].live => sessions'[s] = sessions[s]
  <2>1. PICK u : u = account.id
    OBVIOUS
  <2>2. \/ sessions' = sessions
        \/ sessions' = SessionsEnded(u)
    BY <2>1 DEF SetUserStatus, RevokeInvitation
  <2>3. CASE sessions' = sessions
    BY <1>0, <2>3
  <2>4. CASE sessions' = SessionsEnded(u)
    BY <1>0, <2>4 DEF SessionsEnded, SessionRows
  <2> QED BY <2>2, <2>3, <2>4
<1>4. AccountsTypeOK'
  BY <1>1, <1>2, <1>3, AccountsTypes DEF AccountsInv, AccountsTypeOK, SessionRows, AccountRows
<1>5. AccountIsNew' /\ LinksOwned' /\ SessionsOwned' /\ ChangesHeld' /\ ProvisioningHeld'
  BY <1>1, <1>2, <1>3
     DEF AccountsInv, AccountIsNew, LinksOwned, SessionsOwned, ChangesHeld, ProvisioningHeld, HandlerAt
<1>6. OneLiveLink' /\ ProvisionedIsReal' /\ UsedAccountsStay'
  BY <1>1, <1>2, <1>3 DEF AccountsInv, AccountsAreSound, OneLiveLink, ProvisionedIsReal, UsedAccountsStay
<1>7. SessionsEndWithPassword'
  BY <1>1, <1>2, <1>3 DEF AccountsInv, AccountsAreSound, SessionsEndWithPassword, HandlerAt
<1> QED BY <1>4, <1>5, <1>6, <1>7 DEF AccountsInv, AccountsAreSound

\* Asking for a link, and its mail: delivered or failed.
LEMMA LinkStep ==
    ASSUME AccountsInv, NEW h \in Handlers, NEW l \in Links,
           ForgotPassword(h, l) \/ ActivateLink(h, l) \/ DeleteLink(h, l)
    PROVE  AccountsInv'
<1> USE AccountsAssumption
<1>0. /\ handler \in [Handlers -> HandlerStates] /\ account \in AccountRows
      /\ links \in [Links -> LinkRows]
  BY AccountsTypes DEF AccountsInv
<1>1. /\ UNCHANGED <<account, former, code, sessions, upstream, openJob, proxyUsers, invitation,
                      chosen, restored>>
      /\ handler[h].pc \in {"idle", "mailing"}
  BY DEF ForgotPassword, ActivateLink, DeleteLink, HandlerAt, passwordVars
<1>2. /\ handler' \in [Handlers -> HandlerStates] /\ handler'[h].pc \in {"mailing", "done"}
      /\ \A x \in Handlers : x # h => handler'[x] = handler[x]
  <2>1. CASE ForgotPassword(h, l)
    <3>1. [handler[h] EXCEPT !.pc = "mailing", !.user = account.id, !.link = l] \in HandlerStates
      BY <1>0, ZenonT(60) DEF HandlerStates, AccountRows, Pcs
    <3> QED BY <1>0, <2>1, <3>1 DEF ForgotPassword, HandlerStates
  <2>2. CASE ActivateLink(h, l) \/ DeleteLink(h, l)
    <3>1. HandlerGoes(h, "done")
      BY <2>2 DEF ActivateLink, DeleteLink
    <3> QED BY <1>0, <3>1, HandlerGoing DEF Pcs
  <2> QED BY <2>1, <2>2
<1>3. /\ links' \in [Links -> LinkRows]
      /\ LinksOwned' /\ OneLiveLink'
  <2>1. CASE ForgotPassword(h, l)
    <3>1. account.id # NoUser
      BY <2>1 DEF ForgotPassword, AccountsInv, AccountIsNew
    <3>2. [user |-> account.id, stage |-> "pending"] \in LinkRows
      BY <1>0 DEF LinkRows, AccountRows
    <3> QED BY <1>0, <1>1, <2>1, <3>1, <3>2
            DEF ForgotPassword, LinkAdded, AccountsInv, AccountsAreSound, LinksOwned, OneLiveLink
  <2>2. CASE ActivateLink(h, l)
    <3>1. CASE links[l].stage = "pending"
      <4>1. links' = Activated(l)
        BY <2>2, <3>1 DEF ActivateLink
      <4>2. \A k \in Links :
              /\ links'[k].user = links[k].user
              /\ links'[k].stage = IF k = l THEN "active"
                                   ELSE IF links[k].user = links[l].user /\ links[k].stage = "active"
                                        THEN "used" ELSE links[k].stage
        BY <1>0, <4>1 DEF Activated, LinkRows
      <4>3. links' \in [Links -> LinkRows]
        BY <1>0, <4>1 DEF Activated, LinkRows
      <4>4. LinksOwned'
        BY <1>1, <3>1, <4>2 DEF AccountsInv, LinksOwned
      <4>5. OneLiveLink'
        BY <1>1, <3>1, <4>2 DEF AccountsInv, LinksOwned, OneLiveLink
      <4> QED BY <4>3, <4>4, <4>5
    <3>2. CASE links[l].stage # "pending"
      BY <1>0, <1>1, <2>2, <3>2
         DEF ActivateLink, AccountsInv, AccountsAreSound, LinksOwned, OneLiveLink
    <3> QED BY <3>1, <3>2
  <2>3. CASE DeleteLink(h, l)
    <3>1. \/ links' = links
          \/ links' = [links EXCEPT ![l].stage = "deleted"]
      BY <2>3 DEF DeleteLink
    <3> QED BY <1>0, <1>1, <3>1
            DEF AccountsInv, AccountsAreSound, LinksOwned, OneLiveLink, LinkRows
  <2> QED BY <2>1, <2>2, <2>3
<1>4. AccountsTypeOK'
  BY <1>1, <1>2, <1>3, AccountsTypes DEF AccountsInv, AccountsTypeOK, HandlerStates, LinkRows
<1>5. AccountIsNew' /\ SessionsOwned' /\ ChangesHeld' /\ ProvisioningHeld'
  BY <1>1, <1>2
     DEF AccountsInv, AccountIsNew, SessionsOwned, ChangesHeld, ProvisioningHeld, HandlerAt
<1>6. ProvisionedIsReal' /\ UsedAccountsStay'
  BY <1>1 DEF AccountsInv, AccountsAreSound, ProvisionedIsReal, UsedAccountsStay
<1>7. SessionsEndWithPassword'
  BY <1>1, <1>2 DEF AccountsInv, AccountsAreSound, SessionsEndWithPassword, HandlerAt
<1> QED BY <1>3, <1>4, <1>5, <1>6, <1>7 DEF AccountsInv, AccountsAreSound

-----------------------------------------------------------------------------
(* The password account: theorems.                                         *)

LEMMA AccountsStart == AccountsInit => AccountsInv
<1> SUFFICES ASSUME AccountsInit PROVE AccountsInv
  OBVIOUS
<1> USE AccountsAssumption
<1>1. AccountsTypeOK
  <2>1. 0 \in 0..MaxPasswords /\ 0 \in 0..MaxAttempts /\ FALSE \in BOOLEAN
    OBVIOUS
  <2>2. NoAccount \in AccountRows /\ NoLink \in LinkRows /\ NoSession \in SessionRows
    BY <2>1 DEF NoAccount, NoLink, NoSession, AccountRows, LinkRows, SessionRows
  <2>3. Waiting \in HandlerStates
    BY <2>1 DEF Waiting, HandlerStates, Pcs
  <2>4. code \in [open : BOOLEAN, attempts : 0..MaxAttempts]
    BY <2>1 DEF AccountsInit
  <2> QED BY <2>1, <2>2, <2>3, <2>4, AccountsTypes DEF AccountsInit
<1>2. AccountIsNew /\ LinksOwned /\ SessionsOwned /\ ChangesHeld /\ ProvisioningHeld
  BY DEF AccountsInit, AccountIsNew, LinksOwned, SessionsOwned, ChangesHeld, ProvisioningHeld,
         NoAccount, NoLink, NoSession, Waiting, HandlerAt
<1>3. AccountsAreSound
  BY DEF AccountsInit, AccountsAreSound, OneLiveLink, SessionsEndWithPassword, ProvisionedIsReal,
         UsedAccountsStay, NoAccount, NoLink, NoSession
<1> QED BY <1>1, <1>2, <1>3 DEF AccountsInv

LEMMA AccountsStep == AccountsInv /\ [AccountsNext]_accountVars => AccountsInv'
<1> SUFFICES ASSUME AccountsInv, [AccountsNext]_accountVars PROVE AccountsInv'
  OBVIOUS
<1>1. CASE UNCHANGED accountVars
  BY <1>1 DEF accountVars, passwordVars, AccountsInv, AccountsTypeOK, AccountIsNew, LinksOwned, SessionsOwned,
              ChangesHeld, ProvisioningHeld, AccountsAreSound, OneLiveLink, HandlerAt,
              SessionsEndWithPassword, ProvisionedIsReal, UsedAccountsStay
<1>2. CASE AccountsNext
  BY <1>2, RequestStep, OpeningStep, ProvisioningStep, SessionStep, UndoStep, VisitStep,
     RecordingStep, ChangeStarts, RehashStep, PasswordStep, PlatformStep, LinkStep DEF AccountsNext
<1> QED BY <1>1, <1>2

\* The state of the account keeps its shape and what holds it in place.
THEOREM AccountsInvariant == AccountsSpec => []AccountsInv
<1> QED BY AccountsStart, AccountsStep, PTL DEF AccountsSpec

\* One reset link works at a time; a session outlives the password it was opened
\* with only until the change that ends it is through, or where a login that wrote
\* the password anew has put an earlier one back; "provisioned" is recorded only for
\* a user the proxy has, and no session belongs to a removed account.
THEOREM AccountsSound == AccountsSpec => []AccountsAreSound
<1>1. AccountsInv => AccountsAreSound
  BY DEF AccountsInv
<1> QED BY <1>1, AccountsInvariant, PTL

THEOREM AccountsTypeCorrect == AccountsSpec => []AccountsTypeOK
<1>1. AccountsInv => AccountsTypeOK
  BY DEF AccountsInv
<1> QED BY <1>1, AccountsInvariant, PTL

\* One step of DeliveredLinkStays: a delivered link stops working when a password is
\* written, the account goes, or a newer link is delivered; a mail that fails costs
\* nothing.
LinkStays ==
  \A l \in Links :
    links[l].stage = "active" /\ links'[l].stage # "active" =>
      \/ account'.id # account.id \/ chosen' # chosen
      \/ \E k \in Links \ {l} : links[k].stage = "pending" /\ links'[k].stage = "active"
      \/ \E h \in Handlers : HandlerAt(h, "rehashing") /\ HandlerAt(h, "loggingIn")'

LEMMA LinkStaysStep == AccountsInv /\ [AccountsNext]_accountVars => LinkStays
<1> SUFFICES ASSUME AccountsInv, [AccountsNext]_accountVars, account'.id = account.id, chosen' = chosen
             PROVE  LinkStays
  BY DEF LinkStays
<1>0. /\ links \in [Links -> LinkRows] /\ account \in AccountRows /\ NoUser \notin UserIds
      /\ account.id # NoUser => account # NoAccount
      /\ chosen \in 0..MaxPasswords /\ handler \in [Handlers -> HandlerStates]
  BY AccountsTypes, AccountsAssumption DEF AccountsInv, NoAccount
<1>1. CASE UNCHANGED links
  BY <1>1 DEF LinkStays
<1>2. ASSUME NEW h \in Handlers, NEW l \in Links, ForgotPassword(h, l) PROVE LinkStays
  BY <1>0, <1>2 DEF ForgotPassword, LinkAdded, LinkStays, NoLink
<1>3. ASSUME NEW h \in Handlers, NEW l \in Links, ActivateLink(h, l) PROVE LinkStays
  BY <1>0, <1>3 DEF ActivateLink, Activated, LinkStays, LinkRows
<1>4. ASSUME NEW h \in Handlers, NEW l \in Links, DeleteLink(h, l) PROVE LinkStays
  BY <1>0, <1>4 DEF DeleteLink, LinkStays, LinkRows
<1>5. ASSUME NEW h \in Handlers, UndoAccount(h) PROVE LinkStays
  <2>1. CASE Deletable(handler[h].user)
    BY <1>0, <1>5, <2>1 DEF UndoAccount, Deletable, Exists, NoAccount
  <2>2. CASE ~Deletable(handler[h].user)
    BY <1>5, <2>2 DEF UndoAccount, LinkStays
  <2> QED BY <2>1, <2>2
<1>6. ASSUME NewPassword PROVE LinkStays
  <2>1. chosen + 1 # chosen
    BY <1>0, AccountsAssumption
  <2> QED BY <1>6, <2>1 DEF NewPassword
<1>7. ASSUME NEW h \in Handlers, Rehash(h) PROVE LinkStays
  <2>1. handler[h].pc = "rehashing" /\ handler'[h].pc = "loggingIn"
    BY <1>0, <1>7 DEF Rehash, HandlerAt, HandlerStates
  <2> QED BY <2>1 DEF LinkStays, HandlerAt
<1>8. CASE AccountsNext
  BY <1>1, <1>2, <1>3, <1>4, <1>5, <1>6, <1>7, <1>8
     DEF AccountsNext, AskCode, StoreCode, AskAccount, Register, WrongCode, RecordProvisioning,
         ProxyAnswers, RecordStatus, RecordJob, Login, TouchLogin, OpenSession, WritePassword,
         EndSessions, VerifyInvitation, CreateInvited, AcceptInvitation, Visit, ChangePassword,
         ResetPassword, SetUserStatus, RevokeInvitation
<1> QED BY <1>1, <1>8 DEF accountVars

\* A delivered link keeps working until it is used, a password is written, by a change
\* or anew by a login, or a newer link is delivered.
THEOREM DeliveredLinksStay == AccountsSpec => DeliveredLinkStays
<1>1. AccountsInv /\ [AccountsNext]_accountVars => [LinkStays]_accountVars
  BY LinkStaysStep
<1> QED BY <1>1, AccountsInvariant, PTL DEF AccountsSpec, DeliveredLinkStays, LinkStays

-----------------------------------------------------------------------------
(* The managed login name: the invariant.                                  *)

ClaimRows == [status : Reserving \cup {"none", "active", "expired", "revoked"}, due : BOOLEAN,
              user : ManagedUsers \cup {Nobody}]
MemberRows == [status : {"none", "invited", "active", "suspended", "removed"},
               user : ManagedUsers \cup {Nobody}, served : BOOLEAN]
RunnerStates ==
  [pc : {"idle", "member", "linking", "marking", "resolving", "creating", "resolved",
         "binding", "opening"},
   claim : Claims \cup {Nobody}, user : ManagedUsers \cup {Nobody},
   stage : {"none", "approved", "provisioning"}, member : Members \cup {Nobody},
   ready : BOOLEAN]

\* One claim is under way and one account has the name.
OneClaim == \A c, d \in Open : c = d
OneAccount == \A u, v \in ManagedUsers : users[u] # "none" /\ users[v] # "none" => u = v
NoneWaits == \A c \in Claims : claims[c].status = "pending" => ~NameTaken

\* A claim has an account at its own stage, or none.
ClaimsAgree == \A c \in Claims :
  CASE claims[c].status = "accepted" ->
         claims[c].user \in ManagedUsers /\ users[claims[c].user] = "pending_approval"
    [] claims[c].status \in {"approved", "provisioning"} ->
         claims[c].user \in ManagedUsers /\ users[claims[c].user] = "provisioning"
    [] claims[c].status = "active" ->
         claims[c].user \in ManagedUsers /\ users[claims[c].user] = "active"
    [] OTHER -> claims[c].user = Nobody

\* A member that is active has been so; what a request works on has been
\* approved, and what it is about to open belongs to a member that was active.
ActiveServed == \A m \in Members : members[m].status = "active" => members[m].served

Approved == {"approved", "provisioning", "active"}

SoundRunner(s) ==
  /\ s.pc # "idle" => s.claim \in Claims /\ claims[s.claim].status \in Approved
  /\ s.pc \in {"linking", "marking", "resolved", "binding", "opening"} => s.member \in Members
  /\ s.pc \in {"binding", "opening"} => s.ready
  /\ s.pc \in {"resolved", "binding", "opening"} /\ s.ready => members[s.member].served
  /\ s.pc = "opening" => principal = s.member

RunnersHold == \A r \in Runners : SoundRunner(runner[r])

\* What the two tables of the claims' store say of each other.
TablesAgree == OneClaim /\ OneAccount /\ NoneWaits /\ ClaimsAgree /\ StageAgrees

ClaimsInv == ClaimsTypeOK /\ TablesAgree /\ ActiveServed /\ RunnersHold /\ LoginFollowsMember

-----------------------------------------------------------------------------
(* The managed login name: types and helpers.                              *)

UserStages == {"none", "pending_approval", "provisioning", "active"}

LEMMA ClaimsTypes ==
    ClaimsTypeOK <=>
      /\ claims \in [Claims -> ClaimRows] /\ users \in [ManagedUsers -> UserStages]
      /\ members \in [Members -> MemberRows] /\ principal \in Members \cup {Nobody}
      /\ runner \in [Runners -> RunnerStates]
BY DEF ClaimsTypeOK, ClaimRows, UserStages, MemberRows, RunnerStates

LEMMA TablesSame ==
    ASSUME TablesAgree, UNCHANGED <<claims, users>>
    PROVE  TablesAgree'
<1>1. OneClaim' /\ OneAccount' /\ NoneWaits'
  BY DEF TablesAgree, OneClaim, OneAccount, NoneWaits, Open, NameTaken
<1>2. ClaimsAgree' /\ StageAgrees'
  BY DEF TablesAgree, ClaimsAgree, StageAgrees
<1> QED BY <1>1, <1>2 DEF TablesAgree

\* A claim that ends loses its account, and no other claim does.
LEMMA EndedRows ==
    ASSUME ClaimsInv, NEW ended \in SUBSET Claims, NEW status \in {"expired", "revoked"},
           \A c \in ended : claims[c].status \in Unapproved
    PROVE  /\ Ended(ended, status) \in [Claims -> ClaimRows]
           /\ Without(Dropped(ended)) \in [ManagedUsers -> UserStages]
           /\ \A c \in Claims :
                /\ Ended(ended, status)[c].status = IF c \in ended THEN status ELSE claims[c].status
                /\ Ended(ended, status)[c].user = IF c \in ended THEN Nobody ELSE claims[c].user
           /\ \A u \in ManagedUsers :
                /\ Without(Dropped(ended))[u] = IF u \in Dropped(ended) THEN "none" ELSE users[u]
                /\ u \in Dropped(ended) <=>
                     \E c \in ended : claims[c].status = "accepted" /\ claims[c].user = u
<1> USE ClaimsAssumption
<1>0. claims \in [Claims -> ClaimRows] /\ users \in [ManagedUsers -> UserStages]
  BY ClaimsTypes DEF ClaimsInv
<1>1. \A c \in Claims :
        /\ Ended(ended, status)[c].status = IF c \in ended THEN status ELSE claims[c].status
        /\ Ended(ended, status)[c].user =
             IF claims[c].user \in Dropped(ended) THEN Nobody ELSE claims[c].user
  BY <1>0 DEF Ended, ClaimRows
<1>2. /\ Ended(ended, status) \in [Claims -> ClaimRows]
      /\ Without(Dropped(ended)) \in [ManagedUsers -> UserStages]
  <2>1. \A row \in ClaimRows, st \in Reserving \cup {"none", "active", "expired", "revoked"},
           u \in ManagedUsers \cup {Nobody} : [row EXCEPT !.status = st, !.user = u] \in ClaimRows
    BY DEF ClaimRows
  <2>2. ASSUME NEW c \in Claims
        PROVE  [claims[c] EXCEPT !.status = IF c \in ended THEN status ELSE claims[c].status,
                                 !.user = IF claims[c].user \in Dropped(ended) THEN Nobody
                                          ELSE claims[c].user] \in ClaimRows
    <3>1. /\ (IF c \in ended THEN status ELSE claims[c].status)
               \in Reserving \cup {"none", "active", "expired", "revoked"}
          /\ (IF claims[c].user \in Dropped(ended) THEN Nobody ELSE claims[c].user)
               \in ManagedUsers \cup {Nobody}
      BY <1>0 DEF ClaimRows
    <3> QED BY <1>0, <2>1, <3>1
  <2>3. Ended(ended, status) \in [Claims -> ClaimRows]
    BY <2>2 DEF Ended
  <2> QED BY <1>0, <2>3 DEF Without, UserStages
<1>3. \A c \in ended :
        \/ claims[c].status = "pending" /\ claims[c].user = Nobody
        \/ /\ claims[c].status = "accepted" /\ claims[c].user \in ManagedUsers
           /\ users[claims[c].user] = "pending_approval"
  BY DEF ClaimsInv, TablesAgree, ClaimsAgree, Unapproved
<1>4. \A u \in ManagedUsers :
        u \in Dropped(ended) <=> \E c \in ended : claims[c].status = "accepted" /\ claims[c].user = u
  BY <1>3 DEF Dropped
<1>5. ASSUME NEW c \in Claims
      PROVE  (IF claims[c].user \in Dropped(ended) THEN Nobody ELSE claims[c].user)
               = (IF c \in ended THEN Nobody ELSE claims[c].user)
  <2>1. CASE c \in ended
    BY <1>3, <1>4, <2>1
  <2>2. CASE c \notin ended
    <3>1. SUFFICES ASSUME claims[c].user \in Dropped(ended) PROVE FALSE
      BY <2>2
    <3>2. claims[c].user \in ManagedUsers /\ users[claims[c].user] = "pending_approval"
      BY <3>1 DEF Dropped
    <3>3. claims[c].status = "accepted"
      BY <3>2 DEF ClaimsInv, TablesAgree, ClaimsAgree
    <3>4. PICK d \in ended : claims[d].status = "accepted"
      BY <1>4, <3>1, <3>2
    <3> QED BY <2>2, <3>3, <3>4 DEF ClaimsInv, TablesAgree, OneClaim, Open, Reserving
  <2> QED BY <2>1, <2>2
<1>6. \A u \in ManagedUsers :
        Without(Dropped(ended))[u] = IF u \in Dropped(ended) THEN "none" ELSE users[u]
  BY DEF Without
<1> QED BY <1>1, <1>2, <1>4, <1>5, <1>6

\* Ending claims keeps the tables in agreement.
LEMMA ClaimsEnd ==
    ASSUME ClaimsInv, NEW ended \in SUBSET Claims, NEW status \in {"expired", "revoked"},
           \A c \in ended : claims[c].status \in Unapproved,
           claims' = Ended(ended, status), users' = Without(Dropped(ended))
    PROVE  /\ claims' \in [Claims -> ClaimRows] /\ users' \in [ManagedUsers -> UserStages]
           /\ TablesAgree'
           /\ \A c \in Claims : claims[c].status \in Approved => claims'[c].status = claims[c].status
           /\ \A u \in ManagedUsers : users'[u] = "active" => users[u] = "active"
<1> USE ClaimsAssumption
<1>0. /\ claims' \in [Claims -> ClaimRows] /\ users' \in [ManagedUsers -> UserStages]
      /\ \A c \in Claims :
           /\ claims'[c].status = IF c \in ended THEN status ELSE claims[c].status
           /\ claims'[c].user = IF c \in ended THEN Nobody ELSE claims[c].user
      /\ \A u \in ManagedUsers :
           /\ users'[u] \in {"none", users[u]}
           /\ users'[u] # users[u] =>
                \E c \in ended : claims[c].status = "accepted" /\ claims[c].user = u
           /\ (\E c \in ended : claims[c].status = "accepted" /\ claims[c].user = u) =>
                users'[u] = "none"
  BY EndedRows
<1>1. OneClaim' /\ OneAccount' /\ NoneWaits'
  BY <1>0 DEF ClaimsInv, TablesAgree, OneClaim, OneAccount, NoneWaits, Open, Reserving, NameTaken
<1>2. ClaimsAgree'
  <2>1. \A c \in Claims \ ended, d \in ended :
          claims[c].status \in Reserving => claims[d].status # "accepted"
    BY DEF ClaimsInv, TablesAgree, OneClaim, Open, Reserving
  <2>2. \A c \in Claims \ ended : claims[c].status = "active" =>
          users[claims[c].user] # "pending_approval"
    BY DEF ClaimsInv, TablesAgree, ClaimsAgree
  <2>3. \A d \in ended : claims[d].status = "accepted" =>
          users[claims[d].user] = "pending_approval"
    BY DEF ClaimsInv, TablesAgree, ClaimsAgree
  <2>4. ASSUME NEW c \in Claims \ ended, claims[c].status \in Reserving \cup {"active"},
               claims[c].user \in ManagedUsers
        PROVE  users'[claims[c].user] = users[claims[c].user]
    <3>1. SUFFICES ASSUME NEW d \in ended, claims[d].status = "accepted",
                          claims[d].user = claims[c].user
                   PROVE  FALSE
      BY <1>0, <2>4
    <3> QED BY <2>1, <2>2, <2>3, <2>4, <3>1
  <2>5. ClaimsAgree
    BY DEF ClaimsInv, TablesAgree
  <2>6. ASSUME NEW c \in ended
        PROVE  claims'[c].status = status /\ claims'[c].user = Nobody
    BY <1>0
  <2>7. ASSUME NEW c \in Claims \ ended
        PROVE  claims'[c].status = claims[c].status /\ claims'[c].user = claims[c].user
    BY <1>0
  <2> QED BY <2>4, <2>5, <2>6, <2>7 DEF ClaimsAgree, Reserving
<1>3. StageAgrees'
  <2>1. SUFFICES ASSUME NEW u \in ManagedUsers, users'[u] # "none"
                 PROVE  \E c \in Claims :
                          /\ claims'[c].user = u
                          /\ CASE users'[u] = "pending_approval" -> claims'[c].status = "accepted"
                               [] users'[u] = "provisioning" ->
                                    claims'[c].status \in {"approved", "provisioning"}
                               [] users'[u] = "active" -> claims'[c].status = "active"
    BY DEF StageAgrees
  <2>2. users'[u] = users[u]
    BY <1>0, <2>1
  <2>3. PICK c \in Claims :
          /\ claims[c].user = u
          /\ CASE users[u] = "pending_approval" -> claims[c].status = "accepted"
               [] users[u] = "provisioning" -> claims[c].status \in {"approved", "provisioning"}
               [] users[u] = "active" -> claims[c].status = "active"
    BY <2>1, <2>2 DEF ClaimsInv, TablesAgree, StageAgrees
  <2>4. users[u] \in UserStages \ {"none"}
    BY <2>1, <2>2, ClaimsTypes DEF ClaimsInv
  <2>5. c \notin ended
    BY <1>0, <2>1, <2>3, <2>4 DEF Unapproved, UserStages
  <2> QED BY <1>0, <2>2, <2>3, <2>5
<1>4. \A c \in Claims : claims[c].status \in Approved => claims'[c].status = claims[c].status
  BY <1>0 DEF Approved, Unapproved
<1>5. \A u \in ManagedUsers : users'[u] = "active" => users[u] = "active"
  BY <1>0
<1> QED BY <1>0, <1>1, <1>2, <1>3, <1>4, <1>5 DEF TablesAgree

\* What a request holds stays as long as approved claims, members that were
\* active and the principal do.
LEMMA RunnersKeep ==
    ASSUME ClaimsInv,
           \A c \in Claims : claims[c].status \in Approved => claims'[c].status \in Approved,
           \A m \in Members : members[m].served => members'[m].served,
           principal # Nobody => principal' = principal,
           NEW s, SoundRunner(s)
    PROVE  SoundRunner(s)'
BY ClaimsAssumption DEF SoundRunner

\* An open account keeps its principal.
LEMMA LoginsKeep ==
    ASSUME ClaimsInv,
           \A u \in ManagedUsers : users'[u] = "active" => users[u] = "active",
           \A m \in Members : members[m].served => members'[m].served,
           principal # Nobody => principal' = principal
    PROVE  LoginFollowsMember'
BY ClaimsTypes DEF ClaimsInv, LoginFollowsMember

LEMMA RunnersSame ==
    ASSUME ClaimsInv, UNCHANGED runner,
           \A c \in Claims : claims[c].status \in Approved => claims'[c].status \in Approved,
           \A m \in Members : members[m].served => members'[m].served,
           principal # Nobody => principal' = principal
    PROVE  RunnersHold'
<1>1. SUFFICES ASSUME NEW r \in Runners, NEW s, s = runner[r] PROVE SoundRunner(s)'
  BY DEF RunnersHold, SoundRunner
<1>2. SoundRunner(s)
  BY <1>1 DEF ClaimsInv, RunnersHold, SoundRunner
<1> QED BY <1>2, RunnersKeep

LEMMA RunnerChanges ==
    ASSUME ClaimsInv, NEW r \in Runners, NEW s,
           \A x \in Runners : x # r => runner'[x] = runner[x], runner'[r] = s, SoundRunner(s)',
           \A c \in Claims : claims[c].status \in Approved => claims'[c].status \in Approved,
           \A m \in Members : members[m].served => members'[m].served,
           principal # Nobody => principal' = principal
    PROVE  RunnersHold'
<1>1. SUFFICES ASSUME NEW x \in Runners, NEW t, t = runner'[x] PROVE SoundRunner(t)'
  BY DEF RunnersHold, SoundRunner
<1>2. CASE x = r
  BY <1>1, <1>2
<1>3. CASE x # r
  <2>1. SoundRunner(t)
    BY <1>1, <1>3 DEF ClaimsInv, RunnersHold, SoundRunner
  <2> QED BY <2>1, RunnersKeep
<1> QED BY <1>2, <1>3

-----------------------------------------------------------------------------
(* The managed login name: each operation keeps the invariant.             *)

\* A claim replaces the one that was pending.
LEMMA CreateStep ==
    ASSUME ClaimsInv, NEW c \in Claims, CreateClaim(c)
    PROVE  ClaimsInv'
<1> USE ClaimsAssumption
<1>0. claims \in [Claims -> ClaimRows] /\ ClaimsTypeOK /\ users \in [ManagedUsers -> UserStages]
  BY ClaimsTypes DEF ClaimsInv
<1>1. PICK ended \in SUBSET Claims : ended = Expired(Claims)
  BY DEF Expired
<1>2. /\ \A d \in ended : claims[d].status \in Unapproved
      /\ \A d \in Open \ ended : claims[d].status = "pending"
      /\ claims[c].status = "none"
      /\ \A u \in ManagedUsers : users[u] # "none" => u \in Dropped(ended)
      /\ claims' = [[d \in Claims |-> IF d \in Open \ ended
                                      THEN [claims[d] EXCEPT !.status = "revoked"]
                                      ELSE Ended(ended, "expired")[d]]
                      EXCEPT ![c].status = "pending"]
      /\ users' = Without(Dropped(ended))
      /\ UNCHANGED <<members, principal, runner>>
  BY <1>1 DEF CreateClaim, Expired
<1>3. /\ Ended(ended, "expired") \in [Claims -> ClaimRows]
      /\ \A d \in Claims :
           /\ Ended(ended, "expired")[d].status = IF d \in ended THEN "expired" ELSE claims[d].status
           /\ Ended(ended, "expired")[d].user = IF d \in ended THEN Nobody ELSE claims[d].user
      /\ \A u \in ManagedUsers : users'[u] = "none"
      /\ users' \in [ManagedUsers -> UserStages]
  BY <1>2, EndedRows
<1>4. /\ claims' \in [Claims -> ClaimRows]
      /\ claims'[c].status = "pending" /\ claims'[c].user = claims[c].user
      /\ \A d \in Claims \ {c} :
           /\ claims'[d].status = IF d \in Open \ ended THEN "revoked"
                                  ELSE IF d \in ended THEN "expired" ELSE claims[d].status
           /\ claims'[d].user = IF d \in Open \ ended THEN claims[d].user
                                ELSE IF d \in ended THEN Nobody ELSE claims[d].user
  <2>1. c \notin Open /\ c \notin ended
    BY <1>2 DEF Open, Reserving, Unapproved
  <2>2. PICK E \in [Claims -> ClaimRows] : E = Ended(ended, "expired")
    BY <1>3
  <2> HIDE DEF Ended
  <2>3. PICK K \in [Claims -> ClaimRows] :
          K = [d \in Claims |-> IF d \in Open \ ended
                                THEN [claims[d] EXCEPT !.status = "revoked"] ELSE E[d]]
    <3>1. \A d \in Claims : [claims[d] EXCEPT !.status = "revoked"] \in ClaimRows
      BY <1>0 DEF ClaimRows
    <3> QED BY <3>1, <2>2
  <2>4. claims' = [K EXCEPT ![c].status = "pending"]
    BY <1>2, <2>2, <2>3
  <2>5. K[c] = E[c]
    BY <2>1, <2>3
  <2>6. \A d \in Claims : /\ d \in Open \ ended => K[d] = [claims[d] EXCEPT !.status = "revoked"]
                          /\ d \notin Open \ ended => K[d] = E[d]
    BY <2>3
  <2>7. /\ claims' \in [Claims -> ClaimRows]
        /\ claims'[c].status = "pending" /\ claims'[c].user = K[c].user
        /\ \A d \in Claims \ {c} : claims'[d] = K[d]
    <3>1. [K[c] EXCEPT !.status = "pending"] \in ClaimRows
      BY <2>3 DEF ClaimRows, Reserving
    <3> QED BY <2>3, <2>4, <3>1 DEF ClaimRows
  <2>8. claims'[c].user = claims[c].user
    BY <1>3, <2>1, <2>2, <2>5, <2>7
  <2>9. ASSUME NEW d \in Claims \ {c}
        PROVE  /\ claims'[d].status = IF d \in Open \ ended THEN "revoked"
                                      ELSE IF d \in ended THEN "expired" ELSE claims[d].status
               /\ claims'[d].user = IF d \in Open \ ended THEN claims[d].user
                                    ELSE IF d \in ended THEN Nobody ELSE claims[d].user
    <3>1. CASE d \in Open \ ended
      <4>1. claims'[d] = [claims[d] EXCEPT !.status = "revoked"]
        BY <2>6, <2>7, <3>1
      <4> QED BY <1>0, <3>1, <4>1 DEF ClaimRows
    <3>2. CASE d \notin Open \ ended
      <4>1. claims'[d] = E[d]
        BY <2>6, <2>7, <3>2
      <4> QED BY <1>3, <2>2, <3>2, <4>1
    <3> QED BY <3>1, <3>2
  <2> QED BY <2>7, <2>8, <2>9
<1>5. \A d \in Claims : claims[d].status \in Unapproved \cup {"none", "expired", "revoked"}
  <2>1. \A d \in Claims : claims[d].status \in {"approved", "provisioning", "active"} =>
          /\ claims[d].user \in ManagedUsers
          /\ users[claims[d].user] \notin {"none", "pending_approval"}
    BY DEF ClaimsInv, TablesAgree, ClaimsAgree
  <2>2. \A u \in ManagedUsers : users[u] \in {"none", "pending_approval"}
    BY <1>0, <1>2 DEF Dropped
  <2> QED BY <1>0, <2>1, <2>2 DEF ClaimRows, Reserving, Unapproved
<1>6. \A d \in Claims \ {c} : claims'[d].status \in {"none", "expired", "revoked"}
  BY <1>2, <1>4, <1>5 DEF Open, Reserving, Unapproved
<1>7. \A d \in Claims : claims'[d].user = Nobody
  <2>1. \A d \in Claims : claims[d].status # "accepted" => claims[d].user = Nobody
    BY <1>5 DEF ClaimsInv, TablesAgree, ClaimsAgree, Unapproved
  <2>2. \A d \in Claims : claims[d].status = "accepted" => d \in ended
    BY <1>2 DEF Open, Reserving
  <2> QED BY <1>2, <1>4, <2>1, <2>2
<1>8. TablesAgree'
  BY <1>3, <1>4, <1>6, <1>7
     DEF TablesAgree, OneClaim, OneAccount, NoneWaits, ClaimsAgree, StageAgrees, Open, Reserving, NameTaken
<1>9. RunnersHold' /\ LoginFollowsMember' /\ ActiveServed'
  <2>1. \A d \in Claims : claims[d].status \notin Approved
    BY <1>5 DEF Approved, Unapproved
  <2> QED BY <1>2, <1>3, <2>1, RunnersSame, LoginsKeep DEF ClaimsInv, ActiveServed
<1>10. ClaimsTypeOK'
  BY <1>0, <1>2, <1>3, <1>4, ClaimsTypes
     DEF ClaimsTypeOK, ClaimRows, UserStages, MemberRows, RunnerStates
<1> QED BY <1>8, <1>9, <1>10 DEF ClaimsInv

\* The other steps of the store alone.
LEMMA StoreStep ==
    ASSUME ClaimsInv, NEW c \in Claims,
           FallsDue(c) \/ ReadClaim(c) \/ AcceptClaim(c) \/ RevokeClaim(c)
    PROVE  ClaimsInv'
<1> USE ClaimsAssumption
<1>0. claims \in [Claims -> ClaimRows] /\ ClaimsTypeOK /\ users \in [ManagedUsers -> UserStages]
  BY ClaimsTypes DEF ClaimsInv
<1>1. UNCHANGED <<members, principal, runner>>
  BY DEF FallsDue, ReadClaim, AcceptClaim, RevokeClaim
<1>2. SUFFICES /\ claims' \in [Claims -> ClaimRows] /\ users' \in [ManagedUsers -> UserStages]
               /\ TablesAgree'
               /\ \A d \in Claims : claims[d].status \in Approved => claims'[d].status = claims[d].status
               /\ \A u \in ManagedUsers : users'[u] = "active" => users[u] = "active"
  <2>1. ClaimsTypeOK'
    BY <1>0, <1>1, <1>2, ClaimsTypes
       DEF ClaimsTypeOK, ClaimRows, UserStages, MemberRows, RunnerStates
  <2>2. RunnersHold' /\ LoginFollowsMember' /\ ActiveServed'
    BY <1>1, <1>2, RunnersSame, LoginsKeep DEF ClaimsInv, ActiveServed
  <2> QED BY <1>2, <2>1, <2>2 DEF ClaimsInv
<1>3. CASE FallsDue(c)
  <2>1. /\ claims' \in [Claims -> ClaimRows] /\ users' = users
        /\ \A d \in Claims : claims'[d].status = claims[d].status /\ claims'[d].user = claims[d].user
    <3>1. \A b \in BOOLEAN : [claims[c] EXCEPT !.due = b] \in ClaimRows
      BY <1>0 DEF ClaimRows
    <3>2. claims' = [claims EXCEPT ![c].due = TRUE] /\ users' = users /\ TRUE \in BOOLEAN
      BY <1>3 DEF FallsDue
    <3>3. [claims[c] EXCEPT !.due = TRUE] \in ClaimRows
      BY <3>1, <3>2
    <3> QED BY <1>0, <3>2, <3>3 DEF ClaimRows
  <2>2. TablesAgree'
    <3>1. OneClaim' /\ OneAccount' /\ NoneWaits'
      BY <2>1 DEF ClaimsInv, TablesAgree, OneClaim, OneAccount, NoneWaits, Open, NameTaken
    <3>2. ClaimsAgree'
      BY <2>1 DEF ClaimsInv, TablesAgree, ClaimsAgree
    <3>3. StageAgrees'
      <4>1. SUFFICES ASSUME NEW u \in ManagedUsers, users[u] # "none"
                     PROVE  \E d \in Claims :
                       /\ claims'[d].user = u
                       /\ CASE users[u] = "pending_approval" -> claims'[d].status = "accepted"
                            [] users[u] = "provisioning" ->
                                 claims'[d].status \in {"approved", "provisioning"}
                            [] users[u] = "active" -> claims'[d].status = "active"
        BY <2>1, ZenonT(60) DEF StageAgrees
      <4>2. PICK d \in Claims :
              /\ claims[d].user = u
              /\ CASE users[u] = "pending_approval" -> claims[d].status = "accepted"
                   [] users[u] = "provisioning" -> claims[d].status \in {"approved", "provisioning"}
                   [] users[u] = "active" -> claims[d].status = "active"
        BY <4>1 DEF ClaimsInv, TablesAgree, StageAgrees
      <4> QED BY <2>1, <4>2
    <3> QED BY <3>1, <3>2, <3>3 DEF TablesAgree
  <2> QED BY <1>0, <2>1, <2>2
<1>4. CASE ReadClaim(c)
  <2>1. PICK ended \in SUBSET Claims : ended = Expired({c})
    BY DEF Expired
  <2>2. /\ \A d \in ended : claims[d].status \in Unapproved
        /\ claims' = Ended(ended, "expired") /\ users' = Without(Dropped(ended))
    BY <1>4, <2>1 DEF ReadClaim, ExpireDue, Expired
  <2> QED BY <2>2, ClaimsEnd
<1>5. CASE RevokeClaim(c)
  <2>1. PICK ended \in SUBSET Claims : ended = {c}
    OBVIOUS
  <2>2. /\ \A d \in ended : claims[d].status \in Unapproved
        /\ claims' = Ended(ended, "revoked") /\ users' = Without(Dropped(ended))
    BY <1>5, <2>1 DEF RevokeClaim
  <2> QED BY <2>2, ClaimsEnd
<1>6. CASE AcceptClaim(c)
  <2>1. PICK u \in ManagedUsers :
          /\ users' = [users EXCEPT ![u] = "pending_approval"]
          /\ claims' = [claims EXCEPT ![c].status = "accepted", ![c].user = u]
    BY <1>6 DEF AcceptClaim
  <2>2. claims[c].status = "pending" /\ \A v \in ManagedUsers : users[v] = "none"
    BY <1>6 DEF AcceptClaim, NameTaken
  <2>3. /\ claims' \in [Claims -> ClaimRows] /\ users' \in [ManagedUsers -> UserStages]
        /\ claims'[c].status = "accepted" /\ claims'[c].user = u
        /\ \A d \in Claims \ {c} : claims'[d] = claims[d]
        /\ users'[u] = "pending_approval" /\ \A v \in ManagedUsers \ {u} : users'[v] = "none"
    BY <1>0, <2>1, <2>2 DEF ClaimRows, UserStages, Reserving
  <2>4. \A d \in Claims \ {c} : claims[d].status \notin Reserving \cup {"active"}
    <3>1. c \in Open
      BY <2>2 DEF Open, Reserving
    <3> QED BY <2>2, <3>1 DEF ClaimsInv, TablesAgree, OneClaim, Open, ClaimsAgree
  <2>5. TablesAgree'
    <3>1. OneClaim' /\ OneAccount' /\ NoneWaits'
      BY <2>3, <2>4 DEF OneClaim, OneAccount, NoneWaits, Open, Reserving
    <3>2. ClaimsAgree'
      BY <2>3, <2>4 DEF ClaimsInv, TablesAgree, ClaimsAgree, Reserving
    <3>3. StageAgrees'
      BY <2>3 DEF StageAgrees
    <3> QED BY <3>1, <3>2, <3>3 DEF TablesAgree
  <2> QED BY <2>2, <2>3, <2>5 DEF Approved
<1> QED BY <1>3, <1>4, <1>5, <1>6

\* The provisioning job and the administrator work on the members.
LEMMA MembersStep ==
    ASSUME ClaimsInv, NEW m \in Members,
           MemberActivated(m) \/ MemberSuspended(m) \/ MemberRemoved(m)
    PROVE  ClaimsInv'
<1> USE ClaimsAssumption
<1>0. members \in [Members -> MemberRows] /\ ClaimsTypeOK
  BY ClaimsTypes DEF ClaimsInv
<1>1. UNCHANGED <<claims, users, principal, runner>>
  BY DEF MemberActivated, MemberSuspended, MemberRemoved
<1>2. /\ members' \in [Members -> MemberRows]
      /\ \A x \in Members : members[x].served => members'[x].served
      /\ ActiveServed'
  <2>0. \A b \in BOOLEAN : [members[m] EXCEPT !.status = "active", !.served = b] \in MemberRows
    BY <1>0 DEF MemberRows
  <2>1. TRUE \in BOOLEAN
    OBVIOUS
  <2>2. [members[m] EXCEPT !.status = "active", !.served = TRUE] \in MemberRows
    BY <2>0, <2>1
  <2>3. CASE MemberActivated(m)
    BY <1>0, <2>2, <2>3 DEF MemberActivated, MemberRows, ClaimsInv, ActiveServed
  <2>4. CASE MemberSuspended(m)
    BY <1>0, <2>4 DEF MemberSuspended, MemberRows, ClaimsInv, ActiveServed
  <2>5. CASE MemberRemoved(m)
    BY <1>0, <2>5, ZenonT(60) DEF MemberRemoved, MemberRows, ClaimsInv, ActiveServed
  <2> QED BY <2>3, <2>4, <2>5
<1>3. TablesAgree'
  BY <1>1, TablesSame DEF ClaimsInv
<1>4. RunnersHold' /\ LoginFollowsMember'
  BY <1>1, <1>2, RunnersSame, LoginsKeep
<1>5. ClaimsTypeOK'
  BY <1>0, <1>1, <1>2, ClaimsTypes DEF ClaimsTypeOK, MemberRows
<1> QED BY <1>2, <1>3, <1>4, <1>5 DEF ClaimsInv

\* A request goes on and leaves the tables of the store as they are.
LEMMA RunnerMoves ==
    ASSUME ClaimsInv, NEW r \in Runners, NEW s \in RunnerStates,
           runner' = [runner EXCEPT ![r] = s], SoundRunner(s)',
           UNCHANGED <<claims, users>>,
           members' \in [Members -> MemberRows], ActiveServed',
           \A m \in Members : members[m].served => members'[m].served,
           principal' \in Members \cup {Nobody}, principal # Nobody => principal' = principal
    PROVE  ClaimsInv'
<1>0. runner \in [Runners -> RunnerStates] /\ ClaimsTypeOK
  BY ClaimsTypes DEF ClaimsInv
<1>1. /\ runner' \in [Runners -> RunnerStates] /\ runner'[r] = s
      /\ \A x \in Runners : x # r => runner'[x] = runner[x]
  BY <1>0
<1>2. TablesAgree'
  BY TablesSame DEF ClaimsInv
<1>3. RunnersHold' /\ LoginFollowsMember'
  BY <1>1, RunnerChanges, LoginsKeep
<1>4. ClaimsTypeOK'
  BY <1>0, <1>1, ClaimsTypes DEF ClaimsTypeOK, MemberRows, RunnerStates
<1> QED BY <1>2, <1>3, <1>4 DEF ClaimsInv

LEMMA RestingSound == Resting \in RunnerStates /\ SoundRunner(Resting) /\ SoundRunner(Resting)'
<1>1. FALSE \in BOOLEAN
  OBVIOUS
<1>2. Resting \in RunnerStates
  BY <1>1 DEF Resting, RunnerStates
<1> QED BY <1>2 DEF Resting, SoundRunner

\* Binding the principal, or finding it bound.
LEMMA LinkingStep ==
    ASSUME ClaimsInv, NEW r \in Runners,
           \/ ApprovalFails(r) \/ RoundFails(r) \/ LinkApproved(r) \/ LinkResolved(r)
    PROVE  ClaimsInv'
<1> USE ClaimsAssumption
<1>0. /\ runner \in [Runners -> RunnerStates] /\ members \in [Members -> MemberRows]
      /\ principal \in Members \cup {Nobody} /\ ActiveServed
  BY ClaimsTypes DEF ClaimsInv
<1>1. UNCHANGED <<claims, users, members>>
  BY DEF ApprovalFails, RoundFails, LinkApproved, LinkResolved
<1>2. CASE RunnerLeaves(r) /\ UNCHANGED principal
  BY <1>0, <1>1, <1>2, RestingSound, RunnerMoves DEF RunnerLeaves, ActiveServed
<1>3. ASSUME NEW pc \in {"marking", "opening"}, RunnerGoes(r, pc), principal' = runner[r].member,
             Linkable(runner[r].member), RunnerAt(r, IF pc = "marking" THEN "linking" ELSE "binding")
      PROVE  ClaimsInv'
  <2>1. PICK s : s = [runner[r] EXCEPT !.pc = pc]
    OBVIOUS
  <2>2. /\ s \in RunnerStates /\ s.pc = pc /\ s.claim = runner[r].claim
        /\ s.member = runner[r].member /\ s.ready = runner[r].ready
        /\ runner' = [runner EXCEPT ![r] = s]
    BY <1>0, <1>3, <2>1 DEF RunnerStates, RunnerGoes
  <2>3. runner[r].member \in Members /\ SoundRunner(s)'
    BY <1>1, <1>3, <2>2 DEF ClaimsInv, RunnersHold, SoundRunner, RunnerAt
  <2>4. principal # Nobody => principal' = principal
    BY <1>3 DEF Linkable
  <2> QED BY <1>0, <1>1, <1>3, <2>2, <2>3, <2>4, RunnerMoves DEF ActiveServed
<1> QED BY <1>2, <1>3 DEF ApprovalFails, RoundFails, LinkApproved, LinkResolved

\* The claim that is under way and its account go on to the next stage together.
LEMMA StageChanges ==
    ASSUME ClaimsInv, NEW c \in Claims, NEW u, u = claims[c].user,
           claims[c].status \in {"accepted", "approved", "provisioning"},
           NEW status \in Approved, NEW stage \in {"provisioning", "active"},
           status = "active" <=> stage = "active",
           claims' = [claims EXCEPT ![c].status = status], users' = [users EXCEPT ![u] = stage]
    PROVE  /\ claims' \in [Claims -> ClaimRows] /\ users' \in [ManagedUsers -> UserStages]
           /\ TablesAgree' /\ u \in ManagedUsers
           /\ \A d \in Claims : claims[d].status \in Approved => claims'[d].status \in Approved
           /\ \A v \in ManagedUsers : v # u => users'[v] = "none"
<1> USE ClaimsAssumption
<1>0. claims \in [Claims -> ClaimRows] /\ users \in [ManagedUsers -> UserStages]
  BY ClaimsTypes DEF ClaimsInv
<1>1. u \in ManagedUsers /\ users[u] \in {"pending_approval", "provisioning"}
  BY DEF ClaimsInv, TablesAgree, ClaimsAgree
<1>2. /\ claims' \in [Claims -> ClaimRows] /\ users' \in [ManagedUsers -> UserStages]
      /\ claims'[c].status = status /\ claims'[c].user = u
      /\ \A d \in Claims : d # c => claims'[d] = claims[d]
      /\ users'[u] = stage /\ \A v \in ManagedUsers : v # u => users'[v] = users[v]
  BY <1>0, <1>1 DEF ClaimRows, UserStages, Approved, Reserving
<1>3. \A v \in ManagedUsers : v # u => users[v] = "none"
  BY <1>0, <1>1 DEF ClaimsInv, TablesAgree, OneAccount
<1>4. \A d \in Claims : d # c => claims[d].status \notin Reserving \cup {"active"}
  <2>1. c \in Open /\ \A d \in Open : d = c
    BY DEF ClaimsInv, TablesAgree, OneClaim, Open, Reserving
  <2>2. \A d \in Claims : claims[d].status = "active" => users[claims[d].user] = "active"
                                                         /\ claims[d].user \in ManagedUsers
    BY DEF ClaimsInv, TablesAgree, ClaimsAgree
  <2> QED BY <1>1, <1>3, <2>1, <2>2 DEF Open
<1>5. OneClaim' /\ OneAccount' /\ NoneWaits'
  BY <1>2, <1>3, <1>4 DEF OneClaim, OneAccount, NoneWaits, Open, Approved, Reserving
<1>6. ClaimsAgree'
  BY <1>1, <1>2, <1>4 DEF ClaimsInv, TablesAgree, ClaimsAgree, Approved, Reserving
<1>7. StageAgrees'
  BY <1>1, <1>2, <1>3 DEF StageAgrees, Approved
<1>8. \A d \in Claims : claims[d].status \in Approved => claims'[d].status \in Approved
  BY <1>2
<1> QED BY <1>1, <1>2, <1>3, <1>5, <1>6, <1>7, <1>8 DEF TablesAgree

LEMMA ClaimMarked ==
    ASSUME ClaimsInv, NEW c \in Claims, claims[c].status \in Approved,
           claims' = Marked(c), UNCHANGED users
    PROVE  /\ claims' \in [Claims -> ClaimRows] /\ TablesAgree'
           /\ \A d \in Claims : claims[d].status \in Approved => claims'[d].status \in Approved
<1>0. claims \in [Claims -> ClaimRows] /\ users \in [ManagedUsers -> UserStages] /\ TablesAgree
  BY ClaimsTypes DEF ClaimsInv
<1>1. CASE claims[c].status = "active"
  <2>1. UNCHANGED <<claims, users>>
    BY <1>1 DEF Marked
  <2>2. TablesAgree'
    BY <1>0, <2>1, TablesSame
  <2> QED BY <1>0, <2>1, <2>2
<1>2. CASE claims[c].status # "active"
  <2>1. PICK u : u = claims[c].user
    OBVIOUS
  <2>2. claims[c].status \in {"approved", "provisioning"}
    BY <1>2 DEF Approved
  <2>3. users[u] = "provisioning" /\ u \in ManagedUsers
    BY <2>1, <2>2 DEF ClaimsInv, TablesAgree, ClaimsAgree
  <2>4. users' = [users EXCEPT ![u] = "provisioning"]
    BY <1>0, <2>3
  <2>5. claims' = [claims EXCEPT ![c].status = "provisioning"]
    BY <1>2 DEF Marked
  <2> QED BY <2>1, <2>2, <2>4, <2>5, StageChanges DEF Approved
<1> QED BY <1>1, <1>2

\* Finding the member of the account, or creating it.
LEMMA MemberEnsured ==
    ASSUME ClaimsInv, NEW u \in ManagedUsers \cup {Nobody}, NEW m \in Members, EnsuresMember(u, m)
    PROVE  /\ members' \in [Members -> MemberRows] /\ ActiveServed'
           /\ \A x \in Members : members[x].served => members'[x].served
           /\ members[m].status = "active" => members'[m].served
<1>0. members \in [Members -> MemberRows] /\ ActiveServed
  BY ClaimsTypes DEF ClaimsInv
<1>1. CASE MembersOf(u) # {}
  BY <1>0, <1>1 DEF EnsuresMember, ActiveServed
<1>2. CASE MembersOf(u) = {}
  <2>1. /\ members' = [members EXCEPT ![m].status = "invited", ![m].user = u]
        /\ members[m].status = "none"
    BY <1>2 DEF EnsuresMember
  <2>2. [members[m] EXCEPT !.status = "invited", !.user = u] \in MemberRows
    BY <1>0 DEF MemberRows
  <2> QED BY <1>0, <2>1, <2>2 DEF MemberRows, ActiveServed
<1> QED BY <1>1, <1>2

LEMMA MemberStep ==
    ASSUME ClaimsInv, NEW r \in Runners, NEW m \in Members, EnsureMember(r, m) \/ CreateResumed(r, m)
    PROVE  ClaimsInv'
<1> USE ClaimsAssumption
<1>0. /\ runner \in [Runners -> RunnerStates] /\ principal \in Members \cup {Nobody}
      /\ UNCHANGED <<claims, users, principal>>
  BY ClaimsTypes DEF ClaimsInv, EnsureMember, CreateResumed
<1>1. PICK u : u = runner[r].user
  OBVIOUS
<1>2. EnsuresMember(u, m) /\ u \in ManagedUsers \cup {Nobody}
  BY <1>0, <1>1 DEF EnsureMember, CreateResumed, RunnerStates
<1>3. /\ members' \in [Members -> MemberRows] /\ ActiveServed'
      /\ \A x \in Members : members[x].served => members'[x].served
      /\ members[m].status = "active" => members'[m].served
  BY <1>2, MemberEnsured
<1>4. PICK s \in RunnerStates :
        /\ runner' = [runner EXCEPT ![r] = s] /\ s.pc \in {"linking", "resolved"}
        /\ s.claim = runner[r].claim /\ s.member = m
        /\ s.pc = "resolved" /\ s.ready => members[m].status = "active"
  <2>1. CASE EnsureMember(r, m)
    <3>1. PICK t : t = [runner[r] EXCEPT !.pc = "linking", !.member = m]
      OBVIOUS
    <3>2. t \in RunnerStates /\ t.pc = "linking" /\ t.claim = runner[r].claim /\ t.member = m
      BY <1>0, <3>1 DEF RunnerStates
    <3>3. runner' = [runner EXCEPT ![r] = t]
      BY <2>1, <3>1 DEF EnsureMember
    <3> QED BY <3>2, <3>3
  <2>2. CASE CreateResumed(r, m)
    <3>1. PICK b \in BOOLEAN : b = (members[m].status = "active")
      OBVIOUS
    <3>2. PICK t : t = [runner[r] EXCEPT !.pc = "resolved", !.member = m, !.ready = b]
      OBVIOUS
    <3>3. /\ t \in RunnerStates /\ t.pc = "resolved" /\ t.claim = runner[r].claim /\ t.member = m
          /\ t.ready = b
      BY <1>0, <3>2 DEF RunnerStates
    <3>4. runner' = [runner EXCEPT ![r] = t]
      BY <2>2, <3>1, <3>2 DEF CreateResumed
    <3> QED BY <3>1, <3>3, <3>4
  <2> QED BY <2>1, <2>2
<1>7. runner[r].claim \in Claims /\ claims[runner[r].claim].status \in Approved
  BY DEF ClaimsInv, RunnersHold, SoundRunner, EnsureMember, CreateResumed, RunnerAt
<1>8. SoundRunner(s)'
  BY <1>0, <1>3, <1>4, <1>7 DEF SoundRunner
<1> QED BY <1>0, <1>3, <1>4, <1>8, RunnerMoves

\* The reconciliation reads the member.
LEMMA ResolveStep ==
    ASSUME ClaimsInv, NEW r \in Runners, ResolveMember(r)
    PROVE  ClaimsInv'
<1> USE ClaimsAssumption
<1>0. /\ runner \in [Runners -> RunnerStates] /\ members \in [Members -> MemberRows]
      /\ principal \in Members \cup {Nobody} /\ ActiveServed
      /\ UNCHANGED <<claims, users, members, principal>>
      /\ runner[r].claim \in Claims /\ claims[runner[r].claim].status \in Approved
  BY ClaimsTypes DEF ClaimsInv, ResolveMember, RunnersHold, SoundRunner, RunnerAt
<1>1. CASE RunnerLeaves(r)
  BY <1>0, <1>1, RestingSound, RunnerMoves DEF RunnerLeaves, ActiveServed
<1>2. CASE RunnerGoes(r, "creating")
  <2>1. PICK s : s = [runner[r] EXCEPT !.pc = "creating"]
    OBVIOUS
  <2>2. /\ s \in RunnerStates /\ s.pc = "creating" /\ s.claim = runner[r].claim
        /\ runner' = [runner EXCEPT ![r] = s]
    BY <1>0, <1>2, <2>1 DEF RunnerStates, RunnerGoes
  <2>3. SoundRunner(s)'
    BY <1>0, <2>2 DEF SoundRunner
  <2> QED BY <1>0, <2>2, <2>3, RunnerMoves DEF ActiveServed
<1>3. ASSUME NEW m \in Members, NEW b \in BOOLEAN, b <=> members[m].status = "active",
             runner' = [runner EXCEPT ![r] =
                         [runner[r] EXCEPT !.pc = "resolved", !.member = m, !.ready = b]]
      PROVE  ClaimsInv'
  <2>1. PICK s : s = [runner[r] EXCEPT !.pc = "resolved", !.member = m, !.ready = b]
    OBVIOUS
  <2>2. /\ s \in RunnerStates /\ s.pc = "resolved" /\ s.claim = runner[r].claim /\ s.member = m
        /\ (s.ready <=> b) /\ runner' = [runner EXCEPT ![r] = s]
    BY <1>0, <1>3, <2>1, ZenonT(60) DEF RunnerStates
  <2>3. SoundRunner(s)'
    BY <1>0, <1>3, <2>2 DEF SoundRunner, ActiveServed
  <2> QED BY <1>0, <2>2, <2>3, RunnerMoves DEF ActiveServed
<1>4. CASE \E m \in MembersOf(runner[r].user) :
             runner' = [runner EXCEPT ![r].pc = "resolved", ![r].member = m,
                                      ![r].ready = members[m].status = "active"]
  <2>1. PICK m \in Members :
          runner' = [runner EXCEPT ![r].pc = "resolved", ![r].member = m,
                                   ![r].ready = members[m].status = "active"]
    BY <1>4 DEF MembersOf
  <2>2. PICK b \in BOOLEAN : b = (members[m].status = "active")
    OBVIOUS
  <2> QED BY <1>3, <2>1, <2>2
<1> QED BY <1>1, <1>2, <1>4 DEF ResolveMember

\* A request that changed the tables with a change that keeps them in agreement.
LEMMA TablesMove ==
    ASSUME ClaimsInv, NEW r \in Runners, NEW s \in RunnerStates,
           runner' = [runner EXCEPT ![r] = s], SoundRunner(s)',
           claims' \in [Claims -> ClaimRows], users' \in [ManagedUsers -> UserStages], TablesAgree',
           \A c \in Claims : claims[c].status \in Approved => claims'[c].status \in Approved,
           UNCHANGED <<members, principal>>, LoginFollowsMember'
    PROVE  ClaimsInv'
<1>0. runner \in [Runners -> RunnerStates] /\ ClaimsTypeOK
  BY ClaimsTypes DEF ClaimsInv
<1>1. /\ runner' \in [Runners -> RunnerStates] /\ runner'[r] = s
      /\ \A x \in Runners : x # r => runner'[x] = runner[x]
  BY <1>0
<1>2. RunnersHold' /\ ActiveServed'
  BY <1>1, RunnerChanges DEF ClaimsInv, ActiveServed
<1>3. ClaimsTypeOK'
  BY <1>0, <1>1, ClaimsTypes
     DEF ClaimsTypeOK, ClaimRows, UserStages, MemberRows, RunnerStates
<1> QED BY <1>2, <1>3 DEF ClaimsInv

\* The claim of a member that exists is marked as provisioning.
LEMMA MarkStep ==
    ASSUME ClaimsInv, NEW r \in Runners, MarkApproved(r) \/ MarkResolved(r)
    PROVE  ClaimsInv'
<1> USE ClaimsAssumption
<1>0. /\ runner \in [Runners -> RunnerStates] /\ UNCHANGED <<users, members, principal>>
      /\ users \in [ManagedUsers -> UserStages] /\ claims \in [Claims -> ClaimRows]
  BY ClaimsTypes DEF ClaimsInv, MarkApproved, MarkResolved
<1>1. PICK c \in Claims : c = runner[r].claim /\ claims[c].status \in Approved
  BY DEF ClaimsInv, RunnersHold, SoundRunner, MarkApproved, MarkResolved, RunnerAt
<1>2. claims' = claims \/ claims' = Marked(c)
  BY <1>1 DEF MarkApproved, MarkResolved
<1>3. /\ claims' \in [Claims -> ClaimRows] /\ TablesAgree'
      /\ \A d \in Claims : claims[d].status \in Approved => claims'[d].status \in Approved
  <2>1. CASE claims' = claims
    <3>1. TablesAgree'
      BY <1>0, <2>1, TablesSame DEF ClaimsInv
    <3> QED BY <1>0, <2>1, <3>1
  <2>2. CASE claims' = Marked(c)
    BY <1>0, <1>1, <2>2, ClaimMarked
  <2> QED BY <1>2, <2>1, <2>2
<1>4. LoginFollowsMember'
  BY <1>0, LoginsKeep
<1>5. CASE RunnerLeaves(r)
  BY <1>0, <1>3, <1>4, <1>5, RestingSound, TablesMove DEF RunnerLeaves
<1>6. CASE RunnerGoes(r, "binding") /\ runner[r].ready /\ RunnerAt(r, "resolved")
  <2>1. PICK s : s = [runner[r] EXCEPT !.pc = "binding"]
    OBVIOUS
  <2>2. /\ s \in RunnerStates /\ s.pc = "binding" /\ s.claim = runner[r].claim
        /\ s.member = runner[r].member /\ s.ready = runner[r].ready
        /\ runner' = [runner EXCEPT ![r] = s]
    BY <1>0, <1>6, <2>1, ZenonT(60) DEF RunnerStates, RunnerGoes
  <2>3. SoundRunner(s)'
    BY <1>0, <1>1, <1>3, <1>6, <2>2 DEF ClaimsInv, RunnersHold, SoundRunner, RunnerAt
  <2> QED BY <1>0, <1>3, <1>4, <2>2, <2>3, TablesMove
<1> QED BY <1>5, <1>6 DEF MarkApproved, MarkResolved

\* An approval starts, or finds the claim due.
LEMMA ApproveStep ==
    ASSUME ClaimsInv, NEW r \in Runners, NEW c \in Claims, Approve(r, c)
    PROVE  ClaimsInv'
<1> USE ClaimsAssumption
<1>0. /\ runner \in [Runners -> RunnerStates] /\ UNCHANGED <<members, principal>>
      /\ users \in [ManagedUsers -> UserStages] /\ claims \in [Claims -> ClaimRows]
      /\ ClaimsTypeOK
  BY ClaimsTypes DEF ClaimsInv, Approve
<1>1. CASE Expired({c}) # {}
  <2>1. PICK ended \in SUBSET Claims : ended = Expired({c})
    BY DEF Expired
  <2>2. /\ \A d \in ended : claims[d].status \in Unapproved
        /\ claims' = Ended(ended, "expired") /\ users' = Without(Dropped(ended))
        /\ UNCHANGED runner
    BY <1>1, <2>1 DEF Approve, ExpireDue, Expired
  <2>3. /\ claims' \in [Claims -> ClaimRows] /\ users' \in [ManagedUsers -> UserStages]
        /\ TablesAgree'
        /\ \A d \in Claims : claims[d].status \in Approved => claims'[d].status = claims[d].status
        /\ \A u \in ManagedUsers : users'[u] = "active" => users[u] = "active"
    BY <2>2, ClaimsEnd
  <2>4. RunnersHold' /\ LoginFollowsMember' /\ ActiveServed'
    BY <1>0, <2>2, <2>3, RunnersSame, LoginsKeep DEF ClaimsInv, ActiveServed
  <2>5. ClaimsTypeOK'
    BY <1>0, <2>2, <2>3, ClaimsTypes
       DEF ClaimsTypeOK, ClaimRows, UserStages, MemberRows, RunnerStates
  <2> QED BY <2>3, <2>4, <2>5 DEF ClaimsInv
<1>2. CASE Expired({c}) = {}
  <2>1. PICK u : u = claims[c].user
    OBVIOUS
  <2>2. PICK s : s = [Resting EXCEPT !.pc = "member", !.claim = c, !.user = u]
    OBVIOUS
  <2>3. u \in ManagedUsers \cup {Nobody}
    BY <1>0, <2>1 DEF ClaimRows
  <2>4. s \in RunnerStates /\ s.pc = "member" /\ s.claim = c
    <3>1. FALSE \in BOOLEAN
      OBVIOUS
    <3> QED BY <2>2, <2>3, <3>1 DEF Resting, RunnerStates
  <2>5. runner' = [runner EXCEPT ![r] = s]
    BY <1>2, <2>1, <2>2 DEF Approve
  <2>6. CASE claims[c].status = "accepted"
    <3>1. /\ claims' = [claims EXCEPT ![c].status = "approved"]
          /\ users' = [users EXCEPT ![u] = "provisioning"]
      BY <1>2, <2>1, <2>6 DEF Approve
    <3>2. "approved" \in Approved
      BY DEF Approved
    <3>3. /\ claims' \in [Claims -> ClaimRows] /\ users' \in [ManagedUsers -> UserStages]
          /\ TablesAgree' /\ u \in ManagedUsers
          /\ \A d \in Claims : claims[d].status \in Approved => claims'[d].status \in Approved
          /\ \A v \in ManagedUsers : v # u => users'[v] = "none"
      BY <2>1, <2>6, <3>1, <3>2, StageChanges
    <3>4. LoginFollowsMember'
      BY <1>0, <3>1, LoginsKeep
    <3>5. SoundRunner(s)'
      BY <1>0, <2>4, <3>1 DEF SoundRunner, Approved, ClaimRows
    <3> QED BY <1>0, <2>4, <2>5, <3>3, <3>4, <3>5, TablesMove
  <2>7. CASE claims[c].status # "accepted"
    <3>1. UNCHANGED <<claims, users>> /\ claims[c].status \in Approved
      BY <1>2, <2>7 DEF Approve, Approved
    <3>2. SoundRunner(s)'
      BY <2>4, <3>1 DEF SoundRunner
    <3>3. ActiveServed' /\ members \in [Members -> MemberRows] /\ principal \in Members \cup {Nobody}
      BY <1>0, ClaimsTypes DEF ClaimsInv, ActiveServed
    <3> QED BY <1>0, <2>4, <2>5, <3>1, <3>2, <3>3, RunnerMoves
  <2> QED BY <2>6, <2>7
<1> QED BY <1>1, <1>2

\* A reconciliation starts with a claim under way.
LEMMA ListStep ==
    ASSUME ClaimsInv, NEW r \in Runners, ListClaims(r)
    PROVE  ClaimsInv'
<1> USE ClaimsAssumption
<1>0. /\ runner \in [Runners -> RunnerStates] /\ UNCHANGED <<members, principal>>
      /\ claims \in [Claims -> ClaimRows]
  BY ClaimsTypes DEF ClaimsInv, ListClaims
<1>1. PICK c \in Claims :
        /\ claims[c].status \in {"approved", "provisioning"}
        /\ runner' = [runner EXCEPT ![r] =
             [Resting EXCEPT !.pc = "resolving", !.claim = c, !.user = claims[c].user,
                             !.stage = claims[c].status]]
  BY DEF ListClaims
<1>2. PICK s : s = [Resting EXCEPT !.pc = "resolving", !.claim = c, !.user = claims[c].user,
                                   !.stage = claims[c].status]
  OBVIOUS
<1>3. s \in RunnerStates /\ s.pc = "resolving" /\ s.claim = c
  <2>1. FALSE \in BOOLEAN /\ claims[c].user \in ManagedUsers \cup {Nobody}
    BY <1>0 DEF ClaimRows
  <2> QED BY <1>1, <1>2, <2>1 DEF Resting, RunnerStates
<1>4. runner' = [runner EXCEPT ![r] = s]
  BY <1>1, <1>2
<1>5. PICK ended \in SUBSET Claims : ended = Expired(Claims)
  BY DEF Expired
<1>6. /\ \A d \in ended : claims[d].status \in Unapproved
      /\ claims' = Ended(ended, "expired") /\ users' = Without(Dropped(ended))
  BY <1>5 DEF ListClaims, ExpireDue, Expired
<1>7. /\ claims' \in [Claims -> ClaimRows] /\ users' \in [ManagedUsers -> UserStages]
      /\ TablesAgree'
      /\ \A d \in Claims : claims[d].status \in Approved => claims'[d].status = claims[d].status
      /\ \A u \in ManagedUsers : users'[u] = "active" => users[u] = "active"
  BY <1>6, ClaimsEnd
<1>8. SoundRunner(s)' /\ LoginFollowsMember'
  BY <1>0, <1>1, <1>3, <1>7, LoginsKeep DEF SoundRunner, Approved
<1> QED BY <1>0, <1>3, <1>4, <1>7, <1>8, TablesMove

\* The login opens.
LEMMA ActivateStep ==
    ASSUME ClaimsInv, NEW r \in Runners, ActivateClaim(r)
    PROVE  ClaimsInv'
<1> USE ClaimsAssumption
<1>0. /\ runner \in [Runners -> RunnerStates] /\ UNCHANGED <<members, principal>>
      /\ users \in [ManagedUsers -> UserStages] /\ claims \in [Claims -> ClaimRows]
      /\ members \in [Members -> MemberRows] /\ principal \in Members \cup {Nobody}
      /\ runner' = [runner EXCEPT ![r] = Resting]
  BY ClaimsTypes DEF ClaimsInv, ActivateClaim, RunnerLeaves
<1>1. /\ principal \in Members /\ members[principal].served
      /\ runner[r].claim \in Claims
  BY DEF ActivateClaim, RunnerAt, ClaimsInv, RunnersHold, SoundRunner
<1>2. LoginFollowsMember'
  BY <1>0, <1>1 DEF LoginFollowsMember
<1>6. PICK c \in Claims : c = runner[r].claim
  BY <1>1
<1>3. PICK u : c = runner[r].claim /\ u = claims[c].user
  BY <1>6
<1>4. CASE claims[c].status = "provisioning" /\ users[u] = "provisioning"
  <2>1. /\ claims' = [claims EXCEPT ![c].status = "active"]
        /\ users' = [users EXCEPT ![u] = "active"]
    BY <1>3, <1>4 DEF ActivateClaim
  <2>2. "active" \in Approved
    BY DEF Approved
  <2>3. /\ claims' \in [Claims -> ClaimRows] /\ users' \in [ManagedUsers -> UserStages]
        /\ TablesAgree'
        /\ \A d \in Claims : claims[d].status \in Approved => claims'[d].status \in Approved
    BY <1>3, <1>4, <2>1, <2>2, StageChanges
  <2> QED BY <1>0, <1>2, <2>3, RestingSound, TablesMove
<1>5. CASE ~(claims[c].status = "provisioning" /\ users[u] = "provisioning")
  <2>1. UNCHANGED <<claims, users>> /\ ActiveServed'
    BY <1>0, <1>3, <1>5 DEF ActivateClaim, ClaimsInv, ActiveServed
  <2> QED BY <1>0, <2>1, RestingSound, RunnerMoves
<1> QED BY <1>4, <1>5

-----------------------------------------------------------------------------
(* The managed login name: theorems.                                       *)

LEMMA ClaimsStart == ClaimsInit => ClaimsInv
<1> SUFFICES ASSUME ClaimsInit PROVE ClaimsInv
  OBVIOUS
<1> USE ClaimsAssumption
<1>0. FALSE \in BOOLEAN
  OBVIOUS
<1>1. ClaimsTypeOK
  <2>1. claims \in [Claims -> ClaimRows]
    BY <1>0 DEF ClaimsInit, ClaimRows
  <2>2. members \in [Members -> MemberRows]
    BY <1>0 DEF ClaimsInit, MemberRows
  <2> QED BY <2>1, <2>2, RestingSound, ClaimsTypes DEF ClaimsInit, UserStages
<1>2. TablesAgree
  BY DEF ClaimsInit, TablesAgree, OneClaim, OneAccount, NoneWaits, ClaimsAgree, StageAgrees,
         Open, NameTaken, Reserving
<1>3. ActiveServed /\ LoginFollowsMember
  BY DEF ClaimsInit, ActiveServed, LoginFollowsMember
<1>4. RunnersHold
  BY DEF ClaimsInit, RunnersHold, SoundRunner, Resting
<1> QED BY <1>1, <1>2, <1>3, <1>4 DEF ClaimsInv

LEMMA ClaimsStep == ClaimsInv /\ [ClaimsNext]_claimVars => ClaimsInv'
<1> SUFFICES ASSUME ClaimsInv, [ClaimsNext]_claimVars PROVE ClaimsInv'
  OBVIOUS
<1>1. CASE UNCHANGED claimVars
  <2>1. ClaimsTypeOK' /\ ActiveServed' /\ LoginFollowsMember'
    BY <1>1 DEF claimVars, ClaimsInv, ClaimsTypeOK, ActiveServed, LoginFollowsMember
  <2>2. TablesAgree'
    BY <1>1, TablesSame DEF claimVars, ClaimsInv
  <2>3. RunnersHold'
    BY <1>1, RunnersSame DEF claimVars
  <2> QED BY <2>1, <2>2, <2>3 DEF ClaimsInv
<1>2. CASE ClaimsNext
  BY <1>2, CreateStep, StoreStep, MembersStep, LinkingStep, MemberStep, ResolveStep, MarkStep,
     ApproveStep, ListStep, ActivateStep DEF ClaimsNext
<1> QED BY <1>1, <1>2

\* The claims, accounts and members keep their shape and agree with each other.
THEOREM ClaimsInvariant == ClaimsSpec => []ClaimsInv
<1> QED BY ClaimsStart, ClaimsStep, PTL DEF ClaimsSpec

\* A set whose members are all the same has at most one.
LEMMA AtMostOne ==
    ASSUME NEW S, \A x, y \in S : x = y
    PROVE  IsFiniteSet(S) /\ Cardinality(S) <= 1
<1>1. CASE S = {}
  BY <1>1, FS_EmptySet
<1>2. CASE S # {}
  <2>1. PICK x : S = {x}
    BY <1>2
  <2>2. IsFiniteSet(S) /\ Cardinality(S) = 1
    BY <2>1, FS_Singleton
  <2> QED BY <2>2
<1> QED BY <1>1, <1>2

\* A name is reserved once, an account and its claim are at the same stage, and
\* a login opens only for a principal whose member was active.
THEOREM ClaimsSound == ClaimsSpec => []ClaimsAreSound
<1>1. ClaimsInv => ClaimsAreSound
  <2>1. SUFFICES ASSUME ClaimsInv PROVE ClaimsAreSound
    OBVIOUS
  <2>2. Cardinality(Open) <= 1
    <3>1. PICK S : S = Open
      OBVIOUS
    <3> QED BY <2>1, <3>1, AtMostOne DEF ClaimsInv, TablesAgree, OneClaim
  <2>3. Cardinality({u \in ManagedUsers : users[u] # "none"}) <= 1
    <3>1. PICK S : S = {u \in ManagedUsers : users[u] # "none"}
      OBVIOUS
    <3> QED BY <2>1, <3>1, AtMostOne DEF ClaimsInv, TablesAgree, OneAccount
  <2> QED BY <2>1, <2>2, <2>3
          DEF ClaimsInv, TablesAgree, ClaimsAreSound, NameReservedOnce, NoneWaits, Open
<1> QED BY <1>1, ClaimsInvariant, PTL

THEOREM ClaimsTypeCorrect == ClaimsSpec => []ClaimsTypeOK
<1>1. ClaimsInv => ClaimsTypeOK
  BY DEF ClaimsInv
<1> QED BY <1>1, ClaimsInvariant, PTL

-----------------------------------------------------------------------------
(* The member's access: the invariant.                                     *)

PersonRows == [status : {"none", "invited", "active", "suspended", "removed"},
               dept : Departments \cup {NoDepartment}, bound : BOOLEAN, accepted : BOOLEAN,
               known : BOOLEAN]
ProvisionPcs == {"start", "user", "organization", "team", "activate"}
SyncPcs == {"start", "leaving teams", "updating", "leaving", "leaving own team", "own team"}
JobStates ==
  [job : {"none", "provision", "sync"}, pc : {"idle"} \cup ProvisionPcs \cup SyncPcs,
   status : {"none", "invited", "active", "suspended", "removed"},
   dept : Departments \cup {NoDepartment}, known : BOOLEAN]

\* What a member has been through, whatever the workers do.
HistoryHolds ==
  /\ person.status # "none" => person.dept \in Departments
  /\ person.status = "none" => \A i \in Invites : invites[i] = "none"
  /\ person.accepted => person.status # "none" /\ (person.status # "removed" => person.bound)
  /\ person.known => person.accepted
  /\ ~person.known => ~proxyOrg /\ proxyTeams = {}
  /\ AccessIsEarned /\ \A i, j \in Invites : invites[i] = "open" /\ invites[j] = "open" => i = j

\* A provisioning was accepted; a job past its first call has the user, and
\* every job that has read the member has a department.
JobRead(t) == t.pc \notin {"idle", "start"}

JobHolds(t) ==
  /\ t.job = "none" => t = NoJob
  /\ t.job = "provision" => t.pc \in ProvisionPcs /\ person.accepted
  /\ t.job = "sync" => t.pc \in SyncPcs
  /\ t.job = "provision" /\ t.pc \in {"organization", "team", "activate"} => person.known
  /\ t.job = "sync" /\ JobRead(t) => person.known
  /\ JobRead(t) => t.dept \in Departments

JobsHold ==
  /\ queued.provision > 0 => person.accepted
  /\ \A w \in MemberWorkers : JobHolds(worker[w])

\* While nobody was overtaken, one worker at most has read the row.
OneReader == \A v, w \in MemberWorkers : HasRead(v) /\ HasRead(w) => v = w

Own == proxyTeams \subseteq {person.dept}

\* What that worker has read is still true, and how far it has come.
WorkHolds(t) ==
  /\ JobRead(t) => t.status = person.status /\ t.dept = person.dept
  /\ t.job = "provision" /\ JobRead(t) =>
       /\ t.status \notin {"suspended", "removed"}
       /\ t.pc \in {"team", "activate"} => proxyOrg
       /\ t.pc = "activate" => person.dept \in proxyTeams
  /\ t.pc \in {"updating", "own team", "leaving", "leaving own team"} => Own
  /\ t.pc \in {"updating", "own team"} => person.status = "active"
  /\ t.pc = "own team" => proxyOrg
  /\ t.pc \in {"leaving", "leaving own team"} => person.status # "active"
  /\ t.pc = "leaving own team" => ~proxyOrg

WorkDone == \A w \in MemberWorkers : WorkHolds(worker[w])

\* The proxy has what the row says, or a synchronization, or the provisioning
\* of an invited member, is still to make it so.
Matches ==
  /\ proxyOrg = (person.status = "active")
  /\ proxyTeams = IF person.status = "active" THEN {person.dept} ELSE {}
SyncToCome == queued.sync > 0 \/ \E w \in MemberWorkers : worker[w].job = "sync"
ProvisionToCome ==
  /\ queued.provision > 0 \/ \E w \in MemberWorkers : worker[w].job = "provision"
  /\ person.status = "invited" /\ Own

Converges == person.known /\ lost = {} => Matches \/ SyncToCome \/ ProvisionToCome

MemberInv ==
  /\ MemberTypeOK /\ worker \in [MemberWorkers -> JobStates] /\ HistoryHolds /\ JobsHold
  /\ ~crossed => OneReader /\ WorkDone /\ Converges

-----------------------------------------------------------------------------
(* The member's access: types and helpers.                                 *)

LEMMA MemberTypes ==
    MemberInv =>
      /\ person \in PersonRows /\ invites \in [Invites -> {"none", "open", "consumed", "revoked"}]
      /\ mailed \subseteq Invites /\ archived \subseteq Departments
      /\ queued \in [provision : Nat, sync : Nat] /\ lost \subseteq LostJobs
      /\ worker \in [MemberWorkers -> JobStates]
      /\ proxyOrg \in BOOLEAN /\ proxyTeams \subseteq Departments
      /\ edits \in 0..MaxEdits /\ crossed \in BOOLEAN
BY DEF MemberInv, MemberTypeOK, PersonRows

LEMMA MemberTyped ==
    ASSUME person \in PersonRows, invites \in [Invites -> {"none", "open", "consumed", "revoked"}],
           mailed \subseteq Invites, archived \subseteq Departments,
           queued \in [provision : Nat, sync : Nat], lost \subseteq LostJobs,
           worker \in [MemberWorkers -> JobStates],
           proxyOrg \in BOOLEAN, proxyTeams \subseteq Departments,
           edits \in 0..MaxEdits, crossed \in BOOLEAN
    PROVE  MemberTypeOK
BY DEF MemberTypeOK, PersonRows, JobStates

\* The changes the steps make to the row of the member.
LEMMA PersonChanges ==
    ASSUME person \in PersonRows
    PROVE  /\ \A d \in Departments : [person EXCEPT !.status = "invited", !.dept = d] \in PersonRows
           /\ \A d \in Departments : [person EXCEPT !.dept = d] \in PersonRows
           /\ \A s \in {"suspended", "invited", "active"} : [person EXCEPT !.status = s] \in PersonRows
           /\ [person EXCEPT !.bound = TRUE, !.accepted = TRUE] \in PersonRows
           /\ [person EXCEPT !.status = "removed", !.bound = FALSE] \in PersonRows
           /\ [person EXCEPT !.known = TRUE] \in PersonRows
<1>1. \A a, b, c \in BOOLEAN, d \in Departments \cup {NoDepartment},
         s \in {"none", "invited", "active", "suspended", "removed"} :
        /\ [person EXCEPT !.status = s, !.dept = d] \in PersonRows
        /\ [person EXCEPT !.dept = d] \in PersonRows
        /\ [person EXCEPT !.status = s] \in PersonRows
        /\ [person EXCEPT !.bound = a, !.accepted = b] \in PersonRows
        /\ [person EXCEPT !.status = s, !.bound = a] \in PersonRows
        /\ [person EXCEPT !.known = a] \in PersonRows
  BY ZenonT(60) DEF PersonRows
<1>2. TRUE \in BOOLEAN /\ FALSE \in BOOLEAN
  OBVIOUS
<1> QED BY <1>1, <1>2

-----------------------------------------------------------------------------
(* The member's access: each operation keeps the invariant.                *)

\* The directory changes nothing that the memberships depend on.
LEMMA QuietStep ==
    ASSUME MemberInv, UNCHANGED <<worker, proxyOrg, proxyTeams, lost, crossed>>,
           person'.known = person.known, queued'.sync = queued.sync,
           queued.provision > 0 => queued'.provision > 0,
           \/ person'.status = person.status /\ person'.dept = person.dept
           \/ person.status = "none"
    PROVE  ~crossed' => (OneReader /\ WorkDone /\ Converges)'
<1> SUFFICES ASSUME ~crossed PROVE (OneReader /\ WorkDone /\ Converges)'
  OBVIOUS
<1>0. OneReader /\ WorkDone /\ Converges /\ JobsHold /\ HistoryHolds
      /\ worker \in [MemberWorkers -> JobStates]
  BY DEF MemberInv
<1>1. CASE person'.status = person.status /\ person'.dept = person.dept
  BY <1>0, <1>1 DEF OneReader, WorkDone, WorkHolds, JobRead, Converges, Matches, SyncToCome, ProvisionToCome, Own, HasRead
<1>2. CASE person.status = "none"
  <2>1. ~person.known /\ ~person.accepted
    BY <1>0, <1>2 DEF HistoryHolds
  <2>2. \A w \in MemberWorkers : ~HasRead(w)
    BY <1>0, <2>1 DEF JobsHold, JobHolds, JobRead, HasRead, NoJob, JobStates
  <2>3. WorkDone'
    BY <1>0, <2>2 DEF WorkDone, WorkHolds, JobRead, HasRead
  <2> QED BY <2>1, <2>2, <2>3 DEF OneReader, Converges, HasRead
<1> QED BY <1>1, <1>2

\* An edit of a member the proxy knows queues its synchronization, and
\* overtakes who has read the row.
LEMMA EditedStep ==
    ASSUME MemberInv, NEW row, Edited(row), row.known = person.known,
           UNCHANGED <<worker, lost>>
    PROVE  ~crossed' => (OneReader /\ WorkDone /\ Converges)'
<1> SUFFICES ASSUME ~crossed' PROVE (OneReader /\ WorkDone /\ Converges)'
  OBVIOUS
<1>1. \A w \in MemberWorkers : ~HasRead(w)
  BY DEF Edited, Crosses
<1>2. person'.known => queued'.sync > 0
  BY MemberTypes DEF Edited, QueueSync
<1>3. WorkDone'
  BY <1>1, MemberTypes DEF WorkDone, WorkHolds, JobRead, HasRead
<1> QED BY <1>1, <1>2, <1>3 DEF OneReader, Converges, SyncToCome, HasRead

LEMMA EditTypes ==
    ASSUME MemberInv, NEW row \in PersonRows, Edited(row)
    PROVE  /\ person' = row /\ queued' \in [provision : Nat, sync : Nat]
           /\ queued'.provision = queued.provision
           /\ edits' \in 0..MaxEdits /\ crossed' \in BOOLEAN
BY MemberTypes, MemberAssumption DEF Edited, QueueSync, Crosses

\* What a step of the directory has to keep.
RowsKept ==
  /\ person' \in PersonRows
  /\ invites' \in [Invites -> {"none", "open", "consumed", "revoked"}]
  /\ mailed' \subseteq Invites /\ archived' \subseteq Departments
  /\ queued' \in [provision : Nat, sync : Nat]
  /\ edits' \in 0..MaxEdits /\ crossed' \in BOOLEAN
  /\ HistoryHolds' /\ person'.known = person.known
  /\ person.accepted => person'.accepted
  /\ queued'.provision > 0 => person'.accepted
  /\ ~crossed' => (OneReader /\ WorkDone /\ Converges)'

LEMMA RowsStep ==
    ASSUME MemberInv, UNCHANGED <<lost, worker, proxyOrg, proxyTeams>>, RowsKept
    PROVE  MemberInv'
<1>1. MemberTypeOK' /\ worker' \in [MemberWorkers -> JobStates]
  BY MemberTypes, MemberTyped DEF MemberTypeOK, PersonRows, JobStates, RowsKept
<1>2. JobsHold'
  BY DEF JobsHold, JobHolds, JobRead, RowsKept, MemberInv
<1> QED BY <1>1, <1>2 DEF MemberInv, RowsKept

LEMMA DirectoryStep ==
    ASSUME MemberInv,
           \/ \E d \in Departments :
                DepartmentArchived(d) \/ MoveMember(d) \/ \E i \in Invites : CreateMember(d, i)
           \/ \E status \in {"suspended", "invited"} : SetStatus(status)
           \/ \E i \in Invites : CreateInvitation(i) \/ DispatchInvitation(i) \/ MemberAccepts(i)
           \/ RevokeMemberInvitation \/ RemoveMember
    PROVE  MemberInv'
<1> USE MemberAssumption
<1>0. /\ person \in PersonRows /\ invites \in [Invites -> {"none", "open", "consumed", "revoked"}]
      /\ mailed \subseteq Invites /\ archived \subseteq Departments
      /\ queued \in [provision : Nat, sync : Nat]
      /\ edits \in 0..MaxEdits /\ crossed \in BOOLEAN /\ HistoryHolds
      /\ queued.provision > 0 => person.accepted
  BY MemberTypes DEF MemberInv, JobsHold
<1>1. UNCHANGED <<lost, worker, proxyOrg, proxyTeams>>
  BY DEF DepartmentArchived, MoveMember, CreateMember, SetStatus, CreateInvitation,
         DispatchInvitation, MemberAccepts, RevokeMemberInvitation, RemoveMember, proxyVars
<1>2. SUFFICES RowsKept
  BY <1>1, RowsStep
<1>3. ASSUME NEW d \in Departments, DepartmentArchived(d) PROVE RowsKept
  <2>1. /\ person' \in PersonRows /\ person'.known = person.known
        /\ person.accepted => person'.accepted
        /\ invites' \in [Invites -> {"none", "open", "consumed", "revoked"}]
        /\ mailed' \subseteq Invites /\ archived' \subseteq Departments
        /\ edits' \in 0..MaxEdits /\ UNCHANGED crossed
    <3>1. edits' \in 0..MaxEdits
      BY <1>0, <1>3 DEF DepartmentArchived
    <3> QED BY <1>0, <1>3, <3>1 DEF DepartmentArchived
  <2>2. /\ queued' \in [provision : Nat, sync : Nat] /\ queued'.sync = queued.sync
        /\ queued.provision > 0 => queued'.provision > 0
        /\ queued'.provision > 0 => person'.accepted
    BY <1>0, <1>3 DEF DepartmentArchived, PersonRows
  <2>3. HistoryHolds'
    BY <1>0, <1>1, <1>3 DEF DepartmentArchived, HistoryHolds, AccessIsEarned, PersonRows
  <2>4. ~crossed' => (OneReader /\ WorkDone /\ Converges)'
    BY <1>0, <1>1, <1>3, <2>1, <2>2, QuietStep DEF DepartmentArchived, PersonRows
  <2> QED BY <1>0, <2>1, <2>2, <2>3, <2>4 DEF RowsKept
<1>4. ASSUME NEW d \in Departments, NEW i \in Invites, CreateMember(d, i) PROVE RowsKept
  <2>1. /\ person' \in PersonRows /\ person'.known = person.known
        /\ person.accepted => person'.accepted
        /\ invites' \in [Invites -> {"none", "open", "consumed", "revoked"}]
        /\ mailed' \subseteq Invites /\ archived' \subseteq Departments
        /\ edits' \in 0..MaxEdits /\ UNCHANGED crossed
    BY <1>0, <1>4, PersonChanges DEF CreateMember, PersonRows
  <2>2. /\ queued' \in [provision : Nat, sync : Nat] /\ queued'.sync = queued.sync
        /\ queued.provision > 0 => queued'.provision > 0
        /\ queued'.provision > 0 => person'.accepted
    BY <1>0, <1>4 DEF CreateMember, PersonRows
  <2>3. HistoryHolds'
    BY <1>0, <1>1, <1>4 DEF CreateMember, HistoryHolds, AccessIsEarned, PersonRows
  <2>4. ~crossed' => (OneReader /\ WorkDone /\ Converges)'
    BY <1>0, <1>1, <1>4, <2>1, <2>2, QuietStep DEF CreateMember, PersonRows
  <2> QED BY <1>0, <2>1, <2>2, <2>3, <2>4 DEF RowsKept
<1>5. ASSUME NEW i \in Invites, CreateInvitation(i) PROVE RowsKept
  <2>1. /\ person' \in PersonRows /\ person'.known = person.known
        /\ person.accepted => person'.accepted
        /\ invites' \in [Invites -> {"none", "open", "consumed", "revoked"}]
        /\ mailed' \subseteq Invites /\ archived' \subseteq Departments
        /\ edits' \in 0..MaxEdits /\ UNCHANGED crossed
    BY <1>0, <1>5, PersonChanges DEF CreateInvitation, Revoked, PersonRows
  <2>2. /\ queued' \in [provision : Nat, sync : Nat] /\ queued'.sync = queued.sync
        /\ queued.provision > 0 => queued'.provision > 0
        /\ queued'.provision > 0 => person'.accepted
    BY <1>0, <1>5 DEF CreateInvitation, PersonRows
  <2>3. HistoryHolds'
    BY <1>0, <1>1, <1>5 DEF CreateInvitation, Revoked, HistoryHolds, AccessIsEarned, PersonRows
  <2>4. ~crossed' => (OneReader /\ WorkDone /\ Converges)'
    BY <1>0, <1>1, <1>5, <2>1, <2>2, QuietStep DEF CreateInvitation, PersonRows
  <2> QED BY <1>0, <2>1, <2>2, <2>3, <2>4 DEF RowsKept
<1>6. ASSUME NEW i \in Invites, DispatchInvitation(i) PROVE RowsKept
  <2>1. /\ person' \in PersonRows /\ person'.known = person.known
        /\ person.accepted => person'.accepted
        /\ invites' \in [Invites -> {"none", "open", "consumed", "revoked"}]
        /\ mailed' \subseteq Invites /\ archived' \subseteq Departments
        /\ edits' \in 0..MaxEdits /\ UNCHANGED crossed
    BY <1>0, <1>6, PersonChanges, ZenonT(60) DEF DispatchInvitation, PersonRows
  <2>2. /\ queued' \in [provision : Nat, sync : Nat] /\ queued'.sync = queued.sync
        /\ queued.provision > 0 => queued'.provision > 0
        /\ queued'.provision > 0 => person'.accepted
    BY <1>0, <1>6 DEF DispatchInvitation, PersonRows
  <2>3. HistoryHolds'
    BY <1>0, <1>1, <1>6 DEF DispatchInvitation, HistoryHolds, AccessIsEarned, PersonRows
  <2>4. ~crossed' => (OneReader /\ WorkDone /\ Converges)'
    BY <1>0, <1>1, <1>6, <2>1, <2>2, QuietStep DEF DispatchInvitation, PersonRows
  <2> QED BY <1>0, <2>1, <2>2, <2>3, <2>4 DEF RowsKept
<1>7. ASSUME NEW i \in Invites, MemberAccepts(i) PROVE RowsKept
  <2>1. /\ person' \in PersonRows /\ person'.known = person.known
        /\ person.accepted => person'.accepted
        /\ invites' \in [Invites -> {"none", "open", "consumed", "revoked"}]
        /\ mailed' \subseteq Invites /\ archived' \subseteq Departments
        /\ edits' \in 0..MaxEdits /\ UNCHANGED crossed
    BY <1>0, <1>7, PersonChanges DEF MemberAccepts, Acceptable, PersonRows
  <2>2. /\ queued' \in [provision : Nat, sync : Nat] /\ queued'.sync = queued.sync
        /\ queued.provision > 0 => queued'.provision > 0
        /\ queued'.provision > 0 => person'.accepted
    BY <1>0, <1>7 DEF MemberAccepts, PersonRows
  <2>3. HistoryHolds'
    BY <1>0, <1>1, <1>7 DEF MemberAccepts, Acceptable, HistoryHolds, AccessIsEarned, PersonRows
  <2>4. ~crossed' => (OneReader /\ WorkDone /\ Converges)'
    BY <1>0, <1>1, <1>7, <2>1, <2>2, QuietStep DEF MemberAccepts, PersonRows
  <2> QED BY <1>0, <2>1, <2>2, <2>3, <2>4 DEF RowsKept
<1>8. CASE RevokeMemberInvitation
  <2>1. /\ person' \in PersonRows /\ person'.known = person.known
        /\ person.accepted => person'.accepted
        /\ invites' \in [Invites -> {"none", "open", "consumed", "revoked"}]
        /\ mailed' \subseteq Invites /\ archived' \subseteq Departments
        /\ edits' \in 0..MaxEdits /\ UNCHANGED crossed
    BY <1>0, <1>8, PersonChanges DEF RevokeMemberInvitation, Revoked, PersonRows
  <2>2. /\ queued' \in [provision : Nat, sync : Nat] /\ queued'.sync = queued.sync
        /\ queued.provision > 0 => queued'.provision > 0
        /\ queued'.provision > 0 => person'.accepted
    BY <1>0, <1>8 DEF RevokeMemberInvitation, PersonRows
  <2>3. HistoryHolds'
    BY <1>0, <1>1, <1>8 DEF RevokeMemberInvitation, Revoked, HistoryHolds, AccessIsEarned, PersonRows
  <2>4. ~crossed' => (OneReader /\ WorkDone /\ Converges)'
    BY <1>0, <1>1, <1>8, <2>1, <2>2, QuietStep DEF RevokeMemberInvitation, PersonRows
  <2> QED BY <1>0, <2>1, <2>2, <2>3, <2>4 DEF RowsKept
<1>9. ASSUME NEW d \in Departments, MoveMember(d) PROVE RowsKept
  <2>1. PICK row \in PersonRows : row = [person EXCEPT !.dept = d]
    BY <1>0, PersonChanges
  <2>2. Edited(row)
    BY <1>9, <2>1 DEF MoveMember
  <2>3. /\ person' = row /\ queued' \in [provision : Nat, sync : Nat]
        /\ queued'.provision = queued.provision
        /\ edits' \in 0..MaxEdits /\ crossed' \in BOOLEAN
    BY <2>2, EditTypes
  <2>4. /\ row.known = person.known /\ row.accepted = person.accepted
        /\ invites' \in [Invites -> {"none", "open", "consumed", "revoked"}]
        /\ mailed' \subseteq Invites /\ archived' \subseteq Departments
    BY <1>0, <1>9, <2>1 DEF MoveMember, PersonRows
  <2>5. HistoryHolds'
    BY <1>0, <1>1, <1>9, <2>1, <2>3 DEF MoveMember, HistoryHolds, AccessIsEarned, PersonRows
  <2>6. ~crossed' => (OneReader /\ WorkDone /\ Converges)'
    BY <1>1, <2>2, <2>4, EditedStep
  <2> QED BY <1>0, <2>3, <2>4, <2>5, <2>6 DEF RowsKept
<1>10. ASSUME NEW status \in {"suspended", "invited"}, SetStatus(status) PROVE RowsKept
  <2>1. PICK row \in PersonRows : row = [person EXCEPT !.status = status]
    BY <1>0, PersonChanges
  <2>2. Edited(row)
    BY <1>10, <2>1 DEF SetStatus
  <2>3. /\ person' = row /\ queued' \in [provision : Nat, sync : Nat]
        /\ queued'.provision = queued.provision
        /\ edits' \in 0..MaxEdits /\ crossed' \in BOOLEAN
    BY <2>2, EditTypes
  <2>4. /\ row.known = person.known /\ row.accepted = person.accepted
        /\ invites' \in [Invites -> {"none", "open", "consumed", "revoked"}]
        /\ mailed' \subseteq Invites /\ archived' \subseteq Departments
    BY <1>0, <1>10, <2>1 DEF SetStatus, PersonRows
  <2>5. HistoryHolds'
    BY <1>0, <1>1, <1>10, <2>1, <2>3 DEF SetStatus, HistoryHolds, AccessIsEarned, PersonRows
  <2>6. ~crossed' => (OneReader /\ WorkDone /\ Converges)'
    BY <1>1, <2>2, <2>4, EditedStep
  <2> QED BY <1>0, <2>3, <2>4, <2>5, <2>6 DEF RowsKept
<1>11. CASE RemoveMember
  <2>1. PICK row \in PersonRows : row = [person EXCEPT !.status = "removed", !.bound = FALSE]
    BY <1>0, PersonChanges
  <2>2. Edited(row)
    BY <1>11, <2>1 DEF RemoveMember
  <2>3. /\ person' = row /\ queued' \in [provision : Nat, sync : Nat]
        /\ queued'.provision = queued.provision
        /\ edits' \in 0..MaxEdits /\ crossed' \in BOOLEAN
    BY <2>2, EditTypes
  <2>4. /\ row.known = person.known /\ row.accepted = person.accepted
        /\ invites' \in [Invites -> {"none", "open", "consumed", "revoked"}]
        /\ mailed' \subseteq Invites /\ archived' \subseteq Departments
    BY <1>0, <1>11, <2>1 DEF RemoveMember, Revoked, PersonRows
  <2>5. HistoryHolds'
    BY <1>0, <1>1, <1>11, <2>1, <2>3 DEF RemoveMember, Revoked, HistoryHolds, AccessIsEarned, PersonRows
  <2>6. ~crossed' => (OneReader /\ WorkDone /\ Converges)'
    BY <1>1, <2>2, <2>4, EditedStep
  <2> QED BY <1>0, <2>3, <2>4, <2>5, <2>6 DEF RowsKept
<1> QED BY <1>3, <1>4, <1>5, <1>6, <1>7, <1>8, <1>9, <1>10, <1>11

\* What the step of a worker has to keep, which leaves it with the job t.
WorkerKept(w, t) ==
  /\ worker' = [worker EXCEPT ![w] = t] /\ t \in JobStates
  /\ UNCHANGED <<invites, mailed, archived, edits>> /\ person' \in PersonRows
  /\ queued' \in [provision : Nat, sync : Nat] /\ lost' \subseteq LostJobs
  /\ proxyOrg' \in BOOLEAN /\ proxyTeams' \subseteq Departments /\ crossed' \in BOOLEAN
  /\ HistoryHolds' /\ (person.accepted => person'.accepted) /\ (person.known => person'.known)
  /\ (queued'.provision > 0 => person'.accepted) /\ JobHolds(t)'
  /\ ~crossed' => Converges' /\ WorkHolds(t)'
                  /\ \/ \A v \in MemberWorkers : v # w => ~HasRead(v)
                     \/ ~crossed /\ ~JobRead(t) /\ UNCHANGED <<person, proxyOrg, proxyTeams>>

LEMMA WorkerStep ==
    ASSUME MemberInv, NEW w \in MemberWorkers, NEW t, WorkerKept(w, t)
    PROVE  MemberInv'
<1>1. /\ worker' \in [MemberWorkers -> JobStates] /\ worker'[w] = t
      /\ \A v \in MemberWorkers : v # w => worker'[v] = worker[v]
  BY MemberTypes DEF WorkerKept
<1>2. MemberTypeOK'
  BY <1>1, MemberTypes DEF MemberTypeOK, WorkerKept, PersonRows, JobStates
<1>3. JobsHold'
  <2>1. ASSUME NEW v \in MemberWorkers PROVE JobHolds(worker[v])'
    <3>1. CASE v = w
      BY <1>1, <3>1 DEF WorkerKept, JobHolds, JobRead
    <3>2. CASE v # w
      BY <1>1, <3>2 DEF WorkerKept, JobHolds, JobRead, MemberInv, JobsHold
    <3> QED BY <3>1, <3>2
  <2> QED BY <2>1 DEF JobsHold, WorkerKept
<1>4. ASSUME ~crossed' PROVE (OneReader /\ WorkDone /\ Converges)'
  <2>1. CASE \A v \in MemberWorkers : v # w => ~HasRead(v)
    <3>1. \A v \in MemberWorkers : v # w => ~JobRead(worker'[v]) /\ ~HasRead(v)'
      BY <1>1, <2>1 DEF HasRead, JobRead
    <3>2. ASSUME NEW v \in MemberWorkers PROVE WorkHolds(worker[v])'
      <4>1. CASE v = w
        BY <1>1, <1>4, <4>1 DEF WorkerKept, WorkHolds, JobRead, Own
      <4>2. CASE v # w
        BY <1>1, <3>1, <4>2 DEF WorkHolds, JobRead
      <4> QED BY <4>1, <4>2
    <3> QED BY <1>4, <3>1, <3>2 DEF OneReader, WorkDone, WorkerKept
  <2>2. CASE ~crossed /\ ~JobRead(t) /\ UNCHANGED <<person, proxyOrg, proxyTeams>>
    <3>1. OneReader /\ WorkDone
      BY <2>2 DEF MemberInv
    <3>2. OneReader'
      BY <1>1, <2>2, <3>1 DEF OneReader, HasRead, JobRead
    <3>3. ASSUME NEW v \in MemberWorkers PROVE WorkHolds(worker[v])'
      <4>1. CASE v = w
        BY <1>1, <1>4, <4>1 DEF WorkerKept, WorkHolds, JobRead, Own
      <4>2. CASE v # w
        BY <1>1, <2>2, <3>1, <4>2 DEF WorkDone, WorkHolds, JobRead, Own
      <4> QED BY <4>1, <4>2
    <3> QED BY <1>4, <3>2, <3>3 DEF WorkDone, WorkerKept
  <2> QED BY <1>4, <2>1, <2>2 DEF WorkerKept
<1> QED BY <1>1, <1>2, <1>3, <1>4 DEF MemberInv, WorkerKept

\* What is known when worker w takes a step.
LEMMA WorkerKnows ==
    ASSUME MemberInv, NEW w \in MemberWorkers
    PROVE  /\ worker[w] \in JobStates /\ JobHolds(worker[w]) /\ HistoryHolds
           /\ \A t \in {worker[w].pc} \cup {"idle"} \cup ProvisionPcs \cup SyncPcs :
                [worker[w] EXCEPT !.pc = t] \in JobStates
           /\ NoJob \in JobStates
           /\ queued.provision > 0 => person.accepted
           /\ ~crossed => OneReader /\ WorkHolds(worker[w]) /\ Converges
BY MemberTypes DEF MemberInv, JobsHold, WorkDone, JobStates, NoJob

LEMMA ClaimMemberJobStep ==
    ASSUME MemberInv, NEW w \in MemberWorkers, NEW job \in {"provision", "sync"}, ClaimMemberJob(w, job)
    PROVE  MemberInv'
<1>0. /\ person \in PersonRows /\ proxyOrg \in BOOLEAN /\ proxyTeams \subseteq Departments
      /\ queued \in [provision : Nat, sync : Nat] /\ lost \subseteq LostJobs
      /\ worker \in [MemberWorkers -> JobStates] /\ crossed \in BOOLEAN
      /\ worker[w] \in JobStates /\ JobHolds(worker[w]) /\ HistoryHolds
      /\ queued.provision > 0 => person.accepted
  BY MemberTypes, WorkerKnows
<1>1. PICK t : t = [worker[w] EXCEPT !.job = job, !.pc = "start"]
  OBVIOUS
<1>2. worker' = [worker EXCEPT ![w] = t]
  BY <1>0, <1>1 DEF ClaimMemberJob, JobGoes, JobEnds, JobReads, JobStates
<1>3. /\ t \in JobStates /\ t.job = job /\ t.pc = "start" /\ worker[w] = NoJob
  BY <1>0, <1>1 DEF ClaimMemberJob, JobAt, JobStates, JobHolds, PersonRows, ProvisionPcs, SyncPcs, NoJob
<1>4. /\ person' \in PersonRows /\ queued' \in [provision : Nat, sync : Nat]
      /\ lost' \subseteq LostJobs /\ crossed' \in BOOLEAN
      /\ proxyOrg' \in BOOLEAN /\ proxyTeams' \subseteq Departments
      /\ queued'.provision > 0 => person.accepted
      /\ job = "provision" => person.accepted
  <2>1. CASE job = "provision"
    BY <1>0, <2>1 DEF ClaimMemberJob, proxyVars
  <2>2. CASE job = "sync"
    BY <1>0, <2>2 DEF ClaimMemberJob, proxyVars
  <2> QED BY <2>1, <2>2
<1>5. /\ person.accepted => person'.accepted
      /\ person.known => person'.known
      /\ queued'.provision > 0 => person'.accepted
      /\ JobHolds(t)' /\ UNCHANGED <<invites, mailed, archived, edits>>
  BY <1>0, <1>1, <1>3 DEF ClaimMemberJob, JobHolds, JobRead, HistoryHolds, PersonRows, ProvisionPcs, SyncPcs, NoJob
<1>6. HistoryHolds'
  BY <1>0, <1>3 DEF ClaimMemberJob, HistoryHolds, AccessIsEarned, JobHolds, JobRead, proxyVars, PersonRows, MayActivate
<1>7. ASSUME ~crossed' PROVE
        /\ ~crossed /\ Converges /\ ~JobRead(t)
        /\ UNCHANGED <<person, proxyOrg, proxyTeams>>
  BY <1>1, <1>3, <1>7, WorkerKnows DEF ClaimMemberJob, JobRead, NoJob, proxyVars
<1>8. ASSUME ~crossed' PROVE WorkHolds(t)'
  BY <1>0, <1>1, <1>3, <1>7, <1>8 DEF ClaimMemberJob, WorkHolds, JobRead, Own, proxyVars, HistoryHolds, PersonRows, NoJob, MayActivate
<1>9. ASSUME ~crossed' PROVE Converges'
  <2>1. Converges /\ UNCHANGED <<person, proxyOrg, proxyTeams, lost>>
    BY <1>7, <1>9 DEF ClaimMemberJob, proxyVars
  <2>2. worker'[w].job = job /\ \A v \in MemberWorkers : v # w => worker'[v] = worker[v]
    BY <1>0, <1>2, <1>3
  <2>3. worker[w].job = "none"
    BY <1>3 DEF NoJob
  <2>4. SyncToCome => SyncToCome'
    <3>1. CASE job = "sync"
      BY <2>2, <3>1 DEF SyncToCome
    <3>2. CASE job = "provision"
      <4>1. queued'.sync = queued.sync
        BY <1>0, <3>2 DEF ClaimMemberJob
      <4> QED BY <2>2, <2>3, <4>1 DEF SyncToCome
    <3> QED BY <3>1, <3>2
  <2>5. ProvisionToCome => ProvisionToCome'
    <3>1. CASE job = "provision"
      BY <2>1, <2>2, <3>1 DEF ProvisionToCome, Own
    <3>2. CASE job = "sync"
      <4>1. queued'.provision = queued.provision
        BY <1>0, <3>2 DEF ClaimMemberJob
      <4> QED BY <2>1, <2>2, <2>3, <4>1 DEF ProvisionToCome, Own
    <3> QED BY <3>1, <3>2
  <2> QED BY <2>1, <2>4, <2>5 DEF Converges, Matches
<1> QED BY <1>0, <1>2, <1>3, <1>4, <1>5, <1>6, <1>7, <1>8, <1>9, WorkerStep DEF WorkerKept

LEMMA MemberJobFailsStep ==
    ASSUME MemberInv, NEW w \in MemberWorkers, MemberJobFails(w)
    PROVE  MemberInv'
<1>0. /\ person \in PersonRows /\ proxyOrg \in BOOLEAN /\ proxyTeams \subseteq Departments
      /\ queued \in [provision : Nat, sync : Nat] /\ lost \subseteq LostJobs
      /\ worker \in [MemberWorkers -> JobStates] /\ crossed \in BOOLEAN
      /\ worker[w] \in JobStates /\ JobHolds(worker[w]) /\ HistoryHolds
      /\ queued.provision > 0 => person.accepted
  BY MemberTypes, WorkerKnows
<1>1. PICK t : t = NoJob
  OBVIOUS
<1>2. worker' = [worker EXCEPT ![w] = t]
  BY <1>0, <1>1 DEF MemberJobFails, JobGoes, JobEnds, JobReads, JobStates
<1>3. /\ t \in JobStates /\ worker[w] # NoJob /\ worker[w].job \in {"provision", "sync"}
  BY <1>0, <1>1 DEF MemberJobFails, JobAt, JobStates, JobHolds, PersonRows, ProvisionPcs, SyncPcs, NoJob
<1>4. /\ person' \in PersonRows /\ queued' \in [provision : Nat, sync : Nat]
      /\ lost' \subseteq LostJobs /\ crossed' \in BOOLEAN
      /\ proxyOrg' \in BOOLEAN /\ proxyTeams' \subseteq Departments
      /\ queued'.provision > 0 => person.accepted
  <2>1. UNCHANGED <<person, proxyOrg, proxyTeams, crossed>>
    BY DEF MemberJobFails, proxyVars
  <2>2. CASE queued' = [queued EXCEPT ![worker[w].job] = @ + 1] /\ UNCHANGED lost
    <3>1. CASE worker[w].job = "provision"
      BY <1>0, <2>1, <2>2, <3>1 DEF JobHolds
    <3>2. CASE worker[w].job = "sync"
      BY <1>0, <2>1, <2>2, <3>2
    <3> QED BY <1>3, <3>1, <3>2
  <2>3. CASE /\ \E state \in {"failed", "sent"} : lost' = lost \cup {<<worker[w].job, state>>}
             /\ UNCHANGED queued
    BY <1>0, <1>3, <2>1, <2>3 DEF LostJobs
  <2> QED BY <2>2, <2>3 DEF MemberJobFails
<1>5. /\ person.accepted => person'.accepted
      /\ person.known => person'.known
      /\ queued'.provision > 0 => person'.accepted
      /\ JobHolds(t)' /\ UNCHANGED <<invites, mailed, archived, edits>>
  BY <1>0, <1>1, <1>3 DEF MemberJobFails, JobHolds, JobRead, HistoryHolds, PersonRows, ProvisionPcs, SyncPcs, NoJob
<1>6. HistoryHolds'
  BY <1>0, <1>3 DEF MemberJobFails, HistoryHolds, AccessIsEarned, JobHolds, JobRead, proxyVars, PersonRows, MayActivate
<1>7. ASSUME ~crossed' PROVE
        /\ ~crossed /\ Converges /\ ~JobRead(t)
        /\ UNCHANGED <<person, proxyOrg, proxyTeams>>
  BY <1>1, <1>3, <1>7, WorkerKnows DEF MemberJobFails, JobRead, NoJob, proxyVars
<1>8. ASSUME ~crossed' PROVE WorkHolds(t)'
  BY <1>0, <1>1, <1>3, <1>7, <1>8 DEF MemberJobFails, WorkHolds, JobRead, Own, proxyVars, HistoryHolds, PersonRows, NoJob, MayActivate
<1>9. ASSUME ~crossed' PROVE Converges'
  <2>1. Converges /\ UNCHANGED <<person, proxyOrg, proxyTeams>>
    BY <1>7, <1>9
  <2>2. \A v \in MemberWorkers : v # w => worker'[v] = worker[v]
    BY <1>0, <1>2
  <2>3. SUFFICES ASSUME lost' = {} PROVE Converges'
    BY DEF Converges
  <2>4. queued' = [queued EXCEPT ![worker[w].job] = @ + 1] /\ lost' = lost
    BY <2>3 DEF MemberJobFails
  <2>5. SyncToCome => SyncToCome'
    <3>1. CASE worker[w].job = "sync"
      <4>1. queued'.sync > 0
        BY <1>0, <2>4, <3>1
      <4> QED BY <4>1 DEF SyncToCome
    <3>2. CASE worker[w].job = "provision"
      <4>1. queued'.sync = queued.sync
        BY <1>0, <2>4, <3>2
      <4> QED BY <2>2, <3>2, <4>1 DEF SyncToCome
    <3> QED BY <1>3, <3>1, <3>2
  <2>6. ProvisionToCome => ProvisionToCome'
    <3>1. CASE worker[w].job = "provision"
      <4>1. queued'.provision > 0
        BY <1>0, <2>4, <3>1
      <4> QED BY <2>1, <4>1 DEF ProvisionToCome, Own
    <3>2. CASE worker[w].job = "sync"
      <4>1. queued'.provision = queued.provision
        BY <1>0, <2>4, <3>2
      <4> QED BY <2>1, <2>2, <3>2, <4>1 DEF ProvisionToCome, Own
    <3> QED BY <1>3, <3>1, <3>2
  <2> QED BY <2>1, <2>3, <2>4, <2>5, <2>6 DEF Converges, Matches
<1> QED BY <1>0, <1>2, <1>3, <1>4, <1>5, <1>6, <1>7, <1>8, <1>9, WorkerStep DEF WorkerKept

LEMMA ReadForProvisionStep ==
    ASSUME MemberInv, NEW w \in MemberWorkers, ReadForProvision(w)
    PROVE  MemberInv'
<1>0. /\ person \in PersonRows /\ proxyOrg \in BOOLEAN /\ proxyTeams \subseteq Departments
      /\ queued \in [provision : Nat, sync : Nat] /\ lost \subseteq LostJobs
      /\ worker \in [MemberWorkers -> JobStates] /\ crossed \in BOOLEAN
      /\ worker[w] \in JobStates /\ JobHolds(worker[w]) /\ HistoryHolds
      /\ queued.provision > 0 => person.accepted
  BY MemberTypes, WorkerKnows
<1>1. PICK t : t = [worker[w] EXCEPT !.pc = IF person.known THEN "organization" ELSE "user", !.status = person.status,
                                     !.dept = person.dept, !.known = person.known]
  OBVIOUS
<1>2. worker' = [worker EXCEPT ![w] = t]
  BY <1>0, <1>1 DEF ReadForProvision, JobGoes, JobEnds, JobReads, JobStates
<1>3. /\ t \in JobStates /\ worker[w].job = "provision" /\ worker[w].pc = "start"
      /\ t.job = "provision" /\ t.dept = person.dept /\ t.status = person.status
      /\ t.pc = IF person.known THEN "organization" ELSE "user"
      /\ t.status \notin {"suspended", "removed"}
  BY <1>0, <1>1 DEF ReadForProvision, JobAt, JobStates, JobHolds, PersonRows, ProvisionPcs, SyncPcs, NoJob
<1>4. /\ person' \in PersonRows /\ queued' \in [provision : Nat, sync : Nat]
      /\ lost' \subseteq LostJobs /\ crossed' \in BOOLEAN
      /\ proxyOrg' \in BOOLEAN /\ proxyTeams' \subseteq Departments
  BY <1>0, <1>3, PersonChanges DEF ReadForProvision, proxyVars, OthersHaveRead, JobHolds, JobRead
<1>5. /\ person.accepted => person'.accepted
      /\ person.known => person'.known
      /\ queued'.provision > 0 => person'.accepted
      /\ JobHolds(t)' /\ UNCHANGED <<invites, mailed, archived, edits>>
  BY <1>0, <1>1, <1>3 DEF ReadForProvision, JobHolds, JobRead, HistoryHolds, PersonRows, ProvisionPcs, SyncPcs, NoJob
<1>6. HistoryHolds'
  BY <1>0, <1>3 DEF ReadForProvision, HistoryHolds, AccessIsEarned, JobHolds, JobRead, proxyVars, PersonRows, MayActivate
<1>7. ASSUME ~crossed' PROVE
        /\ ~crossed /\ Converges
        /\ \A v \in MemberWorkers : v # w => ~HasRead(v)
  BY <1>0, <1>7, WorkerKnows DEF ReadForProvision, OthersHaveRead
<1>8. ASSUME ~crossed' PROVE WorkHolds(t)'
  BY <1>0, <1>1, <1>3, <1>7, <1>8 DEF ReadForProvision, WorkHolds, JobRead, Own, proxyVars, HistoryHolds, PersonRows, NoJob, MayActivate
<1>9. ASSUME ~crossed' PROVE Converges'
  <2>1. SyncToCome => SyncToCome'
    BY <1>0, <1>2, <1>3 DEF ReadForProvision, SyncToCome
  <2>2. worker'[w].job = "provision"
    BY <1>0, <1>2, <1>3
  <2>3. ProvisionToCome => ProvisionToCome'
    BY <2>2 DEF ReadForProvision, ProvisionToCome, Own, proxyVars
  <2> QED BY <1>7, <1>9, <2>1, <2>3 DEF ReadForProvision, Converges, Matches, proxyVars
<1> QED BY <1>0, <1>2, <1>3, <1>4, <1>5, <1>6, <1>7, <1>8, <1>9, WorkerStep DEF WorkerKept

LEMMA CreateUserStep ==
    ASSUME MemberInv, NEW w \in MemberWorkers, CreateUser(w)
    PROVE  MemberInv'
<1>0. /\ person \in PersonRows /\ proxyOrg \in BOOLEAN /\ proxyTeams \subseteq Departments
      /\ queued \in [provision : Nat, sync : Nat] /\ lost \subseteq LostJobs
      /\ worker \in [MemberWorkers -> JobStates] /\ crossed \in BOOLEAN
      /\ worker[w] \in JobStates /\ JobHolds(worker[w]) /\ HistoryHolds
      /\ queued.provision > 0 => person.accepted
  BY MemberTypes, WorkerKnows
<1>1. PICK t : t = [worker[w] EXCEPT !.pc = "organization"]
  OBVIOUS
<1>2. worker' = [worker EXCEPT ![w] = t]
  BY <1>0, <1>1 DEF CreateUser, JobGoes, JobEnds, JobReads, JobStates
<1>3. /\ t \in JobStates /\ worker[w].job = "provision" /\ worker[w].pc = "user"
      /\ t.job = "provision" /\ t.pc = "organization" /\ t.dept = worker[w].dept
      /\ t.status = worker[w].status
  BY <1>0, <1>1 DEF CreateUser, JobAt, JobStates, JobHolds, PersonRows, ProvisionPcs, SyncPcs, NoJob
<1>4. /\ person' \in PersonRows /\ queued' \in [provision : Nat, sync : Nat]
      /\ lost' \subseteq LostJobs /\ crossed' \in BOOLEAN
      /\ proxyOrg' \in BOOLEAN /\ proxyTeams' \subseteq Departments
  BY <1>0, <1>3, PersonChanges DEF CreateUser, proxyVars, OthersHaveRead, JobHolds, JobRead
<1>5. /\ person.accepted => person'.accepted
      /\ person.known => person'.known
      /\ queued'.provision > 0 => person'.accepted
      /\ JobHolds(t)' /\ UNCHANGED <<invites, mailed, archived, edits>>
  BY <1>0, <1>1, <1>3 DEF CreateUser, JobHolds, JobRead, HistoryHolds, PersonRows, ProvisionPcs, SyncPcs, NoJob
<1>6. HistoryHolds'
  BY <1>0, <1>3 DEF CreateUser, HistoryHolds, AccessIsEarned, JobHolds, JobRead, proxyVars, PersonRows, MayActivate
<1>7. ASSUME ~crossed' PROVE
        /\ ~crossed /\ WorkHolds(worker[w]) /\ Converges
        /\ \A v \in MemberWorkers : v # w => ~HasRead(v)
  <2>1. ~crossed /\ WorkHolds(worker[w]) /\ Converges /\ OneReader
    BY <1>7, WorkerKnows DEF CreateUser
  <2>2. HasRead(w)
    BY <1>3 DEF HasRead
  <2> QED BY <2>1, <2>2 DEF OneReader
<1>8. ASSUME ~crossed' PROVE WorkHolds(t)'
  BY <1>0, <1>1, <1>3, <1>7, <1>8 DEF CreateUser, WorkHolds, JobRead, Own, proxyVars, HistoryHolds, PersonRows, NoJob, MayActivate
<1>9. ASSUME ~crossed' PROVE Converges'
  <2>1. SyncToCome => SyncToCome'
    BY <1>0, <1>2, <1>3 DEF CreateUser, SyncToCome
  <2>2. worker'[w].job = "provision"
    BY <1>0, <1>2, <1>3
  <2>3. CASE person.known
    <3>1. UNCHANGED <<person, proxyOrg, proxyTeams, lost>>
      BY <1>0, <2>3 DEF CreateUser, PersonRows, proxyVars
    <3> QED BY <1>7, <1>9, <2>1, <2>2, <2>3, <3>1 DEF Converges, Matches, ProvisionToCome, Own
  <2>4. CASE ~person.known
    <3>1. ~proxyOrg /\ proxyTeams = {} /\ person.status # "active"
      BY <1>0, <2>4 DEF HistoryHolds, AccessIsEarned
    <3> QED BY <1>0, <3>1 DEF CreateUser, Converges, Matches, PersonRows, proxyVars
  <2> QED BY <2>3, <2>4
<1> QED BY <1>0, <1>2, <1>3, <1>4, <1>5, <1>6, <1>7, <1>8, <1>9, WorkerStep DEF WorkerKept

LEMMA JoinOrganizationStep ==
    ASSUME MemberInv, NEW w \in MemberWorkers, JoinOrganization(w)
    PROVE  MemberInv'
<1>0. /\ person \in PersonRows /\ proxyOrg \in BOOLEAN /\ proxyTeams \subseteq Departments
      /\ queued \in [provision : Nat, sync : Nat] /\ lost \subseteq LostJobs
      /\ worker \in [MemberWorkers -> JobStates] /\ crossed \in BOOLEAN
      /\ worker[w] \in JobStates /\ JobHolds(worker[w]) /\ HistoryHolds
      /\ queued.provision > 0 => person.accepted
  BY MemberTypes, WorkerKnows
<1>1. PICK t : t = [worker[w] EXCEPT !.pc = "team"]
  OBVIOUS
<1>2. worker' = [worker EXCEPT ![w] = t]
  BY <1>0, <1>1 DEF JoinOrganization, JobGoes, JobEnds, JobReads, JobStates
<1>3. /\ t \in JobStates /\ worker[w].job = "provision" /\ worker[w].pc = "organization"
      /\ t.job = "provision" /\ t.pc = "team" /\ t.dept = worker[w].dept
      /\ t.status = worker[w].status
  BY <1>0, <1>1 DEF JoinOrganization, JobAt, JobStates, JobHolds, PersonRows, ProvisionPcs, SyncPcs, NoJob
<1>4. /\ person' \in PersonRows /\ queued' \in [provision : Nat, sync : Nat]
      /\ lost' \subseteq LostJobs /\ crossed' \in BOOLEAN
      /\ proxyOrg' \in BOOLEAN /\ proxyTeams' \subseteq Departments
  BY <1>0, <1>3, PersonChanges DEF JoinOrganization, proxyVars, OthersHaveRead, JobHolds, JobRead
<1>5. /\ person.accepted => person'.accepted
      /\ person.known => person'.known
      /\ queued'.provision > 0 => person'.accepted
      /\ JobHolds(t)' /\ UNCHANGED <<invites, mailed, archived, edits>>
  BY <1>0, <1>1, <1>3 DEF JoinOrganization, JobHolds, JobRead, HistoryHolds, PersonRows, ProvisionPcs, SyncPcs, NoJob
<1>6. HistoryHolds'
  BY <1>0, <1>3 DEF JoinOrganization, HistoryHolds, AccessIsEarned, JobHolds, JobRead, proxyVars, PersonRows, MayActivate
<1>7. ASSUME ~crossed' PROVE
        /\ ~crossed /\ WorkHolds(worker[w]) /\ Converges
        /\ \A v \in MemberWorkers : v # w => ~HasRead(v)
  <2>1. ~crossed /\ WorkHolds(worker[w]) /\ Converges /\ OneReader
    BY <1>7, WorkerKnows DEF JoinOrganization
  <2>2. HasRead(w)
    BY <1>3 DEF HasRead
  <2> QED BY <2>1, <2>2 DEF OneReader
<1>8. ASSUME ~crossed' PROVE WorkHolds(t)'
  BY <1>0, <1>1, <1>3, <1>7, <1>8 DEF JoinOrganization, WorkHolds, JobRead, Own, proxyVars, HistoryHolds, PersonRows, NoJob, MayActivate
<1>9. ASSUME ~crossed' PROVE Converges'
  <2>1. SyncToCome => SyncToCome'
    BY <1>0, <1>2, <1>3 DEF JoinOrganization, SyncToCome
  <2>2. worker'[w].job = "provision"
    BY <1>0, <1>2, <1>3
  <2>3. ProvisionToCome => ProvisionToCome'
    BY <2>2 DEF JoinOrganization, ProvisionToCome, Own
  <2>4. CASE Matches /\ person.status = "active"
    BY <2>4 DEF JoinOrganization, Converges, Matches
  <2>5. CASE Matches /\ person.status # "active"
    <3>1. person.status = "invited" /\ proxyTeams = {}
      BY <1>0, <1>3, <1>7, <1>9, <2>5
         DEF WorkHolds, JobHolds, JobRead, HistoryHolds, Matches, PersonRows
    <3> QED BY <2>2, <3>1 DEF JoinOrganization, Converges, ProvisionToCome, Own
  <2> QED BY <1>7, <1>9, <2>1, <2>3, <2>4, <2>5 DEF JoinOrganization, Converges
<1> QED BY <1>0, <1>2, <1>3, <1>4, <1>5, <1>6, <1>7, <1>8, <1>9, WorkerStep DEF WorkerKept

LEMMA JoinTeamStep ==
    ASSUME MemberInv, NEW w \in MemberWorkers, JoinTeam(w)
    PROVE  MemberInv'
<1>0. /\ person \in PersonRows /\ proxyOrg \in BOOLEAN /\ proxyTeams \subseteq Departments
      /\ queued \in [provision : Nat, sync : Nat] /\ lost \subseteq LostJobs
      /\ worker \in [MemberWorkers -> JobStates] /\ crossed \in BOOLEAN
      /\ worker[w] \in JobStates /\ JobHolds(worker[w]) /\ HistoryHolds
      /\ queued.provision > 0 => person.accepted
  BY MemberTypes, WorkerKnows
<1>1. PICK t : t = [worker[w] EXCEPT !.pc = "activate"]
  OBVIOUS
<1>2. worker' = [worker EXCEPT ![w] = t]
  BY <1>0, <1>1 DEF JoinTeam, JobGoes, JobEnds, JobReads, JobStates
<1>3. /\ t \in JobStates /\ worker[w].job = "provision" /\ worker[w].pc = "team"
      /\ t.job = "provision" /\ t.pc = "activate" /\ t.dept = worker[w].dept
      /\ t.status = worker[w].status
  BY <1>0, <1>1 DEF JoinTeam, JobAt, JobStates, JobHolds, PersonRows, ProvisionPcs, SyncPcs, NoJob
<1>4. /\ person' \in PersonRows /\ queued' \in [provision : Nat, sync : Nat]
      /\ lost' \subseteq LostJobs /\ crossed' \in BOOLEAN
      /\ proxyOrg' \in BOOLEAN /\ proxyTeams' \subseteq Departments
  BY <1>0, <1>3, PersonChanges DEF JoinTeam, proxyVars, OthersHaveRead, JobHolds, JobRead
<1>5. /\ person.accepted => person'.accepted
      /\ person.known => person'.known
      /\ queued'.provision > 0 => person'.accepted
      /\ JobHolds(t)' /\ UNCHANGED <<invites, mailed, archived, edits>>
  BY <1>0, <1>1, <1>3 DEF JoinTeam, JobHolds, JobRead, HistoryHolds, PersonRows, ProvisionPcs, SyncPcs, NoJob
<1>6. HistoryHolds'
  BY <1>0, <1>3 DEF JoinTeam, HistoryHolds, AccessIsEarned, JobHolds, JobRead, proxyVars, PersonRows, MayActivate
<1>7. ASSUME ~crossed' PROVE
        /\ ~crossed /\ WorkHolds(worker[w]) /\ Converges
        /\ \A v \in MemberWorkers : v # w => ~HasRead(v)
  <2>1. ~crossed /\ WorkHolds(worker[w]) /\ Converges /\ OneReader
    BY <1>7, WorkerKnows DEF JoinTeam
  <2>2. HasRead(w)
    BY <1>3 DEF HasRead
  <2> QED BY <2>1, <2>2 DEF OneReader
<1>8. ASSUME ~crossed' PROVE WorkHolds(t)'
  BY <1>0, <1>1, <1>3, <1>7, <1>8 DEF JoinTeam, WorkHolds, JobRead, Own, proxyVars, HistoryHolds, PersonRows, NoJob, MayActivate
<1>9. ASSUME ~crossed' PROVE Converges'
  <2>1. SyncToCome => SyncToCome'
    BY <1>0, <1>2, <1>3 DEF JoinTeam, SyncToCome
  <2>2. worker'[w].job = "provision"
    BY <1>0, <1>2, <1>3
  <2>3. proxyOrg /\ worker[w].dept = person.dept
    BY <1>3, <1>7, <1>9 DEF WorkHolds, JobRead
  <2>4. ProvisionToCome => ProvisionToCome'
    BY <2>2, <2>3 DEF JoinTeam, ProvisionToCome, Own
  <2>5. Matches => Matches'
    BY <2>3 DEF JoinTeam, Matches
  <2> QED BY <1>7, <1>9, <2>1, <2>4, <2>5 DEF JoinTeam, Converges
<1> QED BY <1>0, <1>2, <1>3, <1>4, <1>5, <1>6, <1>7, <1>8, <1>9, WorkerStep DEF WorkerKept

LEMMA ActivateMemberStep ==
    ASSUME MemberInv, NEW w \in MemberWorkers, ActivateMember(w)
    PROVE  MemberInv'
<1>0. /\ person \in PersonRows /\ proxyOrg \in BOOLEAN /\ proxyTeams \subseteq Departments
      /\ queued \in [provision : Nat, sync : Nat] /\ lost \subseteq LostJobs
      /\ worker \in [MemberWorkers -> JobStates] /\ crossed \in BOOLEAN
      /\ worker[w] \in JobStates /\ JobHolds(worker[w]) /\ HistoryHolds
      /\ queued.provision > 0 => person.accepted
  BY MemberTypes, WorkerKnows
<1>1. PICK t : t = NoJob
  OBVIOUS
<1>2. worker' = [worker EXCEPT ![w] = t]
  BY <1>0, <1>1 DEF ActivateMember, JobGoes, JobEnds, JobReads, JobStates
<1>3. /\ t \in JobStates /\ worker[w].job = "provision" /\ worker[w].pc = "activate"
  BY <1>0, <1>1 DEF ActivateMember, JobAt, JobStates, JobHolds, PersonRows, ProvisionPcs, SyncPcs, NoJob
<1>4. /\ person' \in PersonRows /\ queued' \in [provision : Nat, sync : Nat]
      /\ lost' \subseteq LostJobs /\ crossed' \in BOOLEAN
      /\ proxyOrg' \in BOOLEAN /\ proxyTeams' \subseteq Departments
  BY <1>0, <1>3, PersonChanges DEF ActivateMember, proxyVars, OthersHaveRead, JobHolds, JobRead
<1>5. /\ person.accepted => person'.accepted
      /\ person.known => person'.known
      /\ queued'.provision > 0 => person'.accepted
      /\ JobHolds(t)' /\ UNCHANGED <<invites, mailed, archived, edits>>
  BY <1>0, <1>1, <1>3 DEF ActivateMember, JobHolds, JobRead, HistoryHolds, PersonRows, ProvisionPcs, SyncPcs, NoJob
<1>6. HistoryHolds'
  BY <1>0, <1>3 DEF ActivateMember, HistoryHolds, AccessIsEarned, JobHolds, JobRead, proxyVars, PersonRows, MayActivate
<1>7. ASSUME ~crossed' PROVE
        /\ ~crossed /\ WorkHolds(worker[w]) /\ Converges
        /\ \A v \in MemberWorkers : v # w => ~HasRead(v)
  <2>1. ~crossed /\ WorkHolds(worker[w]) /\ Converges /\ OneReader
    BY <1>7, WorkerKnows DEF ActivateMember
  <2>2. HasRead(w)
    BY <1>3 DEF HasRead
  <2> QED BY <2>1, <2>2 DEF OneReader
<1>8. ASSUME ~crossed' PROVE WorkHolds(t)'
  BY <1>0, <1>1, <1>3, <1>7, <1>8 DEF ActivateMember, WorkHolds, JobRead, Own, proxyVars, HistoryHolds, PersonRows, NoJob, MayActivate
<1>9. ASSUME ~crossed' PROVE Converges'
  <2>1. proxyOrg /\ person.dept \in proxyTeams
    BY <1>3, <1>7, <1>9 DEF WorkHolds, JobRead
  <2>2. SyncToCome => SyncToCome'
    BY <1>0, <1>2, <1>3 DEF ActivateMember, SyncToCome
  <2>3. person'.status = "active" /\ person'.dept = person.dept /\ person'.known = person.known
    BY <1>0 DEF ActivateMember, PersonRows
  <2>4. Matches \/ ProvisionToCome => Matches'
    BY <1>0, <2>1, <2>3 DEF ActivateMember, Matches, ProvisionToCome, Own, proxyVars
  <2> QED BY <1>7, <1>9, <2>2, <2>3, <2>4 DEF ActivateMember, Converges
<1> QED BY <1>0, <1>2, <1>3, <1>4, <1>5, <1>6, <1>7, <1>8, <1>9, WorkerStep DEF WorkerKept

LEMMA ReadForSyncStep ==
    ASSUME MemberInv, NEW w \in MemberWorkers, ReadForSync(w)
    PROVE  MemberInv'
<1>0. /\ person \in PersonRows /\ proxyOrg \in BOOLEAN /\ proxyTeams \subseteq Departments
      /\ queued \in [provision : Nat, sync : Nat] /\ lost \subseteq LostJobs
      /\ worker \in [MemberWorkers -> JobStates] /\ crossed \in BOOLEAN
      /\ worker[w] \in JobStates /\ JobHolds(worker[w]) /\ HistoryHolds
      /\ queued.provision > 0 => person.accepted
  BY MemberTypes, WorkerKnows
<1>1. PICK t : t = [worker[w] EXCEPT !.pc = "leaving teams", !.status = person.status,
                                     !.dept = person.dept, !.known = person.known]
  OBVIOUS
<1>2. worker' = [worker EXCEPT ![w] = t]
  BY <1>0, <1>1 DEF ReadForSync, JobGoes, JobEnds, JobReads, JobStates
<1>3. /\ t \in JobStates /\ worker[w].job = "sync" /\ worker[w].pc = "start"
      /\ t.job = "sync" /\ t.pc = "leaving teams"
      /\ t.dept = person.dept /\ t.status = person.status
  BY <1>0, <1>1 DEF ReadForSync, JobAt, JobStates, JobHolds, PersonRows, ProvisionPcs, SyncPcs, NoJob
<1>4. /\ person' \in PersonRows /\ queued' \in [provision : Nat, sync : Nat]
      /\ lost' \subseteq LostJobs /\ crossed' \in BOOLEAN
      /\ proxyOrg' \in BOOLEAN /\ proxyTeams' \subseteq Departments
  BY <1>0, <1>3, PersonChanges DEF ReadForSync, proxyVars, OthersHaveRead, JobHolds, JobRead
<1>5. /\ person.accepted => person'.accepted
      /\ person.known => person'.known
      /\ queued'.provision > 0 => person'.accepted
      /\ JobHolds(t)' /\ UNCHANGED <<invites, mailed, archived, edits>>
  BY <1>0, <1>1, <1>3 DEF ReadForSync, JobHolds, JobRead, HistoryHolds, PersonRows, ProvisionPcs, SyncPcs, NoJob
<1>6. HistoryHolds'
  BY <1>0, <1>3 DEF ReadForSync, HistoryHolds, AccessIsEarned, JobHolds, JobRead, proxyVars, PersonRows, MayActivate
<1>7. ASSUME ~crossed' PROVE
        /\ \A v \in MemberWorkers : v # w => ~HasRead(v)
  BY <1>0, <1>7 DEF ReadForSync, OthersHaveRead
<1>8. ASSUME ~crossed' PROVE WorkHolds(t)'
  BY <1>0, <1>1, <1>3, <1>7, <1>8 DEF ReadForSync, WorkHolds, JobRead, Own, proxyVars, HistoryHolds, PersonRows, NoJob, MayActivate
<1>9. ASSUME ~crossed' PROVE Converges'
  <2>1. SyncToCome'
    BY <1>0, <1>2, <1>3 DEF SyncToCome
  <2> QED BY <2>1 DEF Converges
<1> QED BY <1>0, <1>2, <1>3, <1>4, <1>5, <1>6, <1>7, <1>8, <1>9, WorkerStep DEF WorkerKept

LEMMA LeaveOrganizationStep ==
    ASSUME MemberInv, NEW w \in MemberWorkers, LeaveOrganization(w)
    PROVE  MemberInv'
<1>0. /\ person \in PersonRows /\ proxyOrg \in BOOLEAN /\ proxyTeams \subseteq Departments
      /\ queued \in [provision : Nat, sync : Nat] /\ lost \subseteq LostJobs
      /\ worker \in [MemberWorkers -> JobStates] /\ crossed \in BOOLEAN
      /\ worker[w] \in JobStates /\ JobHolds(worker[w]) /\ HistoryHolds
      /\ queued.provision > 0 => person.accepted
  BY MemberTypes, WorkerKnows
<1>1. PICK t : t = [worker[w] EXCEPT !.pc = "leaving own team"]
  OBVIOUS
<1>2. worker' = [worker EXCEPT ![w] = t]
  BY <1>0, <1>1 DEF LeaveOrganization, JobGoes, JobEnds, JobReads, JobStates
<1>3. /\ t \in JobStates /\ worker[w].job = "sync" /\ worker[w].pc = "leaving"
      /\ t.job = "sync" /\ t.pc = "leaving own team"
      /\ t.dept = worker[w].dept /\ t.status = worker[w].status
  BY <1>0, <1>1 DEF LeaveOrganization, JobAt, JobStates, JobHolds, PersonRows, ProvisionPcs, SyncPcs, NoJob
<1>4. /\ person' \in PersonRows /\ queued' \in [provision : Nat, sync : Nat]
      /\ lost' \subseteq LostJobs /\ crossed' \in BOOLEAN
      /\ proxyOrg' \in BOOLEAN /\ proxyTeams' \subseteq Departments
  BY <1>0, <1>3, PersonChanges DEF LeaveOrganization, proxyVars, OthersHaveRead, JobHolds, JobRead
<1>5. /\ person.accepted => person'.accepted
      /\ person.known => person'.known
      /\ queued'.provision > 0 => person'.accepted
      /\ JobHolds(t)' /\ UNCHANGED <<invites, mailed, archived, edits>>
  BY <1>0, <1>1, <1>3 DEF LeaveOrganization, JobHolds, JobRead, HistoryHolds, PersonRows, ProvisionPcs, SyncPcs, NoJob
<1>6. HistoryHolds'
  BY <1>0, <1>3, ZenonT(60) DEF LeaveOrganization, HistoryHolds, AccessIsEarned, JobHolds, JobRead, proxyVars, PersonRows, MayActivate
<1>7. ASSUME ~crossed' PROVE
        /\ ~crossed /\ WorkHolds(worker[w]) /\ Converges
        /\ \A v \in MemberWorkers : v # w => ~HasRead(v)
  <2>1. ~crossed /\ WorkHolds(worker[w]) /\ Converges /\ OneReader
    BY <1>7, WorkerKnows DEF LeaveOrganization
  <2>2. HasRead(w)
    BY <1>3 DEF HasRead
  <2> QED BY <2>1, <2>2 DEF OneReader
<1>8. ASSUME ~crossed' PROVE WorkHolds(t)'
  BY <1>0, <1>1, <1>3, <1>7, <1>8 DEF LeaveOrganization, WorkHolds, JobRead, Own, proxyVars, HistoryHolds, PersonRows, NoJob, MayActivate
<1>9. ASSUME ~crossed' PROVE Converges'
  <2>1. SyncToCome'
    BY <1>0, <1>2, <1>3 DEF SyncToCome
  <2> QED BY <2>1 DEF Converges
<1> QED BY <1>0, <1>2, <1>3, <1>4, <1>5, <1>6, <1>7, <1>8, <1>9, WorkerStep DEF WorkerKept

LEMMA UpdateMembershipsStep ==
    ASSUME MemberInv, NEW w \in MemberWorkers, UpdateMemberships(w)
    PROVE  MemberInv'
<1>0. /\ person \in PersonRows /\ proxyOrg \in BOOLEAN /\ proxyTeams \subseteq Departments
      /\ queued \in [provision : Nat, sync : Nat] /\ lost \subseteq LostJobs
      /\ worker \in [MemberWorkers -> JobStates] /\ crossed \in BOOLEAN
      /\ worker[w] \in JobStates /\ JobHolds(worker[w]) /\ HistoryHolds
      /\ queued.provision > 0 => person.accepted
  BY MemberTypes, WorkerKnows
<1>1. PICK t : t = [worker[w] EXCEPT !.pc = "own team"]
  OBVIOUS
<1>2. worker' = [worker EXCEPT ![w] = t]
  BY <1>0, <1>1 DEF UpdateMemberships, JobGoes, JobEnds, JobReads, JobStates
<1>3. /\ t \in JobStates /\ worker[w].job = "sync" /\ worker[w].pc = "updating"
      /\ t.job = "sync" /\ t.pc = "own team"
      /\ t.dept = worker[w].dept /\ t.status = worker[w].status
  BY <1>0, <1>1 DEF UpdateMemberships, JobAt, JobStates, JobHolds, PersonRows, ProvisionPcs, SyncPcs, NoJob
<1>4. /\ person' \in PersonRows /\ queued' \in [provision : Nat, sync : Nat]
      /\ lost' \subseteq LostJobs /\ crossed' \in BOOLEAN
      /\ proxyOrg' \in BOOLEAN /\ proxyTeams' \subseteq Departments
  BY <1>0, <1>3, PersonChanges DEF UpdateMemberships, proxyVars, OthersHaveRead, JobHolds, JobRead
<1>5. /\ person.accepted => person'.accepted
      /\ person.known => person'.known
      /\ queued'.provision > 0 => person'.accepted
      /\ JobHolds(t)' /\ UNCHANGED <<invites, mailed, archived, edits>>
  BY <1>0, <1>1, <1>3 DEF UpdateMemberships, JobHolds, JobRead, HistoryHolds, PersonRows, ProvisionPcs, SyncPcs, NoJob
<1>6. HistoryHolds'
  BY <1>0, <1>3 DEF UpdateMemberships, HistoryHolds, AccessIsEarned, JobHolds, JobRead, proxyVars, PersonRows, MayActivate
<1>7. ASSUME ~crossed' PROVE
        /\ ~crossed /\ WorkHolds(worker[w]) /\ Converges
        /\ \A v \in MemberWorkers : v # w => ~HasRead(v)
  <2>1. ~crossed /\ WorkHolds(worker[w]) /\ Converges /\ OneReader
    BY <1>7, WorkerKnows DEF UpdateMemberships
  <2>2. HasRead(w)
    BY <1>3 DEF HasRead
  <2> QED BY <2>1, <2>2 DEF OneReader
<1>8. ASSUME ~crossed' PROVE WorkHolds(t)'
  BY <1>0, <1>1, <1>3, <1>7, <1>8 DEF UpdateMemberships, WorkHolds, JobRead, Own, proxyVars, HistoryHolds, PersonRows, NoJob, MayActivate
<1>9. ASSUME ~crossed' PROVE Converges'
  <2>1. SyncToCome'
    BY <1>0, <1>2, <1>3 DEF SyncToCome
  <2> QED BY <2>1 DEF Converges
<1> QED BY <1>0, <1>2, <1>3, <1>4, <1>5, <1>6, <1>7, <1>8, <1>9, WorkerStep DEF WorkerKept

LEMMA LeaveOtherTeamsStep ==
    ASSUME MemberInv, NEW w \in MemberWorkers, LeaveOtherTeams(w)
    PROVE  MemberInv'
<1>0. /\ person \in PersonRows /\ proxyOrg \in BOOLEAN /\ proxyTeams \subseteq Departments
      /\ queued \in [provision : Nat, sync : Nat] /\ lost \subseteq LostJobs
      /\ worker \in [MemberWorkers -> JobStates] /\ crossed \in BOOLEAN
      /\ worker[w] \in JobStates /\ JobHolds(worker[w]) /\ HistoryHolds
      /\ queued.provision > 0 => person.accepted
  BY MemberTypes, WorkerKnows
<1>1. PICK t : t = [worker[w] EXCEPT !.pc = IF worker[w].status = "active" THEN "updating" ELSE "leaving"]
  OBVIOUS
<1>2. worker' = [worker EXCEPT ![w] = t]
  BY <1>0, <1>1 DEF LeaveOtherTeams, JobGoes, JobEnds, JobReads, JobStates
<1>3. /\ t \in JobStates /\ worker[w].job = "sync" /\ worker[w].pc = "leaving teams"
      /\ t.job = "sync" /\ t.dept = worker[w].dept /\ t.status = worker[w].status
      /\ t.pc = IF worker[w].status = "active" THEN "updating" ELSE "leaving"
  BY <1>0, <1>1 DEF LeaveOtherTeams, JobAt, JobStates, JobHolds, PersonRows, ProvisionPcs, SyncPcs, NoJob
<1>4. /\ person' \in PersonRows /\ queued' \in [provision : Nat, sync : Nat]
      /\ lost' \subseteq LostJobs /\ crossed' \in BOOLEAN
      /\ proxyOrg' \in BOOLEAN /\ proxyTeams' \subseteq Departments
  BY <1>0, <1>3, PersonChanges DEF LeaveOtherTeams, proxyVars, OthersHaveRead, JobHolds, JobRead
<1>5. /\ person.accepted => person'.accepted
      /\ person.known => person'.known
      /\ queued'.provision > 0 => person'.accepted
      /\ JobHolds(t)' /\ UNCHANGED <<invites, mailed, archived, edits>>
  BY <1>0, <1>1, <1>3 DEF LeaveOtherTeams, JobHolds, JobRead, HistoryHolds, PersonRows, ProvisionPcs, SyncPcs, NoJob
<1>6. HistoryHolds'
  BY <1>0, <1>3 DEF LeaveOtherTeams, HistoryHolds, AccessIsEarned, JobHolds, JobRead, proxyVars, PersonRows, MayActivate
<1>7. ASSUME ~crossed' PROVE
        /\ ~crossed /\ WorkHolds(worker[w]) /\ Converges
        /\ \A v \in MemberWorkers : v # w => ~HasRead(v)
  <2>1. ~crossed /\ WorkHolds(worker[w]) /\ Converges /\ OneReader
    BY <1>7, WorkerKnows DEF LeaveOtherTeams
  <2>2. HasRead(w)
    BY <1>3 DEF HasRead
  <2> QED BY <2>1, <2>2 DEF OneReader
<1>8. ASSUME ~crossed' PROVE WorkHolds(t)'
  <2>1. worker[w].status = person.status /\ worker[w].dept = person.dept
    BY <1>3, <1>7, <1>8 DEF WorkHolds, JobRead
  <2>2. Own'
    BY <2>1 DEF LeaveOtherTeams, Own
  <2> QED BY <1>3, <2>1, <2>2 DEF LeaveOtherTeams, WorkHolds, JobRead
<1>9. ASSUME ~crossed' PROVE Converges'
  <2>1. SyncToCome'
    BY <1>0, <1>2, <1>3 DEF SyncToCome
  <2> QED BY <2>1 DEF Converges
<1> QED BY <1>0, <1>2, <1>3, <1>4, <1>5, <1>6, <1>7, <1>8, <1>9, WorkerStep DEF WorkerKept

LEMMA LeaveOwnTeamStep ==
    ASSUME MemberInv, NEW w \in MemberWorkers, LeaveOwnTeam(w)
    PROVE  MemberInv'
<1>0. /\ person \in PersonRows /\ proxyOrg \in BOOLEAN /\ proxyTeams \subseteq Departments
      /\ queued \in [provision : Nat, sync : Nat] /\ lost \subseteq LostJobs
      /\ worker \in [MemberWorkers -> JobStates] /\ crossed \in BOOLEAN
      /\ worker[w] \in JobStates /\ JobHolds(worker[w]) /\ HistoryHolds
      /\ queued.provision > 0 => person.accepted
  BY MemberTypes, WorkerKnows
<1>1. PICK t : t = NoJob
  OBVIOUS
<1>2. worker' = [worker EXCEPT ![w] = t]
  BY <1>0, <1>1 DEF LeaveOwnTeam, JobGoes, JobEnds, JobReads, JobStates
<1>3. /\ t \in JobStates /\ worker[w].job = "sync" /\ worker[w].pc = "leaving own team"
  BY <1>0, <1>1 DEF LeaveOwnTeam, JobAt, JobStates, JobHolds, PersonRows, ProvisionPcs, SyncPcs, NoJob
<1>4. /\ person' \in PersonRows /\ queued' \in [provision : Nat, sync : Nat]
      /\ lost' \subseteq LostJobs /\ crossed' \in BOOLEAN
      /\ proxyOrg' \in BOOLEAN /\ proxyTeams' \subseteq Departments
  BY <1>0, <1>3, PersonChanges DEF LeaveOwnTeam, proxyVars, OthersHaveRead, JobHolds, JobRead
<1>5. /\ person.accepted => person'.accepted
      /\ person.known => person'.known
      /\ queued'.provision > 0 => person'.accepted
      /\ JobHolds(t)' /\ UNCHANGED <<invites, mailed, archived, edits>>
  BY <1>0, <1>1, <1>3 DEF LeaveOwnTeam, JobHolds, JobRead, HistoryHolds, PersonRows, ProvisionPcs, SyncPcs, NoJob
<1>6. HistoryHolds'
  BY <1>0, <1>3 DEF LeaveOwnTeam, HistoryHolds, AccessIsEarned, JobHolds, JobRead, proxyVars, PersonRows, MayActivate
<1>7. ASSUME ~crossed' PROVE
        /\ ~crossed /\ WorkHolds(worker[w]) /\ Converges
        /\ \A v \in MemberWorkers : v # w => ~HasRead(v)
  <2>1. ~crossed /\ WorkHolds(worker[w]) /\ Converges /\ OneReader
    BY <1>7, WorkerKnows DEF LeaveOwnTeam
  <2>2. HasRead(w)
    BY <1>3 DEF HasRead
  <2> QED BY <2>1, <2>2 DEF OneReader
<1>8. ASSUME ~crossed' PROVE WorkHolds(t)'
  BY <1>0, <1>1, <1>3, <1>7, <1>8 DEF LeaveOwnTeam, WorkHolds, JobRead, Own, proxyVars, HistoryHolds, PersonRows, NoJob, MayActivate
<1>9. ASSUME ~crossed' PROVE Converges'
  <2>1. Matches'
    BY <1>0, <1>3, <1>7, <1>9 DEF LeaveOwnTeam, Matches, WorkHolds, JobRead, Own, PersonRows
  <2> QED BY <2>1 DEF Converges
<1> QED BY <1>0, <1>2, <1>3, <1>4, <1>5, <1>6, <1>7, <1>8, <1>9, WorkerStep DEF WorkerKept

LEMMA UpdateTeamStep ==
    ASSUME MemberInv, NEW w \in MemberWorkers, UpdateTeam(w)
    PROVE  MemberInv'
<1>0. /\ person \in PersonRows /\ proxyOrg \in BOOLEAN /\ proxyTeams \subseteq Departments
      /\ queued \in [provision : Nat, sync : Nat] /\ lost \subseteq LostJobs
      /\ worker \in [MemberWorkers -> JobStates] /\ crossed \in BOOLEAN
      /\ worker[w] \in JobStates /\ JobHolds(worker[w]) /\ HistoryHolds
      /\ queued.provision > 0 => person.accepted
  BY MemberTypes, WorkerKnows
<1>1. PICK t : t = NoJob
  OBVIOUS
<1>2. worker' = [worker EXCEPT ![w] = t]
  BY <1>0, <1>1 DEF UpdateTeam, JobGoes, JobEnds, JobReads, JobStates
<1>3. /\ t \in JobStates /\ worker[w].job = "sync" /\ worker[w].pc = "own team"
  BY <1>0, <1>1 DEF UpdateTeam, JobAt, JobStates, JobHolds, PersonRows, ProvisionPcs, SyncPcs, NoJob
<1>4. /\ person' \in PersonRows /\ queued' \in [provision : Nat, sync : Nat]
      /\ lost' \subseteq LostJobs /\ crossed' \in BOOLEAN
      /\ proxyOrg' \in BOOLEAN /\ proxyTeams' \subseteq Departments
  BY <1>0, <1>3, PersonChanges DEF UpdateTeam, proxyVars, OthersHaveRead, JobHolds, JobRead
<1>5. /\ person.accepted => person'.accepted
      /\ person.known => person'.known
      /\ queued'.provision > 0 => person'.accepted
      /\ JobHolds(t)' /\ UNCHANGED <<invites, mailed, archived, edits>>
  BY <1>0, <1>1, <1>3 DEF UpdateTeam, JobHolds, JobRead, HistoryHolds, PersonRows, ProvisionPcs, SyncPcs, NoJob
<1>6. HistoryHolds'
  BY <1>0, <1>3 DEF UpdateTeam, HistoryHolds, AccessIsEarned, JobHolds, JobRead, proxyVars, PersonRows, MayActivate
<1>7. ASSUME ~crossed' PROVE
        /\ ~crossed /\ WorkHolds(worker[w]) /\ Converges
        /\ \A v \in MemberWorkers : v # w => ~HasRead(v)
  <2>1. ~crossed /\ WorkHolds(worker[w]) /\ Converges /\ OneReader
    BY <1>7, WorkerKnows DEF UpdateTeam
  <2>2. HasRead(w)
    BY <1>3 DEF HasRead
  <2> QED BY <2>1, <2>2 DEF OneReader
<1>8. ASSUME ~crossed' PROVE WorkHolds(t)'
  BY <1>0, <1>1, <1>3, <1>7, <1>8 DEF UpdateTeam, WorkHolds, JobRead, Own, proxyVars, HistoryHolds, PersonRows, NoJob, MayActivate
<1>9. ASSUME ~crossed' PROVE Converges'
  <2>1. Matches'
    BY <1>0, <1>3, <1>7, <1>9 DEF UpdateTeam, Matches, WorkHolds, JobRead, Own, PersonRows
  <2> QED BY <2>1 DEF Converges
<1> QED BY <1>0, <1>2, <1>3, <1>4, <1>5, <1>6, <1>7, <1>8, <1>9, WorkerStep DEF WorkerKept

-----------------------------------------------------------------------------
(* The member's access: the theorems.                                      *)

LEMMA MemberStart == MemberInit => MemberInv
<1> SUFFICES ASSUME MemberInit PROVE MemberInv
  OBVIOUS
<1>1. \A w \in MemberWorkers : worker[w] = NoJob
  BY DEF MemberInit
<1>2. MemberTypeOK /\ worker \in [MemberWorkers -> JobStates]
  <2>1. NoJob \in JobStates
    BY DEF NoJob, JobStates
  <2>2. edits \in 0..MaxEdits
    BY MemberAssumption DEF MemberInit
  <2> QED BY <2>1, <2>2 DEF MemberInit, MemberTypeOK, NoJob
<1>3. HistoryHolds
  BY DEF MemberInit, HistoryHolds, AccessIsEarned
<1>4. JobsHold
  BY <1>1 DEF MemberInit, JobsHold, JobHolds, JobRead, NoJob
<1>5. OneReader /\ WorkDone
  <2>1. \A w \in MemberWorkers : worker[w].pc = "idle" /\ worker[w].job = "none"
    BY <1>1 DEF NoJob
  <2> QED BY <2>1 DEF OneReader, WorkDone, WorkHolds, HasRead, JobRead
<1>6. Converges
  BY DEF MemberInit, Converges
<1> QED BY <1>2, <1>3, <1>4, <1>5, <1>6 DEF MemberInv

LEMMA MemberNextStep == MemberInv /\ [MemberNext]_memberVars => MemberInv'
<1> SUFFICES ASSUME MemberInv, [MemberNext]_memberVars PROVE MemberInv'
  OBVIOUS
<1>1. CASE UNCHANGED memberVars
  BY <1>1, ZenonT(60) DEF memberVars, MemberInv, MemberTypeOK, HistoryHolds, AccessIsEarned, JobsHold, JobHolds,
              JobRead, OneReader, HasRead, WorkDone, WorkHolds, Own, Converges, Matches, SyncToCome,
              ProvisionToCome
<1>2. ASSUME NEW w \in MemberWorkers,
             \/ \E job \in {"provision", "sync"} : ClaimMemberJob(w, job)
             \/ MemberJobFails(w) \/ ReadForProvision(w) \/ CreateUser(w) \/ JoinOrganization(w)
             \/ JoinTeam(w) \/ ActivateMember(w) \/ ReadForSync(w) \/ LeaveOtherTeams(w)
             \/ LeaveOrganization(w) \/ LeaveOwnTeam(w) \/ UpdateMemberships(w) \/ UpdateTeam(w)
      PROVE  MemberInv'
  BY <1>2, ClaimMemberJobStep, MemberJobFailsStep, ReadForProvisionStep, CreateUserStep,
     JoinOrganizationStep, JoinTeamStep, ActivateMemberStep, ReadForSyncStep, LeaveOtherTeamsStep,
     LeaveOrganizationStep, LeaveOwnTeamStep, UpdateMembershipsStep, UpdateTeamStep
<1> QED BY <1>1, <1>2, DirectoryStep DEF MemberNext

\* The invariant holds in every state of every behaviour of the member.
THEOREM MemberInvariant == MemberSpec => []MemberInv
BY MemberStart, MemberNextStep, PTL DEF MemberSpec

\* Type correctness of the member's access.
THEOREM MemberTypeCorrect == MemberSpec => []MemberTypeOK
<1>1. MemberInv => MemberTypeOK
  BY DEF MemberInv
<1> QED BY <1>1, MemberInvariant, PTL

LEMMA MemberSafe == MemberInv => MembersAreSound
<1> SUFFICES ASSUME MemberInv PROVE MembersAreSound
  OBVIOUS
<1>1. AccessIsEarned
  BY DEF MemberInv, HistoryHolds
<1>2. OneOpenInvitation
  BY AtMostOne DEF MemberInv, HistoryHolds, OneOpenInvitation
<1>3. AccessFollowsDirectory
  <2> SUFFICES ASSUME Settled, lost = {}, ~crossed, person.known PROVE Matches
    BY DEF AccessFollowsDirectory, Matches
  <2>1. Converges /\ ~(queued.sync > 0) /\ ~(queued.provision > 0)
    BY DEF MemberInv, Settled
  <2>2. \A w \in MemberWorkers : worker[w].job = "none"
    BY DEF Settled, NoJob
  <2> QED BY <2>1, <2>2 DEF Converges, SyncToCome, ProvisionToCome
<1> QED BY <1>1, <1>2, <1>3 DEF MembersAreSound

\* Nobody is active who did not accept an invitation, one invitation can be
\* accepted, and once the queue is drained the proxy grants what the directory
\* says: for any number of workers, departments and edits.
THEOREM MembersSound == MemberSpec => []MembersAreSound
BY MemberSafe, MemberInvariant, PTL

==============================================================================
