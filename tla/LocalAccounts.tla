---------------------------- MODULE LocalAccounts ----------------------------
(***************************************************************************)
(* The password account of one mail address: verification codes,           *)
(* registration, provisioning at the proxy, logins and sessions, password  *)
(* changes and resets by mailed link, and an invitation that binds the     *)
(* account to an organization's member.  A login may find that the hash of *)
(* the password is not of today's kind (an older library made it, or none  *)
(* is installed) and writes the password it was given again.  The store    *)
(* (SQLite) makes each of its operations atomic; a handler calls several   *)
(* of them and may be overtaken, or die, between two.  The invitation      *)
(* lives in another database.  That codes and links expire only forbids    *)
(* their use, which no step here is obliged to make.                       *)
(*                                                                         *)
(* Passwords are numbered in the order they are chosen.                    *)
(***************************************************************************)
EXTENDS Naturals, FiniteSets

CONSTANTS
  UserIds,      \* ids an account of the address can have, in turn
  Handlers,     \* requests in progress, also the names of their sessions
  Links,        \* password reset links
  MaxAttempts,  \* guesses a verification code allows
  MaxPasswords, \* bound: how often the password changes
  NoUser

ASSUME AccountsAssumption ==
  /\ NoUser \notin UserIds
  /\ MaxAttempts \in Nat \ {0} /\ MaxPasswords \in Nat

VARIABLES
  account,     \* the row of auth_users with the address
  former,      \* ids of deleted accounts
  code,        \* the newest verification code: open, attempts made
  links,       \* auth_password_reset_tokens
  sessions,    \* auth_sessions, at: the password when the row was written
  upstream,    \* auth_upstream_accounts.status of the account
  openJob,     \* the account has an open row in auth_provisioning_jobs
  proxyUsers,  \* users the proxy knows
  invitation,  \* customer_invitation and its member's auth_user_id
  handler,     \* per request: where it is, and what it has read
  chosen,      \* the password chosen last
  restored     \* a login has put an earlier password back, and none was chosen since

accountVars ==
  <<account, former, code, links, sessions, upstream, openJob, proxyUsers, invitation, handler,
    chosen, restored>>

passwordVars == <<chosen, restored>>

NoAccount == [id |-> NoUser, active |-> FALSE, password |-> 0, seen |-> FALSE]
NoLink == [user |-> NoUser, stage |-> "none"]
NoSession == [user |-> NoUser, at |-> 0, live |-> FALSE]
Waiting == [pc |-> "idle", user |-> NoUser, link |-> NoUser, typed |-> 0, made |-> FALSE]

AccountsInit ==
  /\ account = NoAccount /\ former = {}
  /\ code = [open |-> FALSE, attempts |-> 0]
  /\ links = [l \in Links |-> NoLink]
  /\ sessions = [h \in Handlers |-> NoSession]
  /\ upstream = "none" /\ openJob = FALSE /\ proxyUsers = {}
  /\ invitation = [state |-> "open", bound |-> NoUser]
  /\ handler = [h \in Handlers |-> Waiting]
  /\ chosen = 0 /\ restored = FALSE

Exists(u) == u # NoUser /\ account.id = u
HandlerAt(h, pc) == handler[h].pc = pc
HandlerGoes(h, pc) == handler' = [handler EXCEPT ![h].pc = pc]
HandlerStarts(h, pc) ==
  HandlerAt(h, "idle") /\ handler' = [handler EXCEPT ![h].pc = pc, ![h].user = account.id]

\* A fresh account with one of the ids not used before.
Opens(u) ==
  /\ u \notin former /\ account' = [id |-> u, active |-> TRUE, password |-> 0, seen |-> FALSE]

-----------------------------------------------------------------------------
(* Verification and registration *)

\* The code is stored only when its mail is delivered.
AskCode(h) ==
  /\ account = NoAccount /\ HandlerStarts(h, "mailingCode")
  /\ UNCHANGED <<account, former, code, links, sessions, upstream, openJob, proxyUsers, invitation,
                 passwordVars>>

StoreCode(h) ==
  /\ HandlerAt(h, "mailingCode") /\ HandlerGoes(h, "done")
  /\ code' = [open |-> TRUE, attempts |-> 0]
  /\ UNCHANGED <<account, former, links, sessions, upstream, openJob, proxyUsers, invitation,
                 passwordVars>>

AskAccount(h) ==
  /\ account = NoAccount /\ HandlerStarts(h, "registering")
  /\ UNCHANGED <<account, former, code, links, sessions, upstream, openJob, proxyUsers, invitation,
                 passwordVars>>

\* Mutant: guesses are counted and never refused.
CodeUsableStill == code.open

CodeUsable == code.open /\ code.attempts < MaxAttempts

\* The code is spent and the account opened in one transaction, which an
\* account that exists by now rolls back.
Register(h) ==
  /\ HandlerAt(h, "registering") /\ CodeUsable
  /\ IF account = NoAccount
     THEN \E u \in UserIds :
            /\ Opens(u)
            /\ code' = [open |-> FALSE, attempts |-> code.attempts + 1]
            /\ handler' = [handler EXCEPT ![h].pc = "recording", ![h].user = u]
     ELSE HandlerGoes(h, "done") /\ UNCHANGED <<account, code>>
  /\ UNCHANGED <<former, links, sessions, upstream, openJob, proxyUsers, invitation, passwordVars>>

WrongCode(h) ==
  /\ HandlerAt(h, "registering") /\ CodeUsable /\ HandlerGoes(h, "done")
  /\ code' = [code EXCEPT !.attempts = @ + 1]
  /\ UNCHANGED <<account, former, links, sessions, upstream, openJob, proxyUsers, invitation,
                 passwordVars>>

-----------------------------------------------------------------------------
(* Provisioning at the proxy *)

\* A row of its own, which refers to an account that is there.
RecordProvisioning(h) ==
  /\ HandlerAt(h, "recording")
  /\ IF Exists(handler[h].user)
     THEN upstream' = "provisioning" /\ HandlerGoes(h, "provisioning")
     ELSE HandlerGoes(h, "done") /\ UNCHANGED upstream
  /\ UNCHANGED <<account, former, code, links, sessions, openJob, proxyUsers, invitation,
                 passwordVars>>

\* The proxy creates the user or already has it, and is asked again when it
\* calls it a duplicate; or it fails, before or after it created the user.
ProxyAnswers(h) ==
  /\ HandlerAt(h, "provisioning")
  /\ \/ /\ proxyUsers' = proxyUsers \cup {handler[h].user} /\ HandlerGoes(h, "provisioned")
     \/ /\ proxyUsers' \in {proxyUsers, proxyUsers \cup {handler[h].user}} /\ HandlerGoes(h, "failed")
  /\ UNCHANGED <<account, former, code, links, sessions, upstream, openJob, invitation,
                 passwordVars>>

RecordStatus(h) ==
  /\ HandlerAt(h, "provisioned") \/ HandlerAt(h, "failed")
  /\ upstream' = IF HandlerAt(h, "failed") THEN "failed" ELSE "provisioned"
  /\ HandlerGoes(h, IF HandlerAt(h, "failed") THEN "queueing" ELSE "completing")
  /\ UNCHANGED <<account, former, code, links, sessions, openJob, proxyUsers, invitation,
                 passwordVars>>

RecordJob(h) ==
  /\ HandlerAt(h, "queueing") \/ HandlerAt(h, "completing")
  /\ openJob' = HandlerAt(h, "queueing") /\ HandlerGoes(h, "done")
  /\ UNCHANGED <<account, former, code, links, sessions, upstream, proxyUsers, invitation,
                 passwordVars>>

\* A session request: it ends the session of an account that is not active,
\* and retries a provisioning that has not succeeded, unless the account
\* belongs to an organization.
Visit(h, s) ==
  /\ sessions[s].live /\ HandlerAt(h, "idle")
  /\ IF ~Exists(sessions[s].user) \/ ~account.active
     THEN /\ sessions' = [sessions EXCEPT ![s].live = FALSE]
          /\ UNCHANGED <<handler, upstream>>
     ELSE /\ upstream \in {"provisioning", "failed"} /\ invitation.bound # account.id
          /\ HandlerStarts(h, "provisioning") /\ upstream' = "provisioning"
          /\ UNCHANGED sessions
  /\ UNCHANGED <<account, former, code, links, openJob, proxyUsers, invitation, passwordVars>>

-----------------------------------------------------------------------------
(* Logins, passwords, reset links *)

\* The password is checked against the row that was read.
Login(h) ==
  /\ account.active /\ HandlerAt(h, "idle")
  /\ \/ HandlerStarts(h, "loggingIn")
     \/ handler' = [handler EXCEPT ![h].pc = "rehashing", ![h].user = account.id,
                                   ![h].typed = account.password]
  /\ UNCHANGED <<account, former, code, links, sessions, upstream, openJob, proxyUsers, invitation,
                 passwordVars>>

TouchLogin(h) ==
  /\ HandlerAt(h, "loggingIn") /\ HandlerGoes(h, "opening")
  /\ account' = IF Exists(handler[h].user) THEN [account EXCEPT !.seen = TRUE] ELSE account
  /\ UNCHANGED <<former, code, links, sessions, upstream, openJob, proxyUsers, invitation,
                 passwordVars>>

OpenSession(h) ==
  /\ HandlerAt(h, "opening") /\ HandlerGoes(h, "done")
  /\ sessions' = IF Exists(handler[h].user)
                 THEN [sessions EXCEPT ![h] =
                        [user |-> account.id, at |-> account.password, live |-> TRUE]]
                 ELSE sessions
  /\ UNCHANGED <<account, former, code, links, upstream, openJob, proxyUsers, invitation,
                 passwordVars>>

SessionsEnded(u) ==
  [s \in Handlers |-> IF sessions[s].user = u THEN [sessions[s] EXCEPT !.live = FALSE]
                                              ELSE sessions[s]]

LinksUsed(u) ==
  [l \in Links |-> IF links[l].user = u /\ links[l].stage \in {"pending", "active"}
                   THEN [links[l] EXCEPT !.stage = "used"] ELSE links[l]]

\* update_password with the password the login was given: whatever the row says by
\* now, and the links with it.
Rehash(h) ==
  /\ HandlerAt(h, "rehashing")
  /\ handler' = [handler EXCEPT ![h].pc = "loggingIn", ![h].typed = 0]
  /\ IF Exists(handler[h].user)
     THEN /\ account' = [account EXCEPT !.password = handler[h].typed]
          /\ links' = LinksUsed(handler[h].user)
          /\ restored' = (restored \/ account.password # handler[h].typed)
     ELSE UNCHANGED <<account, links, restored>>
  /\ UNCHANGED <<former, code, sessions, upstream, openJob, proxyUsers, invitation, chosen>>

NewPassword ==
  /\ chosen < MaxPasswords /\ chosen' = chosen + 1 /\ restored' = FALSE
  /\ account' = [account EXCEPT !.password = chosen + 1]

ChangePassword(h, s) ==
  /\ sessions[s].live /\ Exists(sessions[s].user) /\ account.active
  /\ HandlerStarts(h, "changing")
  /\ UNCHANGED <<account, former, code, links, sessions, upstream, openJob, proxyUsers, invitation,
                 passwordVars>>

\* update_password: the session that let the request in may have ended by now.
WritePassword(h) ==
  /\ HandlerAt(h, "changing") /\ HandlerGoes(h, "changed")
  /\ NewPassword /\ links' = LinksUsed(handler[h].user)
  /\ UNCHANGED <<former, code, sessions, upstream, openJob, proxyUsers, invitation>>

EndSessions(h) ==
  /\ HandlerAt(h, "changed") /\ HandlerGoes(h, "opening")
  /\ sessions' = SessionsEnded(handler[h].user)
  /\ UNCHANGED <<account, former, code, links, upstream, openJob, proxyUsers, invitation,
                 passwordVars>>

\* Mutant: asking for a new link uses up the ones before.
LinkAddedAlone(l, u) == [LinksUsed(u) EXCEPT ![l] = [user |-> u, stage |-> "pending"]]

LinkAdded(l, u) == [links EXCEPT ![l] = [user |-> u, stage |-> "pending"]]

ForgotPassword(h, l) ==
  /\ account # NoAccount /\ links[l] = NoLink
  /\ HandlerAt(h, "idle") /\ links' = LinkAdded(l, account.id)
  /\ handler' = [handler EXCEPT ![h].pc = "mailing", ![h].user = account.id, ![h].link = l]
  /\ UNCHANGED <<account, former, code, sessions, upstream, openJob, proxyUsers, invitation,
                 passwordVars>>

\* Mutant: the links before the new one stay usable.
ActivatedAlso(l) == [links EXCEPT ![l].stage = "active"]

\* A delivered link replaces the ones delivered before.
Activated(l) ==
  [k \in Links |->
     IF k = l THEN [links[k] EXCEPT !.stage = "active"]
     ELSE IF links[k].user = links[l].user /\ links[k].stage = "active"
          THEN [links[k] EXCEPT !.stage = "used"] ELSE links[k]]

\* The mail is out: a link that was used up meanwhile stays so.
ActivateLink(h, l) ==
  /\ HandlerAt(h, "mailing") /\ handler[h].link = l /\ HandlerGoes(h, "done")
  /\ links' = IF links[l].stage = "pending" THEN Activated(l) ELSE links
  /\ UNCHANGED <<account, former, code, sessions, upstream, openJob, proxyUsers, invitation,
                 passwordVars>>

\* The mail failed.
DeleteLink(h, l) ==
  /\ HandlerAt(h, "mailing") /\ handler[h].link = l /\ HandlerGoes(h, "done")
  /\ links' = IF links[l].stage = "pending" THEN [links EXCEPT ![l].stage = "deleted"] ELSE links
  /\ UNCHANGED <<account, former, code, sessions, upstream, openJob, proxyUsers, invitation,
                 passwordVars>>

ResetPassword(l) ==
  /\ links[l].stage = "active" /\ Exists(links[l].user)
  /\ NewPassword /\ links' = LinksUsed(account.id) /\ sessions' = SessionsEnded(account.id)
  /\ UNCHANGED <<former, code, upstream, openJob, proxyUsers, invitation, handler>>

\* The platform suspends and restores the account.
SetUserStatus(active) ==
  /\ account # NoAccount /\ account' = [account EXCEPT !.active = active]
  /\ sessions' = IF active THEN sessions ELSE SessionsEnded(account.id)
  /\ UNCHANGED <<former, code, links, upstream, openJob, proxyUsers, invitation, handler,
                 passwordVars>>

-----------------------------------------------------------------------------
(* The invitation *)

VerifyInvitation(h) ==
  /\ invitation.state = "open"
  /\ HandlerStarts(h, IF account = NoAccount THEN "creating" ELSE "binding")
  /\ UNCHANGED <<account, former, code, links, sessions, upstream, openJob, proxyUsers, invitation,
                 passwordVars>>

\* The account is opened, or found when it was opened meanwhile.
CreateInvited(h) ==
  /\ HandlerAt(h, "creating")
  /\ IF account = NoAccount
     THEN \E u \in UserIds :
            /\ Opens(u)
            /\ handler' = [handler EXCEPT ![h].pc = "binding", ![h].user = u, ![h].made = TRUE]
     ELSE /\ handler' = [handler EXCEPT ![h].pc = "binding", ![h].user = account.id]
          /\ UNCHANGED account
  /\ UNCHANGED <<former, code, links, sessions, upstream, openJob, proxyUsers, invitation,
                 passwordVars>>

\* The other database consumes the invitation and binds the member, once.
AcceptInvitation(h) ==
  /\ HandlerAt(h, "binding")
  /\ IF invitation.state = "open"
     THEN invitation' = [state |-> "consumed", bound |-> handler[h].user] /\ HandlerGoes(h, "done")
     ELSE HandlerGoes(h, IF handler[h].made THEN "undoing" ELSE "done") /\ UNCHANGED invitation
  /\ UNCHANGED <<account, former, code, links, sessions, upstream, openJob, proxyUsers,
                 passwordVars>>

\* Nothing in this database refers to the account yet.
Deletable(u) ==
  /\ Exists(u) /\ ~account.seen
  /\ \A s \in Handlers : sessions[s].user # u
  /\ upstream = "none" /\ ~openJob

UndoAccount(h) ==
  /\ HandlerAt(h, "undoing") /\ HandlerGoes(h, "done")
  /\ IF Deletable(handler[h].user)
     THEN /\ account' = NoAccount /\ former' = former \cup {handler[h].user}
          /\ links' = [l \in Links |-> IF links[l].user = handler[h].user
                                       THEN [links[l] EXCEPT !.stage = "deleted"] ELSE links[l]]
     ELSE UNCHANGED <<account, former, links>>
  /\ UNCHANGED <<code, sessions, upstream, openJob, proxyUsers, invitation, passwordVars>>

RevokeInvitation ==
  /\ invitation.state = "open" /\ invitation' = [invitation EXCEPT !.state = "revoked"]
  /\ UNCHANGED <<account, former, code, links, sessions, upstream, openJob, proxyUsers, handler,
                 passwordVars>>

-----------------------------------------------------------------------------
AccountsNext ==
  \/ \E h \in Handlers :
       \/ AskCode(h) \/ StoreCode(h) \/ AskAccount(h) \/ Register(h) \/ WrongCode(h)
       \/ RecordProvisioning(h) \/ ProxyAnswers(h) \/ RecordStatus(h) \/ RecordJob(h)
       \/ Login(h) \/ Rehash(h) \/ TouchLogin(h) \/ OpenSession(h)
       \/ WritePassword(h) \/ EndSessions(h)
       \/ VerifyInvitation(h) \/ CreateInvited(h) \/ AcceptInvitation(h) \/ UndoAccount(h)
       \/ \E s \in Handlers : Visit(h, s) \/ ChangePassword(h, s)
       \/ \E l \in Links : ForgotPassword(h, l) \/ ActivateLink(h, l) \/ DeleteLink(h, l)
  \/ \E l \in Links : ResetPassword(l)
  \/ \E active \in BOOLEAN : SetUserStatus(active)
  \/ RevokeInvitation

AccountsSpec == AccountsInit /\ [][AccountsNext]_accountVars

-----------------------------------------------------------------------------
(* Properties *)

Pcs == {"idle", "mailingCode", "registering", "recording", "provisioning", "provisioned",
        "failed", "queueing", "completing", "rehashing", "loggingIn", "opening", "changing",
        "changed", "creating", "binding", "undoing", "mailing", "done"}

AccountsTypeOK ==
  /\ account \in [id : UserIds \cup {NoUser}, active : BOOLEAN, password : 0..MaxPasswords,
                  seen : BOOLEAN]
  /\ former \subseteq UserIds /\ proxyUsers \subseteq UserIds
  /\ code \in [open : BOOLEAN, attempts : 0..MaxAttempts]
  /\ links \in [Links -> [user : UserIds \cup {NoUser},
                          stage : {"none", "pending", "active", "used", "deleted"}]]
  /\ sessions \in [Handlers -> [user : UserIds \cup {NoUser}, at : 0..MaxPasswords,
                                live : BOOLEAN]]
  /\ upstream \in {"none", "provisioning", "failed", "provisioned"} /\ openJob \in BOOLEAN
  /\ invitation \in [state : {"open", "consumed", "revoked"}, bound : UserIds \cup {NoUser}]
  /\ handler \in [Handlers -> [pc : Pcs, user : UserIds \cup {NoUser}, link : Links \cup {NoUser},
                               typed : 0..MaxPasswords, made : BOOLEAN]]
  /\ chosen \in 0..MaxPasswords /\ restored \in BOOLEAN

\* However many links are asked for at once, one of them works.
OneLiveLink == \A k, l \in Links :
  links[k].stage = "active" /\ links[l].stage = "active" => k = l

\* A session opened under another password is open only while the change that
\* will end it is between its two steps, or after a login that overlapped a change
\* has put the earlier password back, which ends no session.
\* A login checked before a change may open its session after it; the session then
\* counts as one of the new password.
SessionsEndWithPassword == \A s \in Handlers :
  sessions[s].live /\ sessions[s].at # account.password =>
    restored \/ \E h \in Handlers : HandlerAt(h, "changed")

\* An account recorded as provisioned has its user at the proxy.
ProvisionedIsReal == upstream = "provisioned" => account.id \in proxyUsers

\* No session and no provisioning belongs to an account that was undone.
UsedAccountsStay == \A s \in Handlers : sessions[s].user \notin former

AccountsAreSound ==
  OneLiveLink /\ SessionsEndWithPassword /\ ProvisionedIsReal /\ UsedAccountsStay

\* A mail that fails must not cost the user the link delivered before: a link
\* that works stops working when it is used, when the password changes, when a
\* newer one has been delivered, or when a login writes the password anew.
DeliveredLinkStays ==
  [][\A l \in Links :
       links[l].stage = "active" /\ links'[l].stage # "active" =>
         \/ account'.id # account.id \/ chosen' # chosen
         \/ \E k \in Links \ {l} : links[k].stage = "pending" /\ links'[k].stage = "active"
         \/ \E h \in Handlers : HandlerAt(h, "rehashing") /\ HandlerAt(h, "loggingIn")']_accountVars

\* The account a member is bound to exists: what the compensation of a failed
\* acceptance removes is "a just-created account only while it has no durable
\* activity".  Two acceptances of one invitation break it.
BoundMemberHasAccount == invitation.bound # NoUser => account.id = invitation.bound
=============================================================================
