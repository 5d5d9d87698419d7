--------------------------- MODULE AccountSession ---------------------------
(***************************************************************************)
(* Login sessions and tokens of one account (utils/tokenManager.js,        *)
(* middleware/jwt-auth.js, services/localAccountService.js).  A token      *)
(* carries the token version of the account when it was signed, and mostly *)
(* a session.  Login, refresh and the check of a request read the account  *)
(* and the session at different moments, while PINs are changed and reset, *)
(* the account is disabled and sessions are logged out; each of these is   *)
(* one transaction, and a login two, with the session made last.           *)
(*                                                                         *)
(* A PIN is the number of the change that set it, as every hash has its    *)
(* own salt.  The account is of a school whose teachers log in with PINs,  *)
(* so that importing them sets one; in the other modes an import writes    *)
(* back the hash it has read, without a new version, which is left out.    *)
(* Left out too are expiry, which only refuses more, the shared password   *)
(* of a school, and refresh tokens without a session.                      *)
(***************************************************************************)
EXTENDS Naturals, NoValue

CONSTANTS
    Logins,         \* login sessions
    Workers,        \* requests under way
    MaxPin,         \* bound on the number of PINs
    MaxVersion      \* bound on the token version

VARIABLES
    account,        \* Account
    logins,         \* AccountSession
    tokens,         \* access tokens that were ever given out
    work            \* what each request has read

accountVars == <<account, logins, tokens, work>>

Account == [version: 1..MaxVersion, pin: 1..MaxPin, disabled: BOOLEAN]
\* A session with the version in its refresh token and, as history, the PIN that
\* was given to open it.
Login == [revoked: BOOLEAN, version: 1..MaxVersion, pin: 1..MaxPin]
\* A token of a session, or of the time before sessions (version 1 only).
Token == [login: Logins \cup {Null}, version: 1..MaxVersion]

\* A request: what it is, how far it is, the credential it came with, the rows it
\* has read, and, as history, whether that credential was already dead.
Work == [kind: {"login", "refresh", "access", "change"}, login: Logins \cup {Null},
         version: 1..MaxVersion, row: Account \cup {Null},
         session: Login \cup {Null}, updated: BOOLEAN, dead: BOOLEAN]

\* The rows, the tokens and the requests.
AccountTypeOK ==
    /\ account \in Account
    /\ logins \in [Logins -> Login \cup {Null}]
    /\ tokens \subseteq Token
    /\ work \in [Workers -> Work \cup {Null}]

AccountInit ==
    /\ account = [version |-> 1, pin |-> 1, disabled |-> FALSE]
    /\ logins = [s \in Logins |-> Null]
    /\ tokens = {[login |-> Null, version |-> 1]}
    /\ work = [w \in Workers |-> Null]

\* What the checks look for, at one moment: a token or refresh token that is not
\* alive stays dead.
Alive(login, version) ==
    /\ ~account.disabled /\ account.version = version
    /\ login # Null => logins[login] # Null /\ ~logins[login].revoked

Arrive(w, kind, login, version) ==
    work' = [work EXCEPT ![w] =
        [kind |-> kind, login |-> login, version |-> version, row |-> Null,
         session |-> Null, updated |-> FALSE, dead |-> ~Alive(login, version)]]

-----------------------------------------------------------------------------
(* Login.                                                                  *)

\* loginLocalAccount, first part: the account is read and the PIN compared.
BeginLogin(w) ==
    /\ work[w] = Null
    /\ ~account.disabled
    /\ work' = [work EXCEPT ![w] =
         [kind |-> "login", login |-> Null, version |-> account.version, row |-> account,
          session |-> Null, updated |-> FALSE, dead |-> FALSE]]
    /\ UNCHANGED <<account, logins, tokens>>

\* The account is what was verified, or the login fails.
StillVerified(row) ==
    /\ account.version = row.version /\ account.pin = row.pin /\ ~account.disabled
ConfirmLogin(w) ==
    /\ work[w] # Null /\ work[w].kind = "login" /\ ~work[w].updated
    /\ work' = [work EXCEPT ![w] = IF StillVerified(work[w].row)
                                   THEN [work[w] EXCEPT !.updated = TRUE] ELSE Null]
    /\ UNCHANGED <<account, logins, tokens>>

\* generateTokenPair: a session of its own, and tokens of the version verified.
OpenLogin(w, s) ==
    /\ work[w] # Null /\ work[w].kind = "login" /\ work[w].updated
    /\ logins[s] = Null
    /\ logins' = [logins EXCEPT ![s] = [revoked |-> FALSE, version |-> work[w].row.version,
                                        pin |-> work[w].row.pin]]
    /\ tokens' = tokens \cup {[login |-> s, version |-> work[w].row.version]}
    /\ work' = [work EXCEPT ![w] = Null]
    /\ UNCHANGED account

-----------------------------------------------------------------------------
(* Requests with a token.                                                  *)

BeginAccess(w, t) ==
    /\ work[w] = Null
    /\ Arrive(w, "access", t.login, t.version)
    /\ UNCHANGED <<account, logins, tokens>>

BeginRefresh(w, s) ==
    /\ work[w] = Null
    /\ logins[s] # Null
    /\ Arrive(w, "refresh", s, logins[s].version)
    /\ UNCHANGED <<account, logins, tokens>>

\* The account is read; a check of a request stops here if it is disabled or has
\* another version (a token without session and version counts as version 1).
RowAccepted(job) ==
    \/ job.kind = "refresh"
    \/ ~account.disabled /\ account.version = job.version
ReadAccount(w) ==
    /\ work[w] # Null /\ work[w].kind \in {"access", "refresh"} /\ work[w].row = Null
    /\ work' = [work EXCEPT ![w] = IF RowAccepted(work[w])
                                   THEN [work[w] EXCEPT !.row = account] ELSE Null]
    /\ UNCHANGED <<account, logins, tokens>>

\* The session is read; a refresh reads both at once, in either order.
ReadLogin(w) ==
    /\ work[w] # Null /\ work[w].kind \in {"access", "refresh"}
    /\ work[w].login # Null /\ work[w].session = Null
    /\ work[w].kind = "access" => work[w].row # Null
    /\ work' = [work EXCEPT ![w] = IF logins[work[w].login].revoked
                                   THEN Null ELSE [work[w] EXCEPT !.session = logins[work[w].login]]]
    /\ UNCHANGED <<account, logins, tokens>>

\* Mutant: the version is not compared last.
CompleteUnversioned(job) ==
    /\ job.row # Null
    /\ job.login # Null => job.session # Null

\* Everything was read and found right; a refresh compares the version last.
Complete(job) ==
    /\ job.row # Null
    /\ job.login # Null => job.session # Null
    /\ job.row.version = job.version

\* The answer: a refresh, or a request whose token runs out, gives a new token,
\* signed with the account as it was read.
Answer(w) ==
    /\ work[w] # Null /\ work[w].kind \in {"access", "refresh"}
    /\ Complete(work[w])
    /\ \E renew \in {work[w].kind = "refresh", work[w].login # Null} :
        tokens' = IF renew
                  THEN tokens \cup {[login |-> work[w].login, version |-> work[w].row.version]}
                  ELSE tokens
    /\ work' = [work EXCEPT ![w] = Null]
    /\ UNCHANGED <<account, logins>>

\* A request that is refused.
Drop(w) ==
    /\ work[w] # Null
    /\ work' = [work EXCEPT ![w] = Null]
    /\ UNCHANGED <<account, logins, tokens>>

-----------------------------------------------------------------------------
(* What ends sessions.                                                     *)

Revoked == [s \in Logins |-> IF logins[s] = Null THEN Null
                             ELSE [logins[s] EXCEPT !.revoked = TRUE]]

\* Mutant: the sessions are revoked, the version stays.
ReplaceSessions(row) ==
    /\ account.version < MaxVersion
    /\ account' = row
    /\ logins' = Revoked

\* revokeReplacedCredentialSessions and its likes: the next version, and every
\* session revoked, in the transaction that changes the account.
Replace(row) ==
    /\ account.version < MaxVersion
    /\ account' = [row EXCEPT !.version = account.version + 1]
    /\ logins' = Revoked

\* A manager sets a PIN (updateManagedLocalAccount, createLocalAdministrator,
\* importLocalTeachers, recoverLocalOwner), which may also enable the account.
ResetPin ==
    /\ account.pin < MaxPin
    /\ \E off \in {FALSE, account.disabled} :
        Replace([account EXCEPT !.pin = @ + 1, !.disabled = off])
    /\ UNCHANGED <<tokens, work>>

\* A manager disables (deactivateLocalAccount) or enables the account
\* (updateManagedLocalAccount); only the first ends its sessions.
Disable ==
    /\ ~account.disabled
    /\ Replace([account EXCEPT !.disabled = TRUE])
    /\ UNCHANGED <<tokens, work>>
Enable ==
    /\ account.disabled
    /\ account' = [account EXCEPT !.disabled = FALSE]
    /\ UNCHANGED <<logins, tokens, work>>

\* changeOwnLocalPin: somebody who is logged in; the current PIN is compared with
\* the account as read, and the new one written whatever the account is by then.
BeginChange(w) ==
    /\ work[w] = Null
    /\ \E t \in tokens : Alive(t.login, t.version)
    /\ work' = [work EXCEPT ![w] =
         [kind |-> "change", login |-> Null, version |-> account.version, row |-> account,
          session |-> Null, updated |-> FALSE, dead |-> FALSE]]
    /\ UNCHANGED <<account, logins, tokens>>
ChangePin(w) ==
    /\ work[w] # Null /\ work[w].kind = "change"
    /\ account.pin < MaxPin
    /\ Replace([account EXCEPT !.pin = @ + 1])
    /\ work' = [work EXCEPT ![w] = Null]
    /\ UNCHANGED tokens

\* Logging out one session (revokeRefreshToken) or all (revokeAllTokens).
Logout(s) ==
    /\ logins[s] # Null /\ ~logins[s].revoked
    /\ logins' = [logins EXCEPT ![s].revoked = TRUE]
    /\ UNCHANGED <<account, tokens, work>>
LogoutAll ==
    /\ Replace(account)
    /\ UNCHANGED <<tokens, work>>

AccountNext ==
    \/ \E w \in Workers :
        \/ BeginLogin(w) \/ ConfirmLogin(w) \/ ReadAccount(w) \/ ReadLogin(w)
        \/ Answer(w) \/ Drop(w) \/ BeginChange(w) \/ ChangePin(w)
        \/ \E s \in Logins : OpenLogin(w, s) \/ BeginRefresh(w, s)
        \/ \E t \in tokens : BeginAccess(w, t)
    \/ ResetPin \/ Disable \/ Enable \/ LogoutAll
    \/ \E s \in Logins : Logout(s)

AccountSpec == AccountInit /\ [][AccountNext]_accountVars

-----------------------------------------------------------------------------
(* Properties.                                                             *)

\* A request that arrives with a dead credential, because its session was logged
\* out, its PIN replaced or its account disabled, is never let in, even if the
\* account is enabled or logged in again while it is checked.
DeadStaysOut ==
    \A w \in Workers :
        work[w] # Null /\ work[w].kind \in {"access", "refresh"} /\ Complete(work[w])
            => ~work[w].dead

\* Whatever can still be used was opened with the PIN that is current: neither a
\* login that was verified against a replaced PIN nor a token that a slow refresh
\* or renewal signs afterwards is of use.
ReplacedPinOpensNothing ==
    \A t \in tokens : t.login # Null /\ Alive(t.login, t.version)
        => logins[t.login].pin = account.pin
=============================================================================
