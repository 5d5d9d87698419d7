------------------------------ MODULE AccessProofs ------------------------------
(***************************************************************************)
(* Proofs about who gets in: login sessions of an account (AccountSession),*)
(* the PIN of a classroom screen (ScreenLogin) and the rooms and events of *)
(* sockets (WorkspaceSocket), each for every number of requests at a time. *)
(* The three specifications share nothing but Null; each has its own       *)
(* inductive invariant.                                                    *)
(***************************************************************************)
EXTENDS AccountSession, ScreenLogin, WorkspaceSocket, TLAPS

-----------------------------------------------------------------------------
(* AccountSession: dead credentials stay out, and tokens of a replaced PIN *)
(* are of no use.                                                          *)

\* AccountBounds are numbers, and Null is no session and no row.
AccountBounds == /\ MaxPin \in Nat \ {0} /\ MaxVersion \in Nat \ {0}
          /\ Null \notin Logins
          /\ \A x \in Login \cup Account : x # Null

\* Version v is none to come, and not the one of a disabled account a: disabling
\* takes a new version.
Older(v, a) == v <= a.version /\ (a.disabled => v < a.version)

\* A token of a session carries its version.
TokenFits(t, a, L) ==
    /\ Older(t.version, a)
    /\ t.login # Null => L[t.login] # Null /\ L[t.login].version = t.version

\* A session of the current version was opened with the current PIN.
LoginFits(x, a) == Older(x.version, a) /\ (x.version = a.version => x.pin = a.pin)

\* A credential that is dead has an old version, which shows when the account is
\* read, or a revoked session, which cannot be read any more.
DeadShows(job, a, L) ==
    \/ /\ job.version < a.version
       /\ job.row # Null => job.row.version > job.version
    \/ job.login # Null /\ L[job.login].revoked /\ job.session = Null

\* What a request has read was so, and its credential is one that was given.
WorkFits(job, a, L) ==
    /\ job.row # Null => /\ job.row.version <= a.version
                         /\ job.row.version = a.version => job.row.pin = a.pin
    /\ job.kind # "change" => Older(job.version, a)
    /\ job.kind = "login" => job.row # Null /\ job.row.version = job.version
    /\ job.kind \in {"access", "refresh"} =>
          /\ job.login # Null => L[job.login] # Null /\ L[job.login].version = job.version
          /\ job.dead => DeadShows(job, a, L)

\* The inductive invariant.
AccountIInv ==
    /\ AccountTypeOK
    /\ \A t \in tokens : TokenFits(t, account, logins)
    /\ \A s \in Logins : logins[s] # Null => LoginFits(logins[s], account)
    /\ \A w \in Workers : work[w] # Null => WorkFits(work[w], account, logins)

\* How accounts and sessions may change: versions grow, a version has one PIN and is
\* not disabled afterwards, sessions keep theirs and are not revived.
Grows(a, L, b, M) ==
    /\ b.version >= a.version
    /\ b.version = a.version => b.pin = a.pin /\ (b.disabled => a.disabled)
    /\ \A s \in Logins : L[s] # Null =>
          /\ M[s] # Null /\ M[s].version = L[s].version /\ M[s].pin = L[s].pin
          /\ L[s].revoked => M[s].revoked

LoginTable == [Logins -> Login \cup {Null}]

-----------------------------------------------------------------------------

LEMMA AccountInitHolds == ASSUME AccountBounds, AccountInit PROVE AccountIInv
  BY DEF AccountBounds, AccountInit, AccountIInv, AccountTypeOK, Account, Token, TokenFits, Older

\* What fits goes on to fit.
LEMMA OlderGrows ==
    ASSUME AccountBounds, NEW a \in Account, NEW b \in Account, NEW L, NEW M, Grows(a, L, b, M),
           NEW v \in 1..MaxVersion, Older(v, a)
    PROVE  Older(v, b)
  BY DEF AccountBounds, Account, Older, Grows

LEMMA TokenGrows ==
    ASSUME AccountBounds, NEW a \in Account, NEW b \in Account, NEW L, NEW M, Grows(a, L, b, M),
           NEW t \in Token, TokenFits(t, a, L)
    PROVE  TokenFits(t, b, M)
  <1>1. t.version \in 1..MaxVersion /\ t.login \in Logins \cup {Null}
    BY DEF Token
  <1>2. Older(t.version, b)
    BY <1>1, OlderGrows DEF TokenFits
  <1> QED
    BY <1>1, <1>2 DEF TokenFits, Grows

LEMMA LoginGrows ==
    ASSUME AccountBounds, NEW a \in Account, NEW b \in Account, NEW L, NEW M, Grows(a, L, b, M),
           NEW x \in Login, LoginFits(x, a)
    PROVE  LoginFits(x, b)
  <1>1. x.version \in 1..MaxVersion
    BY DEF Login
  <1>2. Older(x.version, b)
    BY <1>1, OlderGrows DEF LoginFits
  <1> QED
    BY <1>1, <1>2 DEF LoginFits, Grows, Older, Account

LEMMA WorkGrows ==
    ASSUME AccountBounds, NEW a \in Account, NEW b \in Account, NEW L, NEW M, Grows(a, L, b, M),
           NEW job \in Work, WorkFits(job, a, L)
    PROVE  WorkFits(job, b, M)
  <1>1. /\ job.version \in 1..MaxVersion /\ job.login \in Logins \cup {Null}
        /\ job.row \in Account \cup {Null}
    BY DEF Work
  <1>2. job.row # Null => job.row.version \in 1..MaxVersion
    BY <1>1 DEF Account
  <1>3. job.kind # "change" => Older(job.version, b)
    BY <1>1, OlderGrows DEF WorkFits
  <1>4. a.version \in Nat /\ b.version \in Nat /\ a.version <= b.version
    BY DEF Account, Grows
  <1>5. job.row # Null => /\ job.row.version <= b.version
                          /\ job.row.version = b.version => job.row.pin = b.pin
    BY <1>2, <1>4 DEF WorkFits, Grows
  <1>6. ASSUME job.kind \in {"access", "refresh"}
        PROVE  /\ job.login # Null => M[job.login] # Null /\ M[job.login].version = job.version
               /\ job.dead => DeadShows(job, b, M)
    BY <1>1, <1>2, <1>4, <1>6 DEF WorkFits, Grows, DeadShows
  <1> QED
    BY <1>3, <1>5, <1>6 DEF WorkFits

\* The parts of the invariant.
LEMMA AccountParts ==
    ASSUME AccountBounds, AccountIInv
    PROVE  /\ account \in Account /\ logins \in LoginTable /\ tokens \subseteq Token
           /\ work \in [Workers -> Work \cup {Null}]
           /\ account.version \in 1..MaxVersion /\ account.pin \in 1..MaxPin
           /\ \A s \in Logins : logins[s] # Null => logins[s] \in Login
           /\ \A w \in Workers : work[w] # Null => work[w] \in Work
  BY DEF AccountIInv, AccountTypeOK, Account, LoginTable

\* A step that lets accounts and sessions grow and ends requests, adding nothing.
LEMMA GrowthHolds ==
    ASSUME AccountBounds, AccountIInv, account' \in Account, logins' \in LoginTable,
           Grows(account, logins, account', logins'),
           \A s \in Logins : logins[s] = Null => logins'[s] = Null,
           tokens' = tokens,
           work' \in [Workers -> Work \cup {Null}],
           \A w \in Workers : work'[w] \in {work[w], Null}
    PROVE  AccountIInv'
  <1>1. AccountTypeOK'
    BY AccountParts DEF AccountTypeOK, LoginTable
  <1>2. \A t \in tokens' : TokenFits(t, account', logins')
    BY AccountParts, TokenGrows DEF AccountIInv
  <1>3. ASSUME NEW s \in Logins, logins'[s] # Null PROVE LoginFits(logins'[s], account')
    <2>1. /\ logins[s] # Null /\ logins[s] \in Login
          /\ logins'[s].version = logins[s].version /\ logins'[s].pin = logins[s].pin
      BY <1>3, AccountParts DEF Grows
    <2>2. LoginFits(logins[s], account')
      BY <2>1, AccountParts, LoginGrows DEF AccountIInv
    <2> QED
      BY <2>1, <2>2 DEF LoginFits
  <1>4. ASSUME NEW w \in Workers, work'[w] # Null PROVE WorkFits(work'[w], account', logins')
    BY <1>4, AccountParts, WorkGrows DEF AccountIInv
  <1> QED
    BY <1>1, <1>2, <1>3, <1>4 DEF AccountIInv

\* A step of one request, with what it reads.
LEMMA ReadHolds ==
    ASSUME AccountBounds, AccountIInv, UNCHANGED <<account, logins, tokens>>,
           NEW w \in Workers, NEW x \in Work \cup {Null}, work' = [work EXCEPT ![w] = x],
           x # Null => WorkFits(x, account, logins)
    PROVE  AccountIInv'
  <1>1. AccountTypeOK'
    BY AccountParts DEF AccountTypeOK, LoginTable
  <1>2. ASSUME NEW v \in Workers, work'[v] # Null PROVE WorkFits(work'[v], account, logins)
    BY <1>2, AccountParts DEF AccountIInv
  <1> QED
    BY <1>1, <1>2 DEF AccountIInv

-----------------------------------------------------------------------------

\* Replacing the sessions.
LEMMA AccountReplaceHolds ==
    ASSUME AccountBounds, AccountIInv, NEW row \in Account, Replace(row),
           row.disabled \in BOOLEAN, tokens' = tokens,
           work' \in [Workers -> Work \cup {Null}],
           \A w \in Workers : work'[w] \in {work[w], Null}
    PROVE  AccountIInv'
  <1>1. account' = [row EXCEPT !.version = account.version + 1] /\ logins' = Revoked
    BY DEF Replace
  <1>2. account.version + 1 \in 1..MaxVersion
    BY AccountParts DEF Replace, AccountBounds
  <1>3. account' \in Account /\ account'.version = account.version + 1
    BY <1>1, <1>2 DEF Account
  <1>4. ASSUME NEW s \in Logins
        PROVE  /\ logins[s] = Null => logins'[s] = Null
               /\ logins[s] # Null =>
                    /\ logins'[s] \in Login /\ logins'[s].version = logins[s].version
                    /\ logins'[s].pin = logins[s].pin /\ logins'[s].revoked
    <2>1. logins'[s] = IF logins[s] = Null THEN Null ELSE [logins[s] EXCEPT !.revoked = TRUE]
      BY <1>1 DEF Revoked
    <2>2. logins[s] # Null => logins[s] \in Login
      BY AccountParts
    <2> QED
      BY <2>1, <2>2 DEF Login
  <1>5. logins' \in LoginTable
    <2>1. logins' = [s \in Logins |-> logins'[s]]
      BY <1>1 DEF Revoked
    <2> QED
      BY <1>4, <2>1 DEF LoginTable
  <1>6. Grows(account, logins, account', logins')
    BY <1>3, <1>4, AccountParts DEF Grows, AccountBounds
  <1> QED
    BY <1>3, <1>4, <1>5, <1>6, GrowthHolds

LEMMA ManagerHolds ==
    ASSUME AccountBounds, AccountIInv, ResetPin \/ Disable \/ LogoutAll PROVE AccountIInv'
  <1>1. CASE ResetPin
    <2>1. PICK off \in {FALSE, account.disabled} :
             Replace([account EXCEPT !.pin = account.pin + 1, !.disabled = off])
      BY <1>1 DEF ResetPin
    <2> DEFINE row == [account EXCEPT !.pin = account.pin + 1, !.disabled = off]
    <2>2. account.pin + 1 \in 1..MaxPin
      BY <1>1, AccountParts DEF ResetPin, AccountBounds
    <2>3. off \in BOOLEAN
      <3>1. account.disabled \in BOOLEAN
        BY AccountParts DEF Account
      <3> QED
        BY <3>1
    <2>4. row \in Account /\ row.disabled \in BOOLEAN
      BY <2>2, <2>3, AccountParts DEF Account
    <2>5. tokens' = tokens /\ work' = work /\ Replace(row)
      BY <1>1, <2>1 DEF ResetPin
    <2> HIDE DEF row
    <2> QED
      BY <2>4, <2>5, AccountParts, AccountReplaceHolds
  <1>2. CASE Disable
    <2>1. [account EXCEPT !.disabled = TRUE] \in Account
      BY AccountParts DEF Account
    <2>2. [account EXCEPT !.disabled = TRUE].disabled \in BOOLEAN
      BY <2>1 DEF Account
    <2>3. tokens' = tokens /\ work' = work /\ Replace([account EXCEPT !.disabled = TRUE])
      BY <1>2 DEF Disable
    <2> QED
      BY <2>1, <2>2, <2>3, AccountParts, AccountReplaceHolds
  <1>3. CASE LogoutAll
    <2>1. account.disabled \in BOOLEAN
      BY AccountParts DEF Account
    <2> QED
      BY <1>3, <2>1, AccountParts, AccountReplaceHolds DEF LogoutAll
  <1> QED
    BY <1>1, <1>2, <1>3

LEMMA ChangeHolds == ASSUME AccountBounds, AccountIInv, NEW w \in Workers, ChangePin(w) PROVE AccountIInv'
  <1> DEFINE row == [account EXCEPT !.pin = account.pin + 1]
  <1>1. /\ Replace(row) /\ account.pin < MaxPin /\ tokens' = tokens
        /\ work' = [work EXCEPT ![w] = Null]
    BY DEF ChangePin
  <1>2. account.pin + 1 \in 1..MaxPin
    BY <1>1, AccountParts DEF AccountBounds
  <1>3. row \in Account /\ row.disabled \in BOOLEAN
    BY <1>2, AccountParts DEF Account
  <1>4. /\ work' \in [Workers -> Work \cup {Null}]
        /\ \A v \in Workers : work'[v] \in {work[v], Null}
    BY <1>1, AccountParts
  <1> HIDE DEF row
  <1> QED
    BY <1>1, <1>3, <1>4, AccountReplaceHolds

LEMMA EnableHolds == ASSUME AccountBounds, AccountIInv, Enable PROVE AccountIInv'
  <1>1. /\ account' = [account EXCEPT !.disabled = FALSE]
        /\ logins' = logins /\ tokens' = tokens /\ work' = work
    BY DEF Enable
  <1>2. /\ account' \in Account /\ account'.version = account.version
        /\ account'.pin = account.pin /\ account'.disabled = FALSE
    BY <1>1, AccountParts DEF Account
  <1>3. Grows(account, logins, account', logins')
    BY <1>1, <1>2, AccountParts DEF Grows
  <1> QED
    BY <1>1, <1>2, <1>3, AccountParts, GrowthHolds

LEMMA LogoutHolds == ASSUME AccountBounds, AccountIInv, NEW s \in Logins, Logout(s) PROVE AccountIInv'
  <1>1. PICK y \in Login : y = logins[s]
    BY AccountParts DEF Logout
  <1> DEFINE x == [y EXCEPT !.revoked = TRUE]
  <1>2. /\ logins' = [logins EXCEPT ![s] = x]
        /\ account' = account /\ tokens' = tokens /\ work' = work
    BY <1>1 DEF Logout
  <1>3. x \in Login /\ x.version = y.version /\ x.pin = y.pin /\ x.revoked = TRUE
    BY DEF Login
  <1>4. x # Null
    BY <1>3 DEF AccountBounds
  <1> HIDE DEF x
  <1>5. logins' \in LoginTable
    BY <1>2, <1>3, AccountParts DEF LoginTable
  <1>6. \A z \in Logins : logins'[z] = IF z = s THEN x ELSE logins[z]
    BY <1>2, AccountParts DEF LoginTable
  <1>7. Grows(account, logins, account', logins')
    BY <1>1, <1>2, <1>3, <1>4, <1>6, AccountParts DEF Grows
  <1>8. \A z \in Logins : logins[z] = Null => logins'[z] = Null
    BY <1>6 DEF Logout
  <1> QED
    BY <1>2, <1>5, <1>7, <1>8, AccountParts, GrowthHolds

\* A new session.
LEMMA OpenHolds ==
    ASSUME AccountBounds, AccountIInv, NEW w \in Workers, NEW s \in Logins, OpenLogin(w, s) PROVE AccountIInv'
  <1>1. PICK job \in Work : job = work[w] /\ job.kind = "login" /\ WorkFits(job, account, logins)
    BY AccountParts DEF OpenLogin, AccountIInv
  <1> DEFINE x == [revoked |-> FALSE, version |-> job.row.version, pin |-> job.row.pin]
             t == [login |-> s, version |-> job.row.version]
  <1>2. /\ logins[s] = Null /\ logins' = [logins EXCEPT ![s] = x]
        /\ tokens' = tokens \cup {t} /\ work' = [work EXCEPT ![w] = Null] /\ account' = account
    BY <1>1 DEF OpenLogin
  <1>3. job.row \in Account /\ job.row.version = job.version /\ Older(job.version, account)
    BY <1>1 DEF Work, WorkFits
  <1>4. /\ x \in Login /\ x.version = job.row.version /\ x.pin = job.row.pin
        /\ t \in Token /\ t.login = s /\ t.version = job.row.version
    BY <1>3 DEF Login, Token, Account
  <1>5. x # Null
    BY <1>4 DEF AccountBounds
  <1>6. LoginFits(x, account)
    BY <1>1, <1>3, <1>4 DEF LoginFits, WorkFits, AccountBounds, Account
  <1> HIDE DEF x, t
  <1>7. \A z \in Logins : logins'[z] = IF z = s THEN x ELSE logins[z]
    BY <1>2, AccountParts DEF LoginTable
  <1>8. Grows(account, logins, account, logins')
    BY <1>2, <1>7, AccountParts DEF Grows
  <1>9. TokenFits(t, account, logins')
    BY <1>3, <1>4, <1>5, <1>7 DEF TokenFits
  <1>10. AccountTypeOK'
    BY <1>2, <1>4, AccountParts DEF AccountTypeOK, LoginTable
  <1>11. \A y \in tokens' : TokenFits(y, account, logins')
    BY <1>2, <1>8, <1>9, AccountParts, TokenGrows DEF AccountIInv
  <1>12. \A z \in Logins : logins'[z] # Null => LoginFits(logins'[z], account)
    BY <1>6, <1>7 DEF AccountIInv
  <1>13. ASSUME NEW v \in Workers, work'[v] # Null PROVE WorkFits(work'[v], account, logins')
    <2>1. work'[v] = work[v]
      BY <1>2, <1>13, AccountParts
    <2> QED
      BY <1>8, <1>13, <2>1, AccountParts, WorkGrows DEF AccountIInv
  <1> QED
    BY <1>2, <1>10, <1>11, <1>12, <1>13 DEF AccountIInv

-----------------------------------------------------------------------------

\* A request arrives with a credential that was given.
LEMMA ArriveHolds ==
    ASSUME AccountBounds, AccountIInv, NEW w \in Workers, NEW kind \in {"access", "refresh"},
           NEW login \in Logins \cup {Null}, NEW version \in 1..MaxVersion,
           Older(version, account),
           login # Null => logins[login] # Null /\ logins[login].version = version,
           Arrive(w, kind, login, version),
           UNCHANGED <<account, logins, tokens>>
    PROVE  AccountIInv'
  <1> DEFINE x == [kind |-> kind, login |-> login, version |-> version, row |-> Null,
                   session |-> Null, updated |-> FALSE, dead |-> ~Alive(login, version)]
  <1>1. work' = [work EXCEPT ![w] = x]
    BY DEF Arrive
  <1>2. /\ x.kind = kind /\ x.login = login /\ x.version = version /\ x.row = Null
        /\ x.session = Null /\ x.dead = ~Alive(login, version)
    OBVIOUS
  <1>3. x \in Work
    <2>1. Alive(login, version) \in BOOLEAN
      BY DEF Alive
    <2> QED
      BY <2>1 DEF Work
  <1>4. ~Alive(login, version) =>
           \/ version < account.version
           \/ login # Null /\ logins[login].revoked
    BY AccountParts DEF Alive, Older
  <1> HIDE DEF x
  <1>5. WorkFits(x, account, logins)
    BY <1>2, <1>4 DEF WorkFits, DeadShows
  <1> QED
    BY <1>1, <1>3, <1>5, ReadHolds

LEMMA AccountBeginHolds ==
    ASSUME AccountBounds, AccountIInv, NEW w \in Workers,
           \/ \E t \in tokens : BeginAccess(w, t)
           \/ \E s \in Logins : BeginRefresh(w, s)
    PROVE  AccountIInv'
  <1>1. ASSUME NEW t \in tokens, BeginAccess(w, t) PROVE AccountIInv'
    <2>1. /\ t.login \in Logins \cup {Null} /\ t.version \in 1..MaxVersion
          /\ TokenFits(t, account, logins)
      BY AccountParts DEF Token, AccountIInv
    <2>2. Arrive(w, "access", t.login, t.version) /\ UNCHANGED <<account, logins, tokens>>
      BY <1>1 DEF BeginAccess
    <2> QED
      BY <2>1, <2>2, ArriveHolds DEF TokenFits
  <1>2. ASSUME NEW s \in Logins, BeginRefresh(w, s) PROVE AccountIInv'
    <2>1. /\ logins[s] # Null /\ Arrive(w, "refresh", s, logins[s].version)
          /\ UNCHANGED <<account, logins, tokens>>
      BY <1>2 DEF BeginRefresh
    <2>2. logins[s].version \in 1..MaxVersion /\ Older(logins[s].version, account)
      BY <2>1, AccountParts DEF Login, AccountIInv, LoginFits
    <2> QED
      BY <2>1, <2>2, ArriveHolds
  <1> QED
    BY <1>1, <1>2

\* A login or a change of the PIN reads the account.
LEMMA BeginOwnHolds ==
    ASSUME AccountBounds, AccountIInv, NEW w \in Workers, BeginLogin(w) \/ BeginChange(w) PROVE AccountIInv'
  <1>1. PICK kind \in {"login", "change"} :
           /\ work' = [work EXCEPT ![w] =
                 [kind |-> kind, login |-> Null, version |-> account.version, row |-> account,
                  session |-> Null, updated |-> FALSE, dead |-> FALSE]]
           /\ kind = "login" => ~account.disabled
           /\ UNCHANGED <<account, logins, tokens>>
    BY DEF BeginLogin, BeginChange
  <1> DEFINE x == [kind |-> kind, login |-> Null, version |-> account.version, row |-> account,
                   session |-> Null, updated |-> FALSE, dead |-> FALSE]
  <1>2. /\ x.kind = kind /\ x.version = account.version /\ x.row = account
        /\ x \in Work
    BY AccountParts DEF Work
  <1>3. account # Null
    BY AccountParts DEF AccountBounds
  <1> HIDE DEF x
  <1>4. WorkFits(x, account, logins)
    BY <1>1, <1>2, <1>3, AccountParts DEF WorkFits, Older
  <1>5. work' = [work EXCEPT ![w] = x]
    BY <1>1 DEF x
  <1> QED
    BY <1>1, <1>2, <1>4, <1>5, ReadHolds

\* A request that goes on.
LEMMA GoOnHolds ==
    ASSUME AccountBounds, AccountIInv, NEW w \in Workers,
           ConfirmLogin(w) \/ ReadAccount(w) \/ ReadLogin(w) \/ Drop(w)
    PROVE  AccountIInv'
  <1>1. PICK job \in Work : job = work[w] /\ WorkFits(job, account, logins)
    BY AccountParts DEF ConfirmLogin, ReadAccount, ReadLogin, Drop, AccountIInv
  <1>2. UNCHANGED <<account, logins, tokens>>
    BY DEF ConfirmLogin, ReadAccount, ReadLogin, Drop
  <1>3. CASE work' = [work EXCEPT ![w] = Null]
    BY <1>2, <1>3, ReadHolds
  <1>4. CASE ConfirmLogin(w) /\ work' = [work EXCEPT ![w] = [job EXCEPT !.updated = TRUE]]
    <2> DEFINE x == [job EXCEPT !.updated = TRUE]
    <2>1. /\ x \in Work /\ x.row = job.row /\ x.kind = job.kind /\ x.version = job.version
          /\ x.login = job.login /\ x.session = job.session /\ x.dead = job.dead
      BY DEF Work
    <2>2. work' = [work EXCEPT ![w] = x]
      BY <1>4
    <2> HIDE DEF x
    <2>3. WorkFits(x, account, logins)
      BY <1>1, <2>1 DEF WorkFits, DeadShows
    <2> QED
      BY <1>2, <2>1, <2>2, <2>3, ReadHolds
  <1>5. CASE ReadAccount(w) /\ work' = [work EXCEPT ![w] = [job EXCEPT !.row = account]]
    <2> DEFINE x == [job EXCEPT !.row = account]
    <2>1. /\ x \in Work /\ x.row = account /\ x.kind = job.kind /\ x.version = job.version
          /\ x.login = job.login /\ x.session = job.session /\ x.dead = job.dead
      BY AccountParts DEF Work
    <2>2. work' = [work EXCEPT ![w] = x] /\ job.kind \in {"access", "refresh"}
      BY <1>1, <1>5 DEF ReadAccount
    <2>3. job.version \in 1..MaxVersion
      BY DEF Work
    <2> HIDE DEF x
    <2>4. WorkFits(x, account, logins)
      BY <1>1, <2>1, <2>2, <2>3, AccountParts DEF WorkFits, DeadShows
    <2> QED
      BY <1>2, <2>1, <2>2, <2>4, ReadHolds
  <1>6. CASE ReadLogin(w) /\ ~logins[job.login].revoked
    <2> DEFINE x == [job EXCEPT !.session = logins[job.login]]
    <2>1. /\ work' = [work EXCEPT ![w] = x] /\ job.login # Null
          /\ job.kind \in {"access", "refresh"}
      BY <1>1, <1>6 DEF ReadLogin
    <2>2. logins[job.login] \in Login
      <3>1. job.login \in Logins
        BY <2>1 DEF Work
      <3> QED
        BY <1>1, <2>1, <3>1, AccountParts DEF WorkFits
    <2>3. /\ x \in Work /\ x.row = job.row /\ x.kind = job.kind /\ x.version = job.version
          /\ x.login = job.login /\ x.dead = job.dead
      BY <2>2 DEF Work
    <2> HIDE DEF x
    <2>4. WorkFits(x, account, logins)
      BY <1>1, <1>6, <2>1, <2>3 DEF WorkFits, DeadShows
    <2> QED
      BY <1>2, <2>1, <2>3, <2>4, ReadHolds
  <1>7. \/ work' = [work EXCEPT ![w] = Null]
        \/ ConfirmLogin(w) /\ work' = [work EXCEPT ![w] = [job EXCEPT !.updated = TRUE]]
        \/ ReadAccount(w) /\ work' = [work EXCEPT ![w] = [job EXCEPT !.row = account]]
        \/ ReadLogin(w) /\ ~logins[job.login].revoked
    <2>1. CASE ConfirmLogin(w)
      BY <1>1, <2>1 DEF ConfirmLogin
    <2>2. CASE ReadAccount(w)
      BY <1>1, <2>2 DEF ReadAccount
    <2>3. CASE ReadLogin(w)
      BY <1>1, <2>3 DEF ReadLogin
    <2>4. CASE Drop(w)
      BY <2>4 DEF Drop
    <2> QED
      BY <2>1, <2>2, <2>3, <2>4
  <1> QED
    BY <1>3, <1>4, <1>5, <1>6, <1>7

\* An answer may give a token, which is like the credential it was asked with.
LEMMA AnswerHolds == ASSUME AccountBounds, AccountIInv, NEW w \in Workers, Answer(w) PROVE AccountIInv'
  <1>1. PICK job \in Work : /\ job = work[w] /\ WorkFits(job, account, logins)
                            /\ job.kind \in {"access", "refresh"} /\ Complete(job)
    BY AccountParts DEF Answer, AccountIInv
  <1> DEFINE t == [login |-> job.login, version |-> job.row.version]
  <1>2. /\ tokens' \in {tokens, tokens \cup {t}}
        /\ work' = [work EXCEPT ![w] = Null] /\ UNCHANGED <<account, logins>>
    BY <1>1 DEF Answer
  <1>3. job.row.version = job.version
    BY <1>1 DEF Complete
  <1>4. t \in Token /\ t.login = job.login /\ t.version = job.version
    BY <1>3 DEF Work, Token
  <1> HIDE DEF t
  <1>5. TokenFits(t, account, logins)
    BY <1>1, <1>4 DEF TokenFits, WorkFits
  <1>6. AccountTypeOK'
    BY <1>2, <1>4, AccountParts DEF AccountTypeOK, LoginTable
  <1>7. \A v \in Workers : work'[v] \in {work[v], Null}
    BY <1>2, AccountParts
  <1> QED
    BY <1>2, <1>5, <1>6, <1>7 DEF AccountIInv

LEMMA AccountStepHolds == ASSUME AccountBounds, AccountIInv, [AccountNext]_accountVars PROVE AccountIInv'
  <1>1. CASE UNCHANGED accountVars
    BY <1>1 DEF accountVars, AccountIInv, AccountTypeOK
  <1>2. CASE AccountNext
    BY <1>2, BeginOwnHolds, AccountBeginHolds, GoOnHolds, AnswerHolds, OpenHolds, ChangeHolds,
       ManagerHolds, EnableHolds, LogoutHolds DEF AccountNext
  <1> QED
    BY <1>1, <1>2

LEMMA AccountInvariance == ASSUME AccountBounds PROVE AccountSpec => []AccountIInv
  BY AccountInitHolds, AccountStepHolds, PTL DEF AccountSpec

-----------------------------------------------------------------------------

\* The account, sessions, tokens and requests have their types.
THEOREM AccountTypeCorrect == ASSUME AccountBounds PROVE AccountSpec => []AccountTypeOK
  <1>1. AccountIInv => AccountTypeOK
    BY DEF AccountIInv
  <1> QED
    BY AccountInvariance, <1>1, PTL

\* A request that arrived with a dead credential is never let in, in whatever order
\* account and session are read and changed meanwhile.
THEOREM DeadStayOut == ASSUME AccountBounds PROVE AccountSpec => []DeadStaysOut
  <1>1. ASSUME AccountIInv PROVE DeadStaysOut
    <2> SUFFICES ASSUME NEW w \in Workers, work[w] # Null,
                        work[w].kind \in {"access", "refresh"}, Complete(work[w]), work[w].dead
                 PROVE  FALSE
      BY AccountParts DEF DeadStaysOut
    <2>1. PICK job \in Work : job = work[w] /\ WorkFits(job, account, logins)
      BY <1>1, AccountParts DEF AccountIInv
    <2>2. DeadShows(job, account, logins)
      BY <2>1 DEF WorkFits
    <2>3. job.version \in 1..MaxVersion
      BY DEF Work
    <2> QED
      BY <2>1, <2>2, <2>3 DEF DeadShows, Complete
  <1> QED
    BY AccountInvariance, <1>1, PTL

\* A token that can still be used belongs to a session that was opened with the
\* current PIN, however slowly logins, refreshes and renewals go on.
THEOREM ReplacedPinsOpenNothing ==
    ASSUME AccountBounds PROVE AccountSpec => []ReplacedPinOpensNothing
  <1>1. ASSUME AccountIInv PROVE ReplacedPinOpensNothing
    <2> SUFFICES ASSUME NEW t \in tokens, t.login # Null, Alive(t.login, t.version)
                 PROVE  logins[t.login].pin = account.pin
      BY DEF ReplacedPinOpensNothing
    <2>1. t.login \in Logins /\ TokenFits(t, account, logins)
      BY <1>1, AccountParts DEF AccountIInv, Token
    <2>2. LoginFits(logins[t.login], account)
      BY <1>1, <2>1 DEF AccountIInv, TokenFits
    <2> QED
      BY <2>1, <2>2 DEF TokenFits, LoginFits, Alive
  <1> QED
    BY AccountInvariance, <1>1, PTL

-----------------------------------------------------------------------------
(* ScreenLogin: wrong PINs are counted, and tokens are those of the bound  *)
(* browser.                                                                *)

\* ScreenBounds are numbers; there is a limit to wrong PINs.
ScreenBounds == /\ MaxFailures \in Nat \ {0}
          /\ MaxToken \in Nat \ {0} /\ MaxScreenVersion \in Nat \ {0}
          /\ \A x \in Attempt : x # Null

\* A token is not given out before its time.
TokensInOrder == holder.token <= binding.token

\* The inductive invariant.
ScreenIInv == ScreenTypeOK /\ EveryMissCounts /\ TokenIsTheHolders /\ TokensInOrder

\* The history of the current token.
Holder == [token: 0..MaxToken, pin: 0..MaxScreenVersion, browser: Browsers \cup {Null}]

-----------------------------------------------------------------------------

LEMMA ScreenInitHolds == ASSUME ScreenBounds, ScreenInit PROVE ScreenIInv
  <1>1. binding \in Binding /\ holder \in Holder /\ misses = 0
    BY DEF ScreenBounds, ScreenInit, Binding, Holder
  <1>2. binding.failures = 0 /\ binding.token = 1 /\ holder.token = 0
    BY DEF ScreenInit
  <1> QED
    BY <1>1, <1>2 DEF ScreenBounds, ScreenInit, ScreenIInv, ScreenTypeOK, Holder, EveryMissCounts,
                      TokenIsTheHolders, TokensInOrder

\* The parts of the invariant, for the steps below.
LEMMA ScreenParts ==
    ASSUME ScreenBounds, ScreenIInv
    PROVE  /\ binding \in Binding /\ holder \in Holder
           /\ attempts \in [Attempts -> Attempt \cup {Null}]
           /\ misses \in 0..(MaxFailures - 1) /\ misses = binding.failures
           /\ holder.token \in Nat /\ binding.token \in Nat /\ holder.token <= binding.token
           /\ \A a \in Attempts : attempts[a] # Null => attempts[a].row \in Binding
                                                     /\ attempts[a].browser \in Browsers \cup {Null}
  BY DEF ScreenBounds, ScreenIInv, ScreenTypeOK, EveryMissCounts, TokensInOrder, Binding, Holder, Attempt

LEMMA Zero == ASSUME ScreenBounds PROVE 0 \in 0..(MaxFailures - 1)
  BY DEF ScreenBounds

\* A request that begins or ends changes no row.
LEMMA AttemptsHold ==
    ASSUME ScreenBounds, ScreenIInv, UNCHANGED <<binding, misses, holder>>,
           NEW a \in Attempts, NEW x \in Attempt \cup {Null},
           attempts' = [attempts EXCEPT ![a] = x]
    PROVE  ScreenIInv'
  BY DEF ScreenIInv, ScreenTypeOK, EveryMissCounts, TokenIsTheHolders, TokensInOrder

LEMMA ScreenBeginHolds ==
    ASSUME ScreenBounds, ScreenIInv, NEW a \in Attempts,
           BeginVerify(a) \/ DropAttempt(a) \/ \E b \in Browsers : BeginScreenLogin(a, b)
    PROVE  ScreenIInv'
  <1>1. ASSUME NEW b \in Browsers, BeginScreenLogin(a, b) PROVE ScreenIInv'
    <2>1. PICK right \in BOOLEAN : attempts' = [attempts EXCEPT ![a] =
             [kind |-> "login", browser |-> b, row |-> binding, right |-> right /\ binding.active]]
      BY <1>1 DEF BeginScreenLogin
    <2>2. [kind |-> "login", browser |-> b, row |-> binding, right |-> right /\ binding.active]
             \in Attempt
      BY ScreenParts DEF Attempt, Binding
    <2> QED
      BY <1>1, <2>1, <2>2, AttemptsHold DEF BeginScreenLogin
  <1>2. CASE BeginVerify(a)
    <2>1. PICK right \in BOOLEAN : attempts' = [attempts EXCEPT ![a] =
             [kind |-> "verify", browser |-> holder.browser, row |-> binding, right |-> right]]
      BY <1>2 DEF BeginVerify
    <2>2. [kind |-> "verify", browser |-> holder.browser, row |-> binding, right |-> right]
             \in Attempt
      BY ScreenParts DEF Attempt, Holder
    <2> QED
      BY <1>2, <2>1, <2>2, AttemptsHold DEF BeginVerify
  <1>3. CASE DropAttempt(a)
    BY <1>3, AttemptsHold DEF DropAttempt
  <1> QED
    BY <1>1, <1>2, <1>3

\* A step that leaves the holder's token alone, or makes it worthless, keeps the
\* invariant if it counts rightly.
LEMMA RowHolds ==
    ASSUME ScreenBounds, ScreenIInv,
           binding' \in Binding, holder' = holder,
           attempts' \in [Attempts -> Attempt \cup {Null}],
           misses' = binding'.failures,
           \/ binding'.token = binding.token + 1
           \/ /\ binding'.token = binding.token
              /\ binding'.pin = binding.pin /\ binding'.device = binding.device
    PROVE  ScreenIInv'
  <1>1. misses' \in 0..(MaxFailures - 1) /\ binding'.token \in Nat
    BY DEF Binding
  <1>2. TokensInOrder' /\ TokenIsTheHolders'
    BY <1>1, ScreenParts DEF ScreenIInv, TokenIsTheHolders, TokensInOrder
  <1> QED
    BY <1>1, <1>2 DEF ScreenIInv, ScreenTypeOK, EveryMissCounts

\* A step that gives out a token keeps it if the token is given to the bound
\* browser for the current PIN.
LEMMA GivenHolds ==
    ASSUME ScreenBounds, ScreenIInv,
           binding' \in Binding, holder' \in Holder,
           attempts' \in [Attempts -> Attempt \cup {Null}],
           misses' = binding'.failures,
           holder'.token = binding'.token,
           holder'.pin = binding'.pin, holder'.browser = binding'.device
    PROVE  ScreenIInv'
  <1>1. misses' \in 0..(MaxFailures - 1) /\ binding'.token \in Nat
    BY DEF Binding
  <1> QED
    BY <1>1 DEF ScreenIInv, ScreenTypeOK, EveryMissCounts, TokenIsTheHolders, TokensInOrder, Holder

LEMMA FailureHolds ==
    ASSUME ScreenBounds, ScreenIInv, NEW a \in Attempts, RegisterFailure(a) PROVE ScreenIInv'
  <1> DEFINE seen == attempts[a].row
  <1>1. attempts' = [attempts EXCEPT ![a] = Null] /\ UNCHANGED holder
    BY DEF RegisterFailure
  <1>2. CASE ~(binding.version = seen.version /\ ~binding.locked)
    BY <1>1, <1>2, AttemptsHold DEF RegisterFailure
  <1>3. CASE binding.version = seen.version /\ ~binding.locked
    <2>1. /\ binding' = Counted(binding)
          /\ misses' = IF misses + 1 >= MaxFailures THEN 0 ELSE misses + 1
      BY <1>3 DEF RegisterFailure, Missed
    <2>2. binding \in Binding /\ misses = binding.failures
      BY ScreenParts
    <2>3. CASE binding.failures + 1 >= MaxFailures
      <3>1. binding' = [binding EXCEPT !.failures = 0, !.locked = TRUE] /\ misses' = 0
        BY <2>1, <2>2, <2>3 DEF Counted
      <3>2. /\ binding' \in Binding /\ binding'.failures = 0 /\ binding'.token = binding.token
            /\ binding'.pin = binding.pin /\ binding'.device = binding.device
        BY <2>2, <3>1, Zero DEF Binding
      <3> QED
        BY <1>1, <3>1, <3>2, RowHolds, ScreenParts
    <2>4. CASE ~(binding.failures + 1 >= MaxFailures)
      <3>1. /\ binding' = [binding EXCEPT !.failures = binding.failures + 1, !.locked = FALSE]
            /\ misses' = binding.failures + 1
        BY <2>1, <2>2, <2>4 DEF Counted
      <3>2. binding.failures + 1 \in 0..(MaxFailures - 1)
        BY <2>2, <2>4 DEF Binding, ScreenBounds
      <3>3. /\ binding' \in Binding /\ binding'.failures = binding.failures + 1
            /\ binding'.token = binding.token
            /\ binding'.pin = binding.pin /\ binding'.device = binding.device
        BY <2>2, <3>1, <3>2 DEF Binding
      <3> QED
        BY <1>1, <3>1, <3>3, RowHolds, ScreenParts
    <2> QED
      BY <2>3, <2>4
  <1> QED
    BY <1>2, <1>3

LEMMA LoginHolds ==
    ASSUME ScreenBounds, ScreenIInv, NEW a \in Attempts, LoginScreen(a) PROVE ScreenIInv'
  <1>1. /\ attempts[a] # Null /\ binding.token < MaxToken /\ binding \in Binding
        /\ attempts[a].browser \in Browsers \cup {Null}
        /\ binding.pin = attempts[a].row.pin
    BY ScreenParts DEF LoginScreen, Verified
  <1>2. /\ binding' = [binding EXCEPT !.device = attempts[a].browser, !.token = binding.token + 1,
                                      !.failures = 0, !.locked = FALSE]
        /\ holder' = [token |-> binding.token + 1, pin |-> attempts[a].row.pin,
                      browser |-> attempts[a].browser]
        /\ misses' = 0 /\ attempts' = [attempts EXCEPT ![a] = Null]
    BY DEF LoginScreen
  <1>3. binding.token + 1 \in 1..MaxToken
    BY <1>1, ScreenParts DEF Binding, ScreenBounds
  <1>4. /\ binding' \in Binding /\ binding'.failures = 0 /\ binding'.token = binding.token + 1
        /\ binding'.pin = binding.pin /\ binding'.device = attempts[a].browser
    BY <1>1, <1>2, <1>3, Zero DEF Binding
  <1>5. holder' \in Holder
    BY <1>1, <1>2, <1>3 DEF Holder, Binding
  <1> QED
    BY <1>1, <1>2, <1>4, <1>5, GivenHolds, ScreenParts

LEMMA BindHolds == ASSUME ScreenBounds, ScreenIInv, Bind PROVE ScreenIInv'
  <1>1. binding.token < MaxToken /\ binding \in Binding
    BY ScreenParts DEF Bind
  <1>2. /\ binding' = [binding EXCEPT !.token = binding.token + 1, !.active = TRUE]
        /\ holder' = [token |-> binding.token + 1, pin |-> binding.pin, browser |-> binding.device]
        /\ UNCHANGED <<attempts, misses>>
    BY DEF Bind
  <1>3. binding.token + 1 \in 1..MaxToken
    BY <1>1, ScreenParts DEF Binding, ScreenBounds
  <1>4. /\ binding' \in Binding /\ binding'.failures = binding.failures
        /\ binding'.token = binding.token + 1
        /\ binding'.pin = binding.pin /\ binding'.device = binding.device
    BY <1>1, <1>2, <1>3 DEF Binding
  <1>5. holder' \in Holder
    BY <1>1, <1>2, <1>3 DEF Holder, Binding
  <1> QED
    BY <1>1, <1>2, <1>4, <1>5, GivenHolds, ScreenParts

\* A verification, and the minutes after which a screen is unlocked.
LEMMA VerifyHolds ==
    ASSUME ScreenBounds, ScreenIInv, Unlock \/ SetActive \/ \E a \in Attempts : Verify(a) PROVE ScreenIInv'
  <1>0. binding \in Binding
    BY ScreenParts
  <1>1. ASSUME NEW a \in Attempts, Verify(a) PROVE ScreenIInv'
    <2>1. /\ binding' \in Binding /\ binding'.failures = 0 /\ binding'.token = binding.token
          /\ binding'.pin = binding.pin /\ binding'.device = binding.device
      BY <1>0, <1>1, Zero DEF Verify, Binding
    <2> QED
      BY <1>1, <2>1, RowHolds, ScreenParts DEF Verify
  <1>2. CASE Unlock
    <2>1. /\ binding' \in Binding /\ binding'.failures = binding.failures
          /\ binding'.token = binding.token
          /\ binding'.pin = binding.pin /\ binding'.device = binding.device
      BY <1>0, <1>2 DEF Unlock, Binding
    <2> QED
      BY <1>2, <2>1, RowHolds, ScreenParts DEF Unlock
  <1>3. CASE SetActive
    <2>1. /\ binding' \in Binding /\ binding'.failures = binding.failures
          /\ binding'.token = binding.token
          /\ binding'.pin = binding.pin /\ binding'.device = binding.device
      BY <1>0, <1>3 DEF SetActive, Binding
    <2> QED
      BY <1>3, <2>1, RowHolds, ScreenParts DEF SetActive
  <1> QED
    BY <1>1, <1>2, <1>3

\* Administrators take the token from whoever has it.
LEMMA ScreenReplaceHolds == ASSUME ScreenBounds, ScreenIInv, SetPin \/ SetCode \/ ResetDevice PROVE ScreenIInv'
  <1>0. /\ binding \in Binding
        /\ binding.version + 1 \in 1..MaxScreenVersion /\ binding.token + 1 \in 1..MaxToken
    <2>1. MayReplace
      BY DEF SetPin, SetCode, ResetDevice
    <2> QED
      BY <2>1, ScreenParts DEF MayReplace, Binding, ScreenBounds
  <1>1. CASE SetPin
    <2>1. /\ binding' \in Binding /\ binding'.failures = 0
          /\ binding'.token = binding.token + 1
      BY <1>0, <1>1, Zero DEF SetPin, Replaced, Binding
    <2> QED
      BY <1>1, <2>1, RowHolds, ScreenParts DEF SetPin
  <1>2. CASE SetCode
    <2>1. /\ binding' \in Binding /\ binding'.failures = binding.failures
          /\ binding'.token = binding.token + 1
      BY <1>0, <1>2 DEF SetCode, Binding
    <2> QED
      BY <1>2, <2>1, RowHolds, ScreenParts DEF SetCode
  <1>3. CASE ResetDevice
    <2>1. /\ binding' \in Binding /\ binding'.failures = 0
          /\ binding'.token = binding.token + 1
      BY <1>0, <1>3, Zero DEF ResetDevice, Replaced, Binding
    <2> QED
      BY <1>3, <2>1, RowHolds, ScreenParts DEF ResetDevice
  <1> QED
    BY <1>1, <1>2, <1>3

LEMMA ScreenStepHolds == ASSUME ScreenBounds, ScreenIInv, [ScreenNext]_screenVars PROVE ScreenIInv'
  <1>1. CASE UNCHANGED screenVars
    BY <1>1 DEF screenVars, ScreenIInv, ScreenTypeOK, EveryMissCounts, TokenIsTheHolders, TokensInOrder
  <1>2. CASE ScreenNext
    BY <1>2, ScreenBeginHolds, FailureHolds, LoginHolds, BindHolds, VerifyHolds, ScreenReplaceHolds
       DEF ScreenNext
  <1> QED
    BY <1>1, <1>2

LEMMA ScreenInvariance == ASSUME ScreenBounds PROVE ScreenSpec => []ScreenIInv
  BY ScreenInitHolds, ScreenStepHolds, PTL DEF ScreenSpec

-----------------------------------------------------------------------------

\* The columns and the requests have their types.
THEOREM ScreenTypeCorrect == ASSUME ScreenBounds PROVE ScreenSpec => []ScreenTypeOK
  <1>1. ScreenIInv => ScreenTypeOK
    BY DEF ScreenIInv
  <1> QED
    BY ScreenInvariance, <1>1, PTL

\* No wrong PIN is forgotten, however many are tried at a time: the count that
\* locks a screen is the number of misses.
THEOREM MissesAllCount == ASSUME ScreenBounds PROVE ScreenSpec => []EveryMissCounts
  <1>1. ScreenIInv => EveryMissCounts
    BY DEF ScreenIInv
  <1> QED
    BY ScreenInvariance, <1>1, PTL

\* The valid token was given to the bound browser for the PIN of the screen: no
\* login that was overtaken gives one.
THEOREM TokensAreTheHolders == ASSUME ScreenBounds PROVE ScreenSpec => []TokenIsTheHolders
  <1>1. ScreenIInv => TokenIsTheHolders
    BY DEF ScreenIInv
  <1> QED
    BY ScreenInvariance, <1>1, PTL

-----------------------------------------------------------------------------
(* WorkspaceSocket: the two counters of a socket do what they are for.     *)

\* A join that is not outdated adds rooms the client still wants.
JoinsAreWanted ==
    \A j \in joins :
        /\ j.generation <= socket[j.socket].leaveGeneration
        /\ j.generation = socket[j.socket].leaveGeneration => j.ids \subseteq wanted[j.socket]

\* A broadcast that waits for a verdict waits for one on the credentials the
\* socket has, as long as its generation is the same.
JudgedAsHeld ==
    \A b \in Broadcasts : broadcast[b] # Null =>
        /\ broadcast[b].joined \subseteq broadcast[b].ids
        /\ broadcast[b].verdict # "none" => broadcast[b].to # Null
        /\ broadcast[b].to # Null =>
              /\ broadcast[b].generation <= socket[broadcast[b].to].credentialGeneration
              /\ broadcast[b].generation = socket[broadcast[b].to].credentialGeneration
                    => broadcast[b].credentials = socket[broadcast[b].to].credentials

\* The inductive invariant.
SocketIInv == SocketTypeOK /\ LeaveStands /\ JoinsAreWanted /\ JudgedAsHeld

-----------------------------------------------------------------------------

LEMMA SocketInitHolds == ASSUME MaxCounter \in Nat, SocketInit PROVE SocketIInv
  <1>1. SocketTypeOK
    BY DEF SocketInit, SocketTypeOK, Socket
  <1> QED
    BY <1>1 DEF SocketInit, SocketIInv, LeaveStands, JoinsAreWanted, JudgedAsHeld

\* A step of socket s, which becomes x with the rooms w wanted: its counters do not
\* go back, new credentials have a new number, joins it begins are up to date.
Moves(s, x, w) ==
    /\ x \in Socket /\ w \in SUBSET Rooms
    /\ socket' = [socket EXCEPT ![s] = x] /\ wanted' = [wanted EXCEPT ![s] = w]
    /\ x.rooms \subseteq w
    /\ x.leaveGeneration >= socket[s].leaveGeneration
    /\ x.leaveGeneration = socket[s].leaveGeneration => wanted[s] \subseteq w
    /\ x.credentialGeneration >= socket[s].credentialGeneration
    /\ x.credentialGeneration = socket[s].credentialGeneration
          => x.credentials = socket[s].credentials
    /\ joins' \subseteq Join
    /\ \A j \in joins' \ joins : /\ j.socket = s /\ j.ids \subseteq w
                                 /\ j.generation = x.leaveGeneration
    /\ UNCHANGED <<broadcast, readers, published, told>>

\* Such a step keeps the invariant.
LEMMA SocketHolds ==
    ASSUME MaxCounter \in Nat, SocketIInv, NEW s \in Sockets, NEW x, NEW w, Moves(s, x, w)
    PROVE  SocketIInv'
  <1> USE DEF Moves
  <1>1. /\ socket \in [Sockets -> Socket] /\ wanted \in [Sockets -> SUBSET Rooms]
        /\ joins \subseteq Join /\ broadcast \in [Broadcasts -> Broadcast \cup {Null}]
    BY DEF SocketIInv, SocketTypeOK
  <1>2. SocketTypeOK'
    BY <1>1 DEF SocketIInv, SocketTypeOK
  <1>3. \A t \in Sockets : /\ socket'[t] = IF t = s THEN x ELSE socket[t]
                           /\ wanted'[t] = IF t = s THEN w ELSE wanted[t]
    BY <1>1
  <1>4. LeaveStands'
    BY <1>3 DEF SocketIInv, LeaveStands
  <1>5. \A t \in Sockets : /\ socket[t].leaveGeneration \in Nat
                           /\ socket[t].credentialGeneration \in Nat
    BY <1>1 DEF Socket
  <1>6. x.leaveGeneration \in Nat /\ x.credentialGeneration \in Nat
    BY DEF Socket
  <1>7. JoinsAreWanted'
    <2> SUFFICES ASSUME NEW j \in joins'
                 PROVE  /\ j.generation <= socket'[j.socket].leaveGeneration
                        /\ j.generation = socket'[j.socket].leaveGeneration
                              => j.ids \subseteq wanted'[j.socket]
      BY DEF JoinsAreWanted
    <2>1. j.socket \in Sockets /\ j.generation \in Nat
      BY DEF Join
    <2>2. CASE j \in joins
      <3>1. /\ j.generation <= socket[j.socket].leaveGeneration
            /\ j.generation = socket[j.socket].leaveGeneration => j.ids \subseteq wanted[j.socket]
        BY <2>2 DEF SocketIInv, JoinsAreWanted
      <3> QED
        BY <3>1, <2>1, <1>3, <1>5, <1>6
    <2>3. CASE j \notin joins
      BY <2>1, <2>3, <1>3, <1>6
    <2> QED
      BY <2>2, <2>3
  <1>8. JudgedAsHeld'
    <2> SUFFICES ASSUME NEW b \in Broadcasts, broadcast[b] # Null
                 PROVE  /\ broadcast[b].joined \subseteq broadcast[b].ids
                        /\ broadcast[b].verdict # "none" => broadcast[b].to # Null
                        /\ broadcast[b].to # Null =>
                              /\ broadcast[b].generation <= socket'[broadcast[b].to].credentialGeneration
                              /\ broadcast[b].generation = socket'[broadcast[b].to].credentialGeneration
                                    => broadcast[b].credentials = socket'[broadcast[b].to].credentials
      BY DEF JudgedAsHeld
    <2>1. broadcast[b].to # Null => broadcast[b].to \in Sockets
      BY <1>1 DEF Broadcast
    <2>2. broadcast[b].generation \in Nat
      BY <1>1 DEF Broadcast
    <2> QED
      BY <2>1, <2>2, <1>3, <1>5, <1>6 DEF SocketIInv, JudgedAsHeld
  <1> QED
    BY <1>2, <1>4, <1>7, <1>8 DEF SocketIInv

\* What the invariant says of one socket.
LEMMA SocketParts ==
    ASSUME SocketIInv, NEW s \in Sockets, MaxCounter \in Nat
    PROVE  /\ socket[s] \in Socket /\ wanted[s] \in SUBSET Rooms /\ joins \subseteq Join
           /\ socket[s].rooms \subseteq wanted[s] /\ socket[s].rooms \in SUBSET Rooms
           /\ socket[s].credentialGeneration \in 0..MaxCounter
           /\ socket[s].leaveGeneration \in 0..MaxCounter
  BY DEF SocketIInv, SocketTypeOK, LeaveStands, Socket

\* Nothing happens to the rooms that are wanted.
LEMMA SameWanted ==
    ASSUME SocketIInv, NEW s \in Sockets, wanted' = wanted
    PROVE  wanted' = [wanted EXCEPT ![s] = wanted[s]]
  BY DEF SocketIInv, SocketTypeOK

\* New credentials have a new number.
LEMMA GivenFits ==
    ASSUME MaxCounter \in Nat, NEW s \in Sockets, NEW c \in Credentials, socket[s] \in Socket,
           socket[s].credentialGeneration < MaxCounter
    PROVE  /\ Given(s, c) \in Socket /\ Given(s, c).rooms = socket[s].rooms
           /\ Given(s, c).credentialGeneration = socket[s].credentialGeneration + 1
           /\ Given(s, c).leaveGeneration = socket[s].leaveGeneration
  <1>1. PICK y \in Socket : y = socket[s]
    OBVIOUS
  <1>2. y.credentialGeneration + 1 \in 0..MaxCounter
    BY <1>1 DEF Socket
  <1>3. Given(s, c) = [y EXCEPT !.credentials = c,
                                !.credentialGeneration = y.credentialGeneration + 1]
    BY <1>1 DEF Given, Socket
  <1> HIDE DEF Given
  <1>4. Given(s, c) \in Socket
    BY <1>2, <1>3 DEF Socket
  <1> QED
    BY <1>1, <1>3, <1>4 DEF Socket

\* Clients.
LEMMA UpdateHolds ==
    ASSUME MaxCounter \in Nat, SocketIInv, NEW s \in Sockets, NEW c \in Credentials,
           UpdateCredentials(s, c)
    PROVE  SocketIInv'
  <1>1. socket[s].credentialGeneration < MaxCounter
    BY DEF UpdateCredentials
  <1>2. Moves(s, Given(s, c), wanted[s])
    BY <1>1, GivenFits, SocketParts, SameWanted DEF UpdateCredentials, Moves
  <1> QED
    BY <1>2, SocketHolds

LEMMA BeginJoinHolds ==
    ASSUME MaxCounter \in Nat, SocketIInv, NEW s \in Sockets, NEW c \in Credentials,
           NEW ids \in SUBSET Rooms, BeginJoin(s, c, ids)
    PROVE  SocketIInv'
  <1> DEFINE j == [socket |-> s, generation |-> socket[s].leaveGeneration, ids |-> ids]
  <1>1. socket[s].credentialGeneration < MaxCounter
    BY DEF BeginJoin
  <1>2. joins' = joins \cup {j}
    BY DEF BeginJoin
  <1>3. j \in Join /\ j.socket = s /\ j.ids = ids /\ j.generation = socket[s].leaveGeneration
    BY SocketParts DEF Join
  <1> HIDE DEF j
  <1>4. /\ wanted[s] \cup ids \in SUBSET Rooms /\ socket[s].rooms \subseteq wanted[s] \cup ids
        /\ wanted' = [wanted EXCEPT ![s] = wanted[s] \cup ids]
        /\ socket' = [socket EXCEPT ![s] = Given(s, c)]
        /\ UNCHANGED <<broadcast, readers, published, told>>
    BY SocketParts DEF BeginJoin
  <1>5. Moves(s, Given(s, c), wanted[s] \cup ids)
    BY <1>1, <1>2, <1>3, <1>4, GivenFits, SocketParts DEF Moves
  <1> QED
    BY <1>5, SocketHolds

LEMMA LeaveHolds ==
    ASSUME MaxCounter \in Nat, SocketIInv, NEW s \in Sockets, NEW ids \in SUBSET Rooms, Leave(s, ids)
    PROVE  SocketIInv'
  <1>1. PICK y \in Socket : y = socket[s]
    BY SocketParts
  <1> DEFINE x == [y EXCEPT !.leaveGeneration = y.leaveGeneration + 1, !.rooms = y.rooms \ ids]
  <1>2. y.leaveGeneration + 1 \in 0..MaxCounter /\ y.rooms \ ids \in SUBSET Rooms
    BY <1>1, SocketParts DEF Leave
  <1>3. /\ socket' = [socket EXCEPT ![s] = x]
        /\ wanted' = [wanted EXCEPT ![s] = wanted[s] \ ids]
        /\ UNCHANGED <<joins, broadcast, readers, published, told>>
    BY <1>1 DEF Leave, SocketIInv, SocketTypeOK
  <1>4. /\ x \in Socket /\ x.rooms = y.rooms \ ids
        /\ x.leaveGeneration = y.leaveGeneration + 1
        /\ x.credentialGeneration = y.credentialGeneration
        /\ x.credentials = y.credentials
    BY <1>2 DEF Socket
  <1> HIDE DEF x
  <1>5. Moves(s, x, wanted[s] \ ids)
    BY <1>1, <1>3, <1>4, SocketParts DEF Moves
  <1> QED
    BY <1>5, SocketHolds

LEMMA DisconnectHolds ==
    ASSUME MaxCounter \in Nat, SocketIInv, NEW s \in Sockets, Disconnect(s)
    PROVE  SocketIInv'
  <1>1. PICK y \in Socket : y = socket[s]
    BY SocketParts
  <1> DEFINE x == [y EXCEPT !.connected = FALSE, !.rooms = {}]
  <1>2. socket' = [socket EXCEPT ![s] = x]
    BY <1>1 DEF Disconnect, SocketIInv, SocketTypeOK
  <1>3. /\ x \in Socket /\ x.rooms = {} /\ x.leaveGeneration = y.leaveGeneration
        /\ x.credentialGeneration = y.credentialGeneration
        /\ x.credentials = y.credentials
    BY DEF Socket
  <1> HIDE DEF x
  <1>4. UNCHANGED <<joins, broadcast, readers, published, wanted, told>>
    BY DEF Disconnect
  <1>5. Moves(s, x, wanted[s])
    BY <1>1, <1>2, <1>3, <1>4, SocketParts, SameWanted DEF Moves
  <1> QED
    BY <1>5, SocketHolds

\* The end of a join.
LEMMA EndJoinHolds ==
    ASSUME MaxCounter \in Nat, SocketIInv, NEW j \in joins, NEW found \in SUBSET j.ids, EndJoin(j, found)
    PROVE  SocketIInv'
  <1>1. j \in Join /\ j.socket \in Sockets /\ j.ids \subseteq Rooms
    BY DEF SocketIInv, SocketTypeOK, Join
  <1>2. PICK s \in Sockets : s = j.socket
    BY <1>1
  <1>3. PICK y \in Socket : y = socket[s]
    BY SocketParts
  <1>4. joins' \subseteq joins /\ UNCHANGED <<broadcast, readers, published, wanted, told>>
    BY DEF EndJoin
  <1>5. CASE Stands(j)
    <2> DEFINE x == [y EXCEPT !.rooms = y.rooms \cup found]
    <2>1. socket' = [socket EXCEPT ![s] = x]
      BY <1>2, <1>3, <1>5 DEF EndJoin, SocketIInv, SocketTypeOK
    <2>2. found \subseteq wanted[s] /\ y.rooms \cup found \in SUBSET Rooms
      BY <1>1, <1>2, <1>3, <1>5, SocketParts DEF SocketIInv, JoinsAreWanted, Stands
    <2>3. /\ x \in Socket /\ x.rooms = y.rooms \cup found
          /\ x.leaveGeneration = y.leaveGeneration
          /\ x.credentialGeneration = y.credentialGeneration
          /\ x.credentials = y.credentials
      BY <2>2 DEF Socket
    <2> HIDE DEF x
    <2>4. Moves(s, x, wanted[s])
      BY <1>3, <1>4, <2>1, <2>2, <2>3, SocketParts, SameWanted DEF Moves
    <2> QED
      BY <2>4, SocketHolds
  <1>6. CASE ~Stands(j)
    <2>1. socket' = [socket EXCEPT ![s] = y]
      BY <1>3, <1>6 DEF EndJoin, SocketIInv, SocketTypeOK
    <2>2. Moves(s, y, wanted[s])
      BY <1>3, <1>4, <2>1, SocketParts, SameWanted DEF Moves
    <2> QED
      BY <2>2, SocketHolds
  <1> QED
    BY <1>5, <1>6

\* A step of broadcast b, which becomes x and waits for a verdict on what its socket
\* has, or on what it had under an earlier number.
Proceeds(b, x) ==
    /\ x \in Broadcast \cup {Null}
    /\ broadcast' = [broadcast EXCEPT ![b] = x]
    /\ x # Null =>
          /\ x.joined \subseteq x.ids
          /\ x.verdict # "none" => x.to # Null
          /\ x.to # Null =>
                /\ x.generation <= socket[x.to].credentialGeneration
                /\ x.generation = socket[x.to].credentialGeneration
                      => x.credentials = socket[x.to].credentials
    /\ told' \subseteq Broadcasts \X Sockets
    /\ UNCHANGED <<socket, joins, readers, published, wanted>>

\* Such a step keeps the invariant.
LEMMA BroadcastHolds ==
    ASSUME MaxCounter \in Nat, SocketIInv, NEW b \in Broadcasts, NEW x, Proceeds(b, x)
    PROVE  SocketIInv'
  <1> USE DEF Proceeds
  <1>1. broadcast \in [Broadcasts -> Broadcast \cup {Null}]
    BY DEF SocketIInv, SocketTypeOK
  <1>2. \A c \in Broadcasts : broadcast'[c] = IF c = b THEN x ELSE broadcast[c]
    BY <1>1
  <1>3. SocketTypeOK'
    BY <1>1 DEF SocketIInv, SocketTypeOK
  <1>4. LeaveStands' /\ JoinsAreWanted'
    BY DEF SocketIInv, LeaveStands, JoinsAreWanted
  <1>5. JudgedAsHeld'
    BY <1>2 DEF SocketIInv, JudgedAsHeld
  <1> QED
    BY <1>3, <1>4, <1>5 DEF SocketIInv

\* Between two sockets it waits for nothing.
LEMMA BetweenHolds ==
    ASSUME MaxCounter \in Nat, NEW ids \in SUBSET Rooms, NEW left \in SUBSET Sockets
    PROVE  LET x == Between(ids, left)
           IN  /\ x \in Broadcast /\ x.to = Null /\ x.verdict = "none" /\ x.joined = {}
  BY DEF Between, Broadcast

LEMMA SendHolds ==
    ASSUME MaxCounter \in Nat, SocketIInv, NEW b \in Broadcasts,
           \/ \E ids \in SUBSET Rooms : BeginBroadcast(b, ids)
           \/ \E s \in Sockets : Take(b, s)
           \/ Judge(b) \/ Emit(b) \/ EndBroadcast(b)
    PROVE  SocketIInv'
  <1>1. /\ broadcast \in [Broadcasts -> Broadcast \cup {Null}] /\ socket \in [Sockets -> Socket]
        /\ told \subseteq Broadcasts \X Sockets
    BY DEF SocketIInv, SocketTypeOK
  <1>2. ASSUME NEW ids \in SUBSET Rooms, BeginBroadcast(b, ids) PROVE SocketIInv'
    <2> DEFINE left == {s \in Sockets : socket[s].rooms \cap ids # {}}
    <2>1. broadcast' = [broadcast EXCEPT ![b] = Between(ids, left)]
      BY <1>2 DEF BeginBroadcast
    <2>2. left \in SUBSET Sockets
      OBVIOUS
    <2> HIDE DEF left
    <2> QED
      <3>1. Proceeds(b, Between(ids, left))
        BY <1>1, <1>2, <2>1, <2>2, BetweenHolds DEF BeginBroadcast, Proceeds
      <3> QED
        BY <3>1, BroadcastHolds
  <1>3. ASSUME NEW s \in Sockets, Take(b, s) PROVE SocketIInv'
    <2> DEFINE joined == socket[s].rooms \cap broadcast[b].ids
               rest == [broadcast[b] EXCEPT !.left = broadcast[b].left \ {s}]
               x == [rest EXCEPT !.to = s, !.joined = joined,
                                 !.credentials = socket[s].credentials,
                                 !.generation = socket[s].credentialGeneration]
    <2>1. broadcast[b] \in Broadcast /\ broadcast[b].to = Null /\ broadcast[b].verdict = "none"
      <3>1. broadcast[b] # Null /\ broadcast[b].to = Null
        BY <1>3 DEF Take
      <3>2. broadcast[b] \in Broadcast
        BY <1>1, <3>1
      <3> QED
        BY <3>1, <3>2 DEF SocketIInv, JudgedAsHeld
    <2>2. /\ broadcast' = [broadcast EXCEPT ![b] = IF joined = {} THEN rest ELSE x]
          /\ UNCHANGED <<socket, joins, readers, published, wanted, told>>
          /\ broadcast[b] # Null
      BY <1>3 DEF Take
    <2>3. /\ rest \in Broadcast /\ rest.to = Null /\ rest.verdict = "none"
          /\ rest.joined = broadcast[b].joined /\ rest.ids = broadcast[b].ids
      BY <2>1 DEF Broadcast
    <2>4. broadcast[b].joined \subseteq broadcast[b].ids
      BY <2>2 DEF SocketIInv, JudgedAsHeld
    <2>5. CASE joined = {}
      <3>1. broadcast' = [broadcast EXCEPT ![b] = rest]
        BY <2>2, <2>5
      <3> HIDE DEF rest
      <3>2. Proceeds(b, rest)
        BY <1>1, <2>2, <2>3, <2>4, <3>1 DEF Proceeds
      <3> QED
        BY <3>2, BroadcastHolds
    <2>6. CASE joined # {}
      <3>1. broadcast' = [broadcast EXCEPT ![b] = x]
        BY <2>2, <2>6
      <3>2. joined \subseteq broadcast[b].ids /\ joined \in SUBSET Rooms
        BY <2>1 DEF Broadcast
      <3>3. /\ socket[s].credentials \in Credentials
            /\ socket[s].credentialGeneration \in 0..MaxCounter
        BY <1>1 DEF Socket
      <3> HIDE DEF rest, joined
      <3>4. /\ x \in Broadcast /\ x.to = s /\ x.joined = joined /\ x.ids = rest.ids
            /\ x.credentials = socket[s].credentials /\ x.verdict = rest.verdict
            /\ x.generation = socket[s].credentialGeneration
        BY <2>3, <3>2, <3>3 DEF Broadcast
      <3> HIDE DEF x
      <3>5. /\ x.joined \subseteq x.ids /\ x.verdict = "none"
            /\ x.generation <= socket[x.to].credentialGeneration
            /\ x.credentials = socket[x.to].credentials
        BY <2>3, <3>2, <3>3, <3>4
      <3>6. told' \subseteq Broadcasts \X Sockets
        BY <1>1, <2>2
      <3>7. Proceeds(b, x)
        BY <2>2, <3>1, <3>4, <3>5, <3>6 DEF Proceeds
      <3> QED
        BY <3>7, BroadcastHolds
    <2> QED
      BY <2>5, <2>6
  <1>4. CASE Judge(b)
    <2>1. PICK v \in {"full", "signal", "nothing"} :
             broadcast' = [broadcast EXCEPT ![b].verdict = v]
      BY <1>4 DEF Judge
    <2>2. /\ broadcast[b] \in Broadcast /\ broadcast[b] # Null /\ broadcast[b].to # Null
          /\ UNCHANGED <<socket, joins, readers, published, wanted, told>>
      BY <1>1, <1>4 DEF Judge
    <2> DEFINE x == [broadcast[b] EXCEPT !.verdict = v]
    <2>3. broadcast' = [broadcast EXCEPT ![b] = x]
      BY <1>1, <2>1
    <2>4. /\ x \in Broadcast /\ x.to = broadcast[b].to /\ x.ids = broadcast[b].ids
          /\ x.joined = broadcast[b].joined /\ x.credentials = broadcast[b].credentials
          /\ x.generation = broadcast[b].generation
      BY <2>2 DEF Broadcast
    <2> HIDE DEF x
    <2>5. Proceeds(b, x)
      BY <1>1, <2>2, <2>3, <2>4 DEF SocketIInv, JudgedAsHeld, Proceeds
    <2> QED
      BY <2>5, BroadcastHolds
  <1>5. CASE Emit(b)
    <2>1. /\ broadcast[b] # Null /\ broadcast[b] \in Broadcast /\ broadcast[b].to # Null
      BY <1>1, <1>5 DEF Emit, SocketIInv, JudgedAsHeld
    <2>2. /\ broadcast[b].ids \in SUBSET Rooms /\ broadcast[b].left \in SUBSET Sockets
          /\ broadcast[b].to \in Sockets
      BY <2>1 DEF Broadcast
    <2>3. broadcast' = [broadcast EXCEPT ![b] = Between(broadcast[b].ids, broadcast[b].left)]
      BY <1>5 DEF Emit
    <2>4. told' \subseteq Broadcasts \X Sockets
      BY <1>1, <1>5, <2>2 DEF Emit
    <2>5. Proceeds(b, Between(broadcast[b].ids, broadcast[b].left))
      BY <1>5, <2>2, <2>3, <2>4, BetweenHolds DEF Emit, Proceeds
    <2> QED
      BY <2>5, BroadcastHolds
  <1>6. CASE EndBroadcast(b)
    <2>1. told' \subseteq Broadcasts \X Sockets /\ broadcast' = [broadcast EXCEPT ![b] = Null]
      BY <1>1, <1>6 DEF EndBroadcast
    <2>2. Proceeds(b, Null)
      BY <1>6, <2>1 DEF EndBroadcast, Proceeds
    <2> QED
      BY <2>2, BroadcastHolds
  <1> QED
    BY <1>2, <1>3, <1>4, <1>5, <1>6

LEMMA SocketStepHolds == ASSUME MaxCounter \in Nat, SocketIInv, [SocketNext]_socketVars PROVE SocketIInv'
  <1>1. CASE UNCHANGED socketVars
    BY <1>1 DEF socketVars, SocketIInv, SocketTypeOK, LeaveStands, JoinsAreWanted, JudgedAsHeld
  <1>2. ASSUME NEW c \in Credentials, ChangeReaders(c) PROVE SocketIInv'
    BY <1>2 DEF ChangeReaders, SocketIInv, SocketTypeOK, LeaveStands, JoinsAreWanted, JudgedAsHeld
  <1>3. CASE SocketNext
    BY <1>2, <1>3, UpdateHolds, BeginJoinHolds, LeaveHolds, DisconnectHolds, EndJoinHolds,
       SendHolds DEF SocketNext
  <1> QED
    BY <1>1, <1>3

\* Only Emit adds to who was told.
LEMMA ToldRightly ==
    ASSUME MaxCounter \in Nat, SocketIInv, SocketNext,
           NEW b \in Broadcasts, NEW s \in Sockets, <<b, s>> \in told' \ told
    PROVE  /\ socket[s].credentials = broadcast[b].credentials
           /\ socket[s].rooms \cap broadcast[b].ids # {}
  <1>1. ASSUME NEW a \in Broadcasts, Emit(a)
        PROVE  /\ socket[s].credentials = broadcast[b].credentials
               /\ socket[s].rooms \cap broadcast[b].ids # {}
    <2>1. a = b /\ broadcast[a].to = s /\ Same(a)
      BY <1>1 DEF Emit
    <2>2. broadcast[b] # Null /\ broadcast[b].to # Null
      BY <1>1, <2>1 DEF Emit, SocketIInv, JudgedAsHeld
    <2> QED
      BY <2>1, <2>2 DEF Same, SocketIInv, JudgedAsHeld
  <1>2. ASSUME NEW a \in Broadcasts, EndBroadcast(a) PROVE FALSE
    BY <1>2 DEF EndBroadcast
  <1>3. ASSUME UNCHANGED told PROVE FALSE
    BY <1>3
  <1>4. \/ UNCHANGED told \/ \E a \in Broadcasts : Emit(a) \/ EndBroadcast(a)
    BY DEF SocketNext, UpdateCredentials, BeginJoin, EndJoin, Leave, Disconnect, BeginBroadcast,
           Take, Judge, ChangeReaders
  <1> QED
    BY <1>1, <1>2, <1>3, <1>4

LEMMA SocketInvariance == ASSUME MaxCounter \in Nat PROVE SocketSpec => []SocketIInv
  BY SocketInitHolds, SocketStepHolds, PTL DEF SocketSpec

-----------------------------------------------------------------------------

\* Sockets, joins and broadcasts have their types.
THEOREM SocketTypeCorrect == ASSUME MaxCounter \in Nat PROVE SocketSpec => []SocketTypeOK
  <1>1. SocketIInv => SocketTypeOK
    BY DEF SocketIInv
  <1> QED
    BY SocketInvariance, <1>1, PTL

\* A socket sits only in rooms its client still wants, whatever joins are under
\* way when it leaves: the counter of leaves is enough.
THEOREM LeavesStand == ASSUME MaxCounter \in Nat PROVE SocketSpec => []LeaveStands
  <1>1. SocketIInv => LeaveStands
    BY DEF SocketIInv
  <1> QED
    BY SocketInvariance, <1>1, PTL

\* The full event only goes to the credentials that were judged, in a room of the
\* event: the counter of credentials is enough.
THEOREM EventsForTheirReaders ==
    ASSUME MaxCounter \in Nat PROVE SocketSpec => EventForItsReader
  <1>1. ASSUME SocketIInv, [SocketNext]_socketVars
        PROVE  [\A b \in Broadcasts, s \in Sockets : <<b, s>> \in told' \ told =>
                  /\ socket[s].credentials = broadcast[b].credentials
                  /\ socket[s].rooms \cap broadcast[b].ids # {}]_socketVars
    BY <1>1, ToldRightly
  <1> QED
    BY SocketInvariance, <1>1, PTL DEF SocketSpec, EventForItsReader
=============================================================================
