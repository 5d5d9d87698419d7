---------------------------- MODULE ScreenLogin ----------------------------
(***************************************************************************)
(* How a browser becomes a classroom screen                                *)
(* (services/classroomScreenService.js): login with a PIN, verification of *)
(* the PIN, lock-out after wrong ones, and what administrators change      *)
(* meanwhile.  A request reads the binding and compares the PIN, which     *)
(* takes a while; only then does it lock the row, compare it with what was *)
(* read and write.  Wrong PINs are counted in a transaction of their own.  *)
(*                                                                         *)
(* A PIN and a token are numbers, given out once.  The class, the term and *)
(* the login code of a screen stand behind its version: a change of them   *)
(* replaces version and token.                                             *)
(***************************************************************************)
EXTENDS Naturals, NoValue

CONSTANTS
    Browsers,       \* fingerprints of browsers
    Attempts,       \* requests under way
    MaxFailures,    \* wrong PINs until the screen is locked (5)
    MaxToken,       \* bound on the number of tokens
    MaxScreenVersion \* bound on the credential version

VARIABLES
    binding,        \* ClassroomScreenBinding
    attempts,       \* what each request has read
    misses,         \* history: wrong PINs since the last lock, success or reset
    holder          \* history: who was given the current token, and for which PIN

screenVars == <<binding, attempts, misses, holder>>

Binding == [version: 1..MaxScreenVersion, pin: 1..MaxScreenVersion, token: 1..MaxToken,
            device: Browsers \cup {Null}, active: BOOLEAN,
            failures: 0..(MaxFailures - 1), locked: BOOLEAN]
\* A login from a browser, or a verification by the screen itself, with the row
\* it read and whether the PIN was right.
Attempt == [kind: {"login", "verify"}, browser: Browsers \cup {Null}, row: Binding, right: BOOLEAN]

\* The row, the requests and the history.
ScreenTypeOK ==
    /\ binding \in Binding
    /\ attempts \in [Attempts -> Attempt \cup {Null}]
    /\ misses \in 0..(MaxFailures - 1)
    /\ holder \in [token: 0..MaxToken, pin: 0..MaxScreenVersion, browser: Browsers \cup {Null}]

ScreenInit ==
    /\ binding = [version |-> 1, pin |-> 1, token |-> 1, device |-> Null, active |-> TRUE,
                  failures |-> 0, locked |-> FALSE]
    /\ attempts = [a \in Attempts |-> Null]
    /\ misses = 0
    /\ holder = [token |-> 0, pin |-> 0, browser |-> Null]

-----------------------------------------------------------------------------
(* Screens.                                                                *)

\* loginClassroomScreen, first part: not locked, and not another browser's screen
\* if the PIN is right.
BeginScreenLogin(a, b) ==
    /\ attempts[a] = Null
    /\ ~binding.locked
    /\ \E right \in BOOLEAN :
        /\ right => binding.active /\ binding.device \in {b, Null}
        /\ attempts' = [attempts EXCEPT ![a] =
             [kind |-> "login", browser |-> b, row |-> binding, right |-> right /\ binding.active]]
    /\ UNCHANGED <<binding, misses, holder>>

\* verifyClassroomScreenPin: the holder of the token asks for something that
\* needs the PIN.
BeginVerify(a) ==
    /\ attempts[a] = Null
    /\ binding.active /\ ~binding.locked
    /\ holder.token = binding.token
    /\ \E right \in BOOLEAN :
        attempts' = [attempts EXCEPT ![a] =
            [kind |-> "verify", browser |-> holder.browser, row |-> binding, right |-> right]]
    /\ UNCHANGED <<binding, misses, holder>>

\* The columns after one more wrong PIN.
Counted(row) ==
    IF row.failures + 1 >= MaxFailures
    THEN [row EXCEPT !.failures = 0, !.locked = TRUE]
    ELSE [row EXCEPT !.failures = @ + 1, !.locked = FALSE]

\* Mutant: counted from what the row said when the PIN was compared.
MissedAsSeen(seen) == Counted(seen)

\* The row after a miss of somebody who has seen another one.
Missed(seen) == Counted(binding)

\* registerLoginFailure: counted from what the row says now, unless it is locked
\* or the credentials are no longer those that were tried.
RegisterFailure(a) ==
    LET seen == attempts[a].row IN
    /\ attempts[a] # Null /\ ~attempts[a].right
    /\ IF binding.version = seen.version /\ ~binding.locked
       THEN /\ binding' = Missed(seen)
            /\ misses' = IF misses + 1 >= MaxFailures THEN 0 ELSE misses + 1
       ELSE UNCHANGED <<binding, misses>>
    /\ attempts' = [attempts EXCEPT ![a] = Null]
    /\ UNCHANGED holder

\* Mutant: the row has changed since the PIN was compared.
VerifiedOnce(seen) == binding.active /\ ~binding.locked

\* withVerifiedScreen: the row is still the one whose PIN was compared, and has
\* not been locked since.
Verified(seen) ==
    /\ binding.active /\ ~binding.locked
    /\ binding.version = seen.version /\ binding.pin = seen.pin /\ binding.token = seen.token

\* loginClassroomScreen, the transaction: a new token for this browser.
LoginScreen(a) ==
    /\ attempts[a] # Null /\ attempts[a].right /\ attempts[a].kind = "login"
    /\ Verified(attempts[a].row)
    /\ binding.device \in {attempts[a].browser, Null}
    /\ binding.token < MaxToken
    /\ binding' = [binding EXCEPT !.device = attempts[a].browser, !.token = @ + 1,
                                  !.failures = 0, !.locked = FALSE]
    /\ holder' = [token |-> binding.token + 1, pin |-> attempts[a].row.pin,
                  browser |-> attempts[a].browser]
    /\ misses' = 0
    /\ attempts' = [attempts EXCEPT ![a] = Null]

\* verifyClassroomScreenPin, the transaction.
Verify(a) ==
    /\ attempts[a] # Null /\ attempts[a].right /\ attempts[a].kind = "verify"
    /\ Verified(attempts[a].row)
    /\ binding' = [binding EXCEPT !.failures = 0, !.locked = FALSE]
    /\ misses' = 0
    /\ attempts' = [attempts EXCEPT ![a] = Null]
    /\ UNCHANGED holder

\* A refusal, or a request that dies.
DropAttempt(a) ==
    /\ attempts[a] # Null
    /\ attempts' = [attempts EXCEPT ![a] = Null]
    /\ UNCHANGED <<binding, misses, holder>>

\* Fifteen minutes pass.
Unlock ==
    /\ binding.locked
    /\ binding' = [binding EXCEPT !.locked = FALSE]
    /\ UNCHANGED <<attempts, misses, holder>>

-----------------------------------------------------------------------------
(* Administrators.                                                         *)

\* Every change of credentials gives the row a token that nobody has.
Replaced(row) == [row EXCEPT !.version = @ + 1, !.token = @ + 1, !.failures = 0, !.locked = FALSE]
MayReplace == binding.version < MaxScreenVersion /\ binding.token < MaxToken

\* configureClassroomScreenAccount, and updateClassroomScreenAccount with a PIN.
SetPin ==
    /\ MayReplace
    /\ binding' = [Replaced(binding) EXCEPT !.pin = binding.version + 1]
    /\ misses' = 0
    /\ UNCHANGED <<attempts, holder>>

\* updateClassroomScreenAccount with another login code or class: wrong PINs
\* stay counted.
SetCode ==
    /\ MayReplace
    /\ binding' = [binding EXCEPT !.version = @ + 1, !.token = @ + 1]
    /\ UNCHANGED <<attempts, misses, holder>>

\* resetClassroomScreenDevice.
ResetDevice ==
    /\ MayReplace
    /\ binding' = [Replaced(binding) EXCEPT !.device = Null]
    /\ misses' = 0
    /\ UNCHANGED <<attempts, holder>>

\* updateClassroomScreenAccount and setClassroomScreenActive.
SetActive ==
    /\ binding' = [binding EXCEPT !.active = ~@]
    /\ UNCHANGED <<attempts, misses, holder>>

\* bindClassroomScreen, by a manager in the browser of the screen, who needs no
\* PIN for it.
Bind ==
    /\ binding.device # Null /\ binding.token < MaxToken
    /\ binding' = [binding EXCEPT !.token = @ + 1, !.active = TRUE]
    /\ holder' = [token |-> binding.token + 1, pin |-> binding.pin, browser |-> binding.device]
    /\ UNCHANGED <<attempts, misses>>

ScreenNext ==
    \/ \E a \in Attempts :
        \/ BeginVerify(a) \/ RegisterFailure(a) \/ LoginScreen(a) \/ Verify(a) \/ DropAttempt(a)
        \/ \E b \in Browsers : BeginScreenLogin(a, b)
    \/ Unlock \/ SetPin \/ SetCode \/ ResetDevice \/ SetActive \/ Bind

ScreenSpec == ScreenInit /\ [][ScreenNext]_screenVars

-----------------------------------------------------------------------------
(* Properties.                                                             *)

\* No wrong PIN is forgotten, however many are tried at once: the count is what was
\* tried against these credentials since they were last locked, given rightly or
\* reset, and stays below the limit.
EveryMissCounts == binding.failures = misses

\* The token that is valid was given to the browser the screen is bound to, for the
\* PIN the screen has: a login that was overtaken by a reset, another login, a
\* manager or a lock gives none.
TokenIsTheHolders ==
    holder.token = binding.token
        => holder.pin = binding.pin /\ holder.browser = binding.device
=============================================================================
