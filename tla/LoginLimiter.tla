---------------------------- MODULE LoginLimiter ----------------------------
(***************************************************************************)
(* Logins and registrations at one API process: the in-memory rate limiter *)
(* of an IP address, which the threads of the process share, the password  *)
(* check behind it, and the accounts.                                      *)
(*                                                                         *)
(* Time is counted in ticks, Second ticks to the second.  A thread reads   *)
(* the clock before it takes the lock; it may be held up in between, but   *)
(* by less than MaxDelay + 1 ticks.                                        *)
(*                                                                         *)
(* The deque of timestamps is kept as the log of all the requests ever     *)
(* recorded together with the number of those that were popped: popleft    *)
(* takes from the front, append adds at the end.                           *)
(***************************************************************************)
EXTENDS Integers, Sequences, FiniteSets

CONSTANTS
    Threads,
    MaxRequests,   \* logins admitted per window
    Window,        \* its length
    MaxDelay,
    Second,
    MaxTime,       \* bound on the clock
    Emails,
    Registrations,
    EmailOf,       \* the email of each registration
    Free           \* no account for this email

ASSUME LimiterAssumption ==
    /\ MaxRequests \in Nat \ {0} /\ Window \in Nat /\ MaxDelay \in Nat
    /\ Second \in Nat \ {0} /\ MaxTime \in Nat

ASSUME AccountAssumption == EmailOf \in [Registrations -> Emails] /\ Free \notin Registrations

VARIABLES
    now,        \* time.monotonic()
    thread,     \* what each thread does, and the time it has read
    log,        \* the requests recorded: timestamp, and when it was recorded
    popped,     \* how many of them have left the deque
    account,    \* users: the registration that made the account of an email
    signup      \* the state of each registration request

loginVars == <<now, thread, log, popped, account, signup>>

\* A thread that was refused remembers when it may try again, and the entry that
\* stood in its way.
NewThread == [pc |-> "idle", read |-> 0, retryAt |-> 0, oldest |-> 0]

LoginTypeOK ==
    /\ now \in Nat
    /\ thread \in [Threads -> [pc : {"idle", "check", "verify", "limited"},
                               read : Nat, retryAt : Nat, oldest : Nat]]
    /\ log \in Seq([ts : Nat, at : Nat])
    /\ popped \in 0 .. Len(log)
    /\ account \in [Emails -> Registrations \cup {Free}]
    /\ signup \in [Registrations -> {"idle", "create", "created", "duplicate"}]

LoginInit ==
    /\ now = 0
    /\ thread = [t \in Threads |-> NewThread]
    /\ log = <<>> /\ popped = 0
    /\ account = [e \in Emails |-> Free]
    /\ signup = [r \in Registrations |-> "idle"]

limiterVars == <<now, thread, log, popped>>
accountVars == <<account, signup>>

-----------------------------------------------------------------------------
(* The rate limiter                                                        *)

\* Nobody is held up for longer than MaxDelay.
Tick ==
    /\ now < MaxTime
    /\ \A t \in Threads : thread[t].pc = "check" => now < thread[t].read + MaxDelay
    /\ now' = now + 1
    /\ UNCHANGED <<thread, log, popped, accountVars>>

\* now = time.monotonic(), outside the lock.
ReadClock(t) ==
    /\ thread[t].pc = "idle"
    /\ thread' = [thread EXCEPT ![t].pc = "check", ![t].read = now]
    /\ UNCHANGED <<now, log, popped, accountVars>>

Expired(i, time) == log[i].ts <= time - Window

\* The entries that are popped: up to the first that has not expired.
PoppedAt(time) ==
    CHOOSE n \in popped .. Len(log) :
        /\ \A i \in popped + 1 .. n : Expired(i, time)
        /\ n < Len(log) => ~Expired(n + 1, time)

\* Mutant of Room (AdmittedPerWindow): one request too many.
RoomForOneMore(n) == Len(log) - n <= MaxRequests

Room(n) == Len(log) - n < MaxRequests

Admit(t) ==
    LET n == PoppedAt(thread[t].read)
    IN  /\ thread[t].pc = "check"
        /\ Room(n)
        /\ popped' = n
        /\ log' = Append(log, [ts |-> thread[t].read, at |-> now])
        /\ thread' = [thread EXCEPT ![t] = [NewThread EXCEPT !.pc = "verify"]]
        /\ UNCHANGED <<now, accountVars>>

\* Mutant of RetryAfter (RetryAfterSuffices): rounded down.
RetryAfterFloor(oldest, time) == (oldest + Window - time) \div Second

\* Whole seconds: int(oldest + window - now) + 1.
RetryAfter(oldest, time) == (oldest + Window - time) \div Second + 1

Refuse(t) ==
    LET n == PoppedAt(thread[t].read)
    IN  /\ thread[t].pc = "check"
        /\ ~Room(n)
        /\ popped' = n
        /\ thread' = [thread EXCEPT ![t] = [pc |-> "limited", read |-> 0, oldest |-> n + 1,
               retryAt |-> now + RetryAfter(log[n + 1].ts, thread[t].read) * Second]]
        /\ UNCHANGED <<now, log, accountVars>>

\* The password is checked, against a dummy hash when the email is unknown; the
\* answer changes nothing.
VerifyPassword(t) ==
    /\ thread[t].pc = "verify"
    /\ thread' = [thread EXCEPT ![t] = NewThread]
    /\ UNCHANGED <<now, log, popped, accountVars>>

\* A client that was refused asks again, at a time of its own choice.
AskAgain(t) ==
    /\ thread[t].pc = "limited"
    /\ thread' = [thread EXCEPT ![t] = NewThread]
    /\ UNCHANGED <<now, log, popped, accountVars>>

-----------------------------------------------------------------------------
(* Accounts                                                                *)

\* register looks the email up first.
FindUser(r) ==
    /\ signup[r] = "idle"
    /\ signup' = [signup EXCEPT ![r] =
           IF account[EmailOf[r]] = Free THEN "create" ELSE "duplicate"]
    /\ UNCHANGED <<limiterVars, account>>

\* Mutant of CreateUser (RegistrantOwnsAccount): the second insertion is taken for
\* a success.
CreateOrReuse(r) ==
    /\ signup[r] = "create"
    /\ account' = [account EXCEPT ![EmailOf[r]] = IF @ = Free THEN r ELSE @]
    /\ signup' = [signup EXCEPT ![r] = "created"]
    /\ UNCHANGED limiterVars

\* The unique constraint on users.email decides between requests that all found
\* the email free.
CreateUser(r) ==
    /\ signup[r] = "create"
    /\ IF account[EmailOf[r]] = Free
       THEN /\ account' = [account EXCEPT ![EmailOf[r]] = r]
            /\ signup' = [signup EXCEPT ![r] = "created"]
       ELSE /\ signup' = [signup EXCEPT ![r] = "duplicate"]
            /\ UNCHANGED account
    /\ UNCHANGED limiterVars

AttemptNext ==
    \/ Tick
    \/ \E t \in Threads : ReadClock(t) \/ Admit(t) \/ Refuse(t) \/ VerifyPassword(t) \/ AskAgain(t)

SignupNext == \E r \in Registrations : FindUser(r) \/ CreateUser(r)

LoginSpec == LoginInit /\ [][AttemptNext \/ SignupNext]_loginVars

-----------------------------------------------------------------------------
(* Properties                                                              *)

\* Of any MaxRequests + 1 logins that were let through, first and last are a window
\* apart, less the time a thread may be held up before the lock.
AdmittedPerWindow ==
    \A i \in DOMAIN log :
        i + MaxRequests \in DOMAIN log =>
            log[i + MaxRequests].at - log[i].at >= Window - MaxDelay

\* A client that waits as long as it was told to finds that the request which stood
\* in its way no longer counts.
RetryAfterSuffices ==
    \A t \in Threads :
        thread[t].pc = "limited" /\ now >= thread[t].retryAt => Expired(thread[t].oldest, now)

\* An account belongs to the request that was told it was created: of two requests
\* that register an email at once the other is refused.
RegistrantOwnsAccount ==
    \A r \in Registrations : signup[r] = "created" <=> account[EmailOf[r]] = r
=============================================================================
