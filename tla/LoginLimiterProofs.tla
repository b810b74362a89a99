-------------------------- MODULE LoginLimiterProofs --------------------------
(***************************************************************************)
(* Proofs about logins and registrations, for any number of threads, any   *)
(* limit, window, delay and clock, and any set of registrations.           *)
(***************************************************************************)
EXTENDS LoginLimiter, WellFoundedInduction, TLAPS

-----------------------------------------------------------------------------
(* The inductive invariant                                                 *)

ThreadRecord == [pc : {"idle", "check", "verify", "limited"},
                 read : Nat, retryAt : Nat, oldest : Nat]

Entry == [ts : Nat, at : Nat]

\* A request is recorded at most MaxDelay after its timestamp was read.
Stamped(e) == e.ts <= e.at /\ e.at <= e.ts + MaxDelay /\ e.at <= now

\* What has left the deque has left the window.
Dropped == \A i \in 1 .. popped : Expired(i, now)

\* A thread that waits for the lock has read the clock a short while ago.
Waiting(t) == thread[t].pc = "check" => thread[t].read <= now /\ now <= thread[t].read + MaxDelay

\* A refused thread was told to come back no earlier than the entry expires.
Promised(t) ==
    thread[t].pc = "limited" =>
        /\ thread[t].oldest \in DOMAIN log
        /\ thread[t].retryAt >= log[thread[t].oldest].ts + Window

LimiterInv ==
    /\ LoginTypeOK
    /\ \A i \in DOMAIN log : Stamped(log[i])
    /\ Dropped
    /\ \A t \in Threads : Waiting(t) /\ Promised(t)
    /\ AdmittedPerWindow

LoginInv == LimiterInv /\ RegistrantOwnsAccount

-----------------------------------------------------------------------------
(* Arithmetic and records                                                  *)

\* Rounding up to whole seconds never shortens a wait.
LEMMA RoundedUp ==
    ASSUME NEW x \in Nat, NEW s \in Nat \ {0}
    PROVE  x \div s \in Nat /\ (x \div s + 1) * s \in Nat /\ (x \div s + 1) * s >= x
<1> DEFINE q == x \div s
<1>1. q \in Nat
  OBVIOUS
<1>2. x % s \in 0 .. s - 1 /\ x = s * q + (x % s)
  OBVIOUS
<1>3. s * q \in Nat /\ (q + 1) * s = s * q + s
  BY <1>1
<1> QED
  BY <1>1, <1>2, <1>3

\* The thread records the steps write.
LEMMA ThreadRecords ==
    ASSUME NEW rec \in ThreadRecord, NEW time \in Nat, NEW later \in Nat, NEW i \in Nat
    PROVE  /\ NewThread \in ThreadRecord
           /\ [NewThread EXCEPT !.pc = "verify"] \in ThreadRecord
           /\ [rec EXCEPT !.pc = "check", !.read = time] \in ThreadRecord
           /\ [pc |-> "limited", read |-> 0, oldest |-> i, retryAt |-> later] \in ThreadRecord
<1>1. NewThread \in ThreadRecord
  BY DEF NewThread, ThreadRecord
<1>2. [NewThread EXCEPT !.pc = "verify"] \in ThreadRecord
  BY <1>1, ZenonT(30) DEF ThreadRecord
<1>3. [rec EXCEPT !.pc = "check", !.read = time] \in ThreadRecord
  BY ZenonT(30) DEF ThreadRecord
<1>4. [pc |-> "limited", read |-> 0, oldest |-> i, retryAt |-> later] \in ThreadRecord
  BY DEF ThreadRecord
<1> QED
  BY <1>1, <1>2, <1>3, <1>4

\* The types of the deque, entry by entry.
LEMMA Deque ==
    ASSUME LoginTypeOK
    PROVE  /\ log \in Seq(Entry) /\ Len(log) \in Nat /\ DOMAIN log = 1 .. Len(log)
           /\ \A i \in DOMAIN log : log[i] \in Entry
           /\ popped \in Nat /\ popped <= Len(log)
<1>1. log \in Seq(Entry) /\ popped \in 0 .. Len(log)
  BY DEF LoginTypeOK, Entry
<1>2. Len(log) \in Nat /\ DOMAIN log = 1 .. Len(log) /\ \A i \in DOMAIN log : log[i] \in Entry
  BY <1>1
<1> QED
  BY <1>1, <1>2

-----------------------------------------------------------------------------
(* Popping                                                                 *)

\* The loop that pops stops somewhere: at the first entry that still counts, or when
\* the deque is empty.
LEMMA PoppingStops ==
    ASSUME LoginTypeOK, NEW time \in Nat
    PROVE  /\ PoppedAt(time) \in popped .. Len(log)
           /\ \A i \in popped + 1 .. PoppedAt(time) : Expired(i, time)
           /\ PoppedAt(time) < Len(log) => ~Expired(PoppedAt(time) + 1, time)
<1> DEFINE Stops(n) == n = Len(log) \/ ~Expired(n + 1, time)
           T == {n \in popped .. Len(log) : Stops(n)}
           R == OpToRel(<, Nat)
<1>1. Len(log) \in Nat /\ popped \in Nat /\ popped <= Len(log)
  BY DEF LoginTypeOK
<1>2. T \subseteq Nat /\ T # {}
  BY <1>1
<1>3. PICK m \in T : \A n \in T : ~ (<<n, m>> \in R)
  <2> HIDE DEF T
  <2> QED
    BY <1>2, WFMin, NatLessThanWellFounded
<1>4. ASSUME NEW n \in T, n < m PROVE FALSE
  <2>1. n \in Nat /\ m \in Nat
    BY <1>2
  <2>2. <<n, m>> \in R
    BY <1>4, <2>1 DEF OpToRel
  <2> QED
    BY <1>3, <2>2
<1>5. m \in popped .. Len(log) /\ Stops(m)
  OBVIOUS
<1>6. ASSUME NEW i \in popped + 1 .. m PROVE Expired(i, time)
  <2>1. i - 1 \in popped .. Len(log) /\ i - 1 < m /\ i - 1 # Len(log) /\ (i - 1) + 1 = i
    BY <1>1, <1>5
  <2>2. i - 1 \notin T
    BY <1>4, <2>1
  <2> QED
    BY <2>1, <2>2
<1> HIDE DEF T, R
<1> QED
  BY <1>1, <1>5, <1>6 DEF PoppedAt

-----------------------------------------------------------------------------
(* Every step keeps the invariant                                          *)

\* A step that leaves the deque and the clock alone and gives one thread a record
\* that promises nothing false.
LEMMA ThreadStep ==
    ASSUME LimiterInv, NEW t \in Threads, NEW rec \in ThreadRecord,
           thread' = [thread EXCEPT ![t] = rec],
           rec.pc = "check" => rec.read = now, rec.pc # "limited",
           UNCHANGED <<now, log, popped, account, signup>>
    PROVE  LimiterInv'
<1>1. LoginTypeOK'
  BY DEF LimiterInv, LoginTypeOK, ThreadRecord
<1>2. ASSUME NEW u \in Threads PROVE Waiting(u)' /\ Promised(u)'
  <2>1. thread'[u] = IF u = t THEN rec ELSE thread[u]
    BY DEF LimiterInv, LoginTypeOK
  <2>2. now \in Nat /\ MaxDelay \in Nat
    BY LimiterAssumption DEF LimiterInv, LoginTypeOK
  <2> QED
    BY <2>1, <2>2 DEF LimiterInv, Waiting, Promised
<1>3. (\A i \in DOMAIN log : Stamped(log[i]))' /\ Dropped' /\ AdmittedPerWindow'
  BY DEF LimiterInv, Stamped, Dropped, Expired, AdmittedPerWindow
<1> QED
  BY <1>1, <1>2, <1>3 DEF LimiterInv

\* Time passes: no thread is held up for too long, and what has expired stays so.
LEMMA TickKeeps ==
    ASSUME LimiterInv, Tick
    PROVE  LimiterInv'
<1>1. LoginTypeOK'
  BY DEF LimiterInv, LoginTypeOK, Tick, accountVars
<1>2. \A i \in DOMAIN log : log[i] \in Entry
  BY Deque DEF LimiterInv
<1>3. now \in Nat /\ now' = now + 1 /\ log' = log /\ popped' = popped /\ thread' = thread
  BY DEF LimiterInv, LoginTypeOK, Tick
<1>4. (\A i \in DOMAIN log : Stamped(log[i]))'
  BY <1>2, <1>3, LimiterAssumption DEF LimiterInv, Stamped, Entry
<1>5. Dropped'
  <2>1. 1 .. popped \subseteq DOMAIN log
    BY Deque DEF LimiterInv
  <2> QED
    BY <1>2, <1>3, <2>1, LimiterAssumption DEF LimiterInv, Dropped, Expired, Entry
<1>6. ASSUME NEW u \in Threads PROVE Waiting(u)' /\ Promised(u)'
  <2>1. thread[u] \in ThreadRecord
    BY DEF LimiterInv, LoginTypeOK, ThreadRecord
  <2>2. Promised(u)'
    BY <1>3 DEF LimiterInv, Promised
  <2>3. Waiting(u)'
    BY <1>3, <2>1, LimiterAssumption DEF LimiterInv, Waiting, Tick, ThreadRecord
  <2> QED
    BY <2>2, <2>3
<1>7. AdmittedPerWindow'
  BY <1>3 DEF LimiterInv, AdmittedPerWindow
<1> QED
  BY <1>1, <1>4, <1>5, <1>6, <1>7 DEF LimiterInv

\* What a thread pops with the time it read has left the window by now.
LEMMA PoppedIsOld ==
    ASSUME LimiterInv, NEW t \in Threads, thread[t].pc = "check"
    PROVE  \A i \in 1 .. PoppedAt(thread[t].read) : Expired(i, now)
<1> DEFINE time == thread[t].read
           n == PoppedAt(time)
<1>1. time \in Nat /\ time <= now /\ now \in Nat /\ LoginTypeOK
  BY DEF LimiterInv, LoginTypeOK, Waiting
<1>2. n \in popped .. Len(log) /\ \A i \in popped + 1 .. n : Expired(i, time)
  BY <1>1, PoppingStops
<1>3. popped \in Nat /\ Len(log) \in Nat /\ \A i \in DOMAIN log : log[i] \in Entry
  BY Deque DEF LimiterInv
<1> HIDE DEF n, time
<1>4. ASSUME NEW i \in 1 .. n PROVE Expired(i, now)
  <2>1. CASE i <= popped
    BY <1>2, <1>3, <2>1 DEF LimiterInv, Dropped
  <2>2. CASE i > popped
    <3>1. i \in popped + 1 .. n /\ i \in DOMAIN log
      BY <1>2, <1>3, <2>2
    <3>2. log[i].ts <= time - Window /\ log[i].ts \in Nat
      BY <1>2, <1>3, <3>1 DEF Expired, Entry
    <3> QED
      BY <1>1, <3>2, LimiterAssumption DEF Expired
  <2> QED
    BY <1>2, <1>3, <2>1, <2>2
<1> QED
  BY <1>4 DEF n, time

\* An admitted request keeps the distance: the one MaxRequests before it was popped,
\* so it has left the window.
LEMMA AdmitKeeps ==
    ASSUME LimiterInv, NEW t \in Threads, Admit(t)
    PROVE  LimiterInv'
<1> DEFINE n == PoppedAt(thread[t].read)
           e == [ts |-> thread[t].read, at |-> now]
           last == Len(log) + 1
<1>1. /\ thread[t].pc = "check" /\ thread[t] \in ThreadRecord
      /\ thread[t].read \in Nat /\ thread[t].read <= now /\ now <= thread[t].read + MaxDelay
      /\ now \in Nat /\ popped \in Nat /\ Len(log) \in Nat /\ log \in Seq(Entry)
  BY DEF LimiterInv, LoginTypeOK, Waiting, Admit, ThreadRecord, Entry
<1>2. n \in popped .. Len(log) /\ n \in Nat
  <2>1. n \in popped .. Len(log)
    BY <1>1, PoppingStops DEF LimiterInv
  <2> HIDE DEF n
  <2> QED
    BY <1>1, <2>1
<1>3. Len(log) - n < MaxRequests /\ popped' = n /\ log' = Append(log, e) /\ now' = now
      /\ thread' = [thread EXCEPT ![t] = [NewThread EXCEPT !.pc = "verify"]]
      /\ account' = account /\ signup' = signup
  BY DEF Admit, Room, accountVars
<1>4. e \in Entry /\ e.ts = thread[t].read /\ e.at = now
  BY <1>1 DEF Entry
<1> HIDE DEF n, e
<1>5. /\ log' \in Seq(Entry) /\ Len(log') = last /\ DOMAIN log' = 1 .. last /\ DOMAIN log = 1 .. Len(log)
      /\ \A i \in 1 .. Len(log) : log'[i] = log[i] /\ log[i] \in Entry
      /\ log'[last] = e
  BY <1>1, <1>3, <1>4
<1>6. LoginTypeOK'
  <2>1. thread' \in [Threads -> ThreadRecord]
    BY <1>1, <1>3, ThreadRecords DEF LimiterInv, LoginTypeOK, ThreadRecord
  <2>2. popped' \in 0 .. Len(log')
    BY <1>1, <1>2, <1>3, <1>5
  <2> QED
    BY <1>3, <1>5, <2>1, <2>2 DEF LimiterInv, LoginTypeOK, ThreadRecord, Entry
<1>7. (\A i \in DOMAIN log : Stamped(log[i]))'
  BY <1>1, <1>3, <1>4, <1>5 DEF LimiterInv, Stamped
<1>8. \A i \in 1 .. n : log[i].ts <= now - Window
  BY <1>1, PoppedIsOld DEF Expired, n
<1>9. Dropped'
  BY <1>1, <1>2, <1>3, <1>5, <1>8 DEF Dropped, Expired
<1>10. ASSUME NEW u \in Threads PROVE Waiting(u)' /\ Promised(u)'
  <2>1. thread'[u] = IF u = t THEN [NewThread EXCEPT !.pc = "verify"] ELSE thread[u]
    BY <1>3 DEF LimiterInv, LoginTypeOK
  <2>2. u = t => thread'[u].pc = "verify"
    BY <2>1 DEF NewThread
  <2>3. u # t => thread'[u] = thread[u]
    BY <2>1
  <2>4. Waiting(u)'
    BY <1>3, <2>2, <2>3 DEF LimiterInv, Waiting
  <2>5. Promised(u)'
    BY <1>1, <1>5, <2>2, <2>3 DEF LimiterInv, Promised
  <2> QED
    BY <2>4, <2>5
<1>11. ASSUME NEW i \in DOMAIN log', i + MaxRequests \in DOMAIN log'
       PROVE  log'[i + MaxRequests].at - log'[i].at >= Window - MaxDelay
  <2>1. i \in Nat /\ i >= 1 /\ MaxRequests \in Nat /\ MaxRequests >= 1 /\ i <= Len(log)
    BY <1>1, <1>5, <1>11, LimiterAssumption
  <2>2. CASE i + MaxRequests = last
    <3>1. i \in 1 .. n
      BY <1>1, <1>2, <1>3, <2>1, <2>2
    <3>2. log[i] \in Entry /\ log[i].at <= log[i].ts + MaxDelay /\ log[i].ts <= now - Window
      BY <1>5, <1>8, <2>1, <3>1 DEF LimiterInv, Stamped
    <3>3. log'[i + MaxRequests].at = now /\ log'[i] = log[i]
      BY <1>4, <1>5, <2>1, <2>2
    <3> QED
      BY <1>1, <3>2, <3>3, LimiterAssumption DEF Entry
  <2>3. CASE i + MaxRequests # last
    <3>1. i + MaxRequests \in 1 .. Len(log) /\ i \in 1 .. Len(log)
      BY <1>1, <1>5, <1>11, <2>1, <2>3
    <3> QED
      BY <1>5, <3>1 DEF LimiterInv, AdmittedPerWindow
  <2> QED
    BY <2>2, <2>3
<1>12. AdmittedPerWindow'
  BY <1>11 DEF AdmittedPerWindow
<1> QED
  BY <1>6, <1>7, <1>9, <1>10, <1>12 DEF LimiterInv

\* A refused thread is told to wait at least until the oldest entry expires.
LEMMA RefuseKeeps ==
    ASSUME LimiterInv, NEW t \in Threads, Refuse(t)
    PROVE  LimiterInv'
<1> DEFINE time == thread[t].read
           n == PoppedAt(time)
           wait == log[n + 1].ts + Window - time
           rounded == (wait \div Second + 1) * Second
           later == now + rounded
           rec == [pc |-> "limited", read |-> 0, oldest |-> n + 1, retryAt |-> later]
<1>1. /\ thread[t].pc = "check" /\ thread[t] \in ThreadRecord
      /\ time \in Nat /\ time <= now
      /\ now \in Nat /\ popped \in Nat /\ Len(log) \in Nat /\ log \in Seq(Entry)
  BY DEF LimiterInv, LoginTypeOK, Waiting, Refuse, ThreadRecord, Entry
<1>2. n \in popped .. Len(log) /\ n \in Nat /\ (n < Len(log) => ~Expired(n + 1, time))
  <2>1. n \in popped .. Len(log) /\ (n < Len(log) => ~Expired(n + 1, time))
    BY <1>1, PoppingStops DEF LimiterInv
  <2> HIDE DEF n
  <2> QED
    BY <1>1, <2>1
<1>3. ~(Len(log) - n < MaxRequests) /\ popped' = n /\ log' = log /\ now' = now
      /\ thread' = [thread EXCEPT ![t] = rec] /\ account' = account /\ signup' = signup
  BY DEF Refuse, Room, accountVars, RetryAfter
<1>4. \A i \in 1 .. n : Expired(i, now)
  BY <1>1, PoppedIsOld
<1> HIDE DEF n
<1>5. n + 1 \in DOMAIN log /\ n < Len(log) /\ log[n + 1] \in Entry /\ log[n + 1].ts \in Nat
  <2>1. n < Len(log) /\ n + 1 \in 1 .. Len(log)
    BY <1>1, <1>2, <1>3, LimiterAssumption
  <2>2. n + 1 \in DOMAIN log /\ log[n + 1] \in Entry
    BY <2>1, Deque DEF LimiterInv
  <2> QED
    BY <2>1, <2>2 DEF Entry
<1>6. wait \in Nat
  <2>1. log[n + 1].ts > time - Window
    <3>1. ~(log[n + 1].ts <= time - Window)
      BY <1>2, <1>5 DEF Expired
    <3> HIDE DEF time
    <3> QED
      BY <1>1, <1>5, <3>1, LimiterAssumption
  <2> HIDE DEF time
  <2> QED
    BY <1>1, <1>5, <2>1, LimiterAssumption
<1>7. rounded \in Nat /\ rounded >= wait
  <2> HIDE DEF wait
  <2> QED
    BY <1>6, RoundedUp, LimiterAssumption
<1>8. later \in Nat /\ later >= log[n + 1].ts + Window
  <2>1. later \in Nat /\ later >= now + wait
    <3> HIDE DEF wait, rounded
    <3> QED
      BY <1>1, <1>6, <1>7
  <2> HIDE DEF later, time
  <2> QED
    BY <1>1, <1>5, <2>1, LimiterAssumption
<1> HIDE DEF later, time
<1>9. rec \in ThreadRecord /\ rec.pc = "limited" /\ rec.oldest = n + 1 /\ rec.retryAt = later
  BY <1>2, <1>8 DEF ThreadRecord
<1> HIDE DEF rec
<1>10. LoginTypeOK'
  <2>1. thread' \in [Threads -> ThreadRecord]
    BY <1>3, <1>9 DEF LimiterInv, LoginTypeOK, ThreadRecord
  <2>2. popped' \in 0 .. Len(log')
    BY <1>1, <1>2, <1>3
  <2> QED
    BY <1>3, <2>1, <2>2 DEF LimiterInv, LoginTypeOK, ThreadRecord
<1>11. (\A i \in DOMAIN log : Stamped(log[i]))' /\ AdmittedPerWindow'
  BY <1>3 DEF LimiterInv, Stamped, AdmittedPerWindow
<1>12. Dropped'
  BY <1>3, <1>4 DEF Dropped, Expired
<1>13. ASSUME NEW u \in Threads PROVE Waiting(u)' /\ Promised(u)'
  <2>1. thread'[u] = IF u = t THEN rec ELSE thread[u]
    BY <1>3 DEF LimiterInv, LoginTypeOK
  <2>2. Waiting(u)'
    BY <1>3, <1>9, <2>1 DEF LimiterInv, Waiting
  <2>3. Promised(u)'
    BY <1>3, <1>5, <1>8, <1>9, <2>1 DEF LimiterInv, Promised
  <2> QED
    BY <2>2, <2>3
<1> QED
  BY <1>10, <1>11, <1>12, <1>13 DEF LimiterInv

-----------------------------------------------------------------------------
(* Accounts                                                                *)

\* The account of an email is made by the request that is told so, and by no other.
LEMMA SignupKeeps ==
    ASSUME LimiterInv, RegistrantOwnsAccount, NEW r \in Registrations, FindUser(r) \/ CreateUser(r)
    PROVE  LimiterInv' /\ RegistrantOwnsAccount'
<1>1. UNCHANGED <<now, thread, log, popped>>
  BY DEF FindUser, CreateUser, limiterVars
<1>2. /\ EmailOf[r] \in Emails
      /\ account \in [Emails -> Registrations \cup {Free}]
      /\ signup \in [Registrations -> {"idle", "create", "created", "duplicate"}]
  BY AccountAssumption DEF LimiterInv, LoginTypeOK
<1>3. /\ account' \in [Emails -> Registrations \cup {Free}]
      /\ signup' \in [Registrations -> {"idle", "create", "created", "duplicate"}]
  BY <1>2 DEF FindUser, CreateUser
<1>4. LoginTypeOK'
  BY <1>1, <1>3 DEF LimiterInv, LoginTypeOK
<1>5. LimiterInv'
  BY <1>1, <1>4 DEF LimiterInv, Stamped, Dropped, Expired, Waiting, Promised, AdmittedPerWindow
<1>6. ASSUME NEW q \in Registrations PROVE signup'[q] = "created" <=> account'[EmailOf[q]] = q
  <2>1. EmailOf[q] \in Emails /\ q # Free /\ (signup[q] = "created" <=> account[EmailOf[q]] = q)
    BY AccountAssumption DEF RegistrantOwnsAccount
  <2>2. CASE FindUser(r)
    BY <1>2, <2>1, <2>2 DEF FindUser
  <2>3. CASE CreateUser(r) /\ account[EmailOf[r]] = Free
    BY <1>2, <2>1, <2>3 DEF CreateUser
  <2>4. CASE CreateUser(r) /\ account[EmailOf[r]] # Free
    BY <1>2, <2>1, <2>4 DEF CreateUser
  <2> QED
    BY <2>2, <2>3, <2>4
<1> QED
  BY <1>5, <1>6 DEF RegistrantOwnsAccount

-----------------------------------------------------------------------------
(* The theorems                                                            *)

LEMMA LoginInvInit == LoginInit => LoginInv
<1> SUFFICES ASSUME LoginInit PROVE LoginInv
  OBVIOUS
<1>1. Len(log) = 0 /\ DOMAIN log = {} /\ log \in Seq(Entry)
  BY DEF LoginInit
<1>2. LoginTypeOK
  <2>1. NewThread \in ThreadRecord
    BY DEF NewThread, ThreadRecord
  <2>2. thread \in [Threads -> ThreadRecord]
    BY <2>1 DEF LoginInit
  <2>3. popped \in 0 .. Len(log) /\ now \in Nat
    BY <1>1 DEF LoginInit
  <2>4. /\ account \in [Emails -> Registrations \cup {Free}]
        /\ signup \in [Registrations -> {"idle", "create", "created", "duplicate"}]
    BY DEF LoginInit
  <2> QED
    BY <1>1, <2>2, <2>3, <2>4 DEF LoginTypeOK, ThreadRecord, Entry
<1>3. \A t \in Threads : Waiting(t) /\ Promised(t)
  BY DEF LoginInit, NewThread, Waiting, Promised
<1>4. Dropped /\ AdmittedPerWindow
  BY <1>1 DEF LoginInit, Dropped, AdmittedPerWindow
<1>5. RegistrantOwnsAccount
  BY AccountAssumption DEF LoginInit, RegistrantOwnsAccount
<1> QED
  BY <1>1, <1>2, <1>3, <1>4, <1>5 DEF LoginInv, LimiterInv

LEMMA LoginInvStep == LoginInv /\ [AttemptNext \/ SignupNext]_loginVars => LoginInv'
<1> SUFFICES ASSUME LoginInv, [AttemptNext \/ SignupNext]_loginVars PROVE LoginInv'
  OBVIOUS
<1>1. LimiterInv /\ RegistrantOwnsAccount
  BY DEF LoginInv
<1>2. ASSUME UNCHANGED <<account, signup>> PROVE RegistrantOwnsAccount'
  BY <1>1, <1>2 DEF RegistrantOwnsAccount
<1>3. CASE Tick
  BY <1>1, <1>2, <1>3, TickKeeps DEF LoginInv, Tick, accountVars
<1>4. ASSUME NEW t \in Threads, ReadClock(t) PROVE LoginInv'
  <2> DEFINE rec == [thread[t] EXCEPT !.pc = "check", !.read = now]
  <2>1. thread[t] \in ThreadRecord /\ now \in Nat
    BY <1>1 DEF LimiterInv, LoginTypeOK, ThreadRecord
  <2>2. rec \in ThreadRecord
    BY <2>1, ThreadRecords
  <2>3. rec.pc = "check" /\ rec.read = now
    BY <2>1 DEF ThreadRecord
  <2>4. thread' = [thread EXCEPT ![t] = rec] /\ UNCHANGED <<now, log, popped, account, signup>>
    BY <1>4 DEF ReadClock, accountVars
  <2> HIDE DEF rec
  <2> QED
    BY <1>1, <1>2, <2>2, <2>3, <2>4, ThreadStep DEF LoginInv
<1>5. ASSUME NEW t \in Threads, VerifyPassword(t) \/ AskAgain(t) PROVE LoginInv'
  <2>1. NewThread \in ThreadRecord /\ NewThread.pc = "idle"
    BY DEF NewThread, ThreadRecord
  <2>2. thread' = [thread EXCEPT ![t] = NewThread] /\ UNCHANGED <<now, log, popped, account, signup>>
    BY <1>5 DEF VerifyPassword, AskAgain, accountVars
  <2> QED
    BY <1>1, <1>2, <2>1, <2>2, ThreadStep DEF LoginInv
<1>6. ASSUME NEW t \in Threads, Admit(t) PROVE LoginInv'
  BY <1>1, <1>2, <1>6, AdmitKeeps DEF LoginInv, Admit, accountVars
<1>7. ASSUME NEW t \in Threads, Refuse(t) PROVE LoginInv'
  BY <1>1, <1>2, <1>7, RefuseKeeps DEF LoginInv, Refuse, accountVars
<1>8. ASSUME NEW r \in Registrations, FindUser(r) \/ CreateUser(r) PROVE LoginInv'
  BY <1>1, <1>8, SignupKeeps DEF LoginInv
<1>9. CASE UNCHANGED loginVars
  BY <1>1, <1>9 DEF LoginInv, loginVars, LimiterInv, LoginTypeOK, Stamped, Dropped, Expired, Waiting,
     Promised, AdmittedPerWindow, RegistrantOwnsAccount
<1> QED
  BY <1>3, <1>4, <1>5, <1>6, <1>7, <1>8, <1>9 DEF AttemptNext, SignupNext

LEMMA LoginInvHolds == LoginSpec => []LoginInv
<1> QED
  BY LoginInvInit, LoginInvStep, PTL DEF LoginSpec

\* The limiter and the accounts keep their types: what is popped was recorded.
THEOREM LoginTypeCorrect == LoginSpec => []LoginTypeOK
<1>1. LoginInv => LoginTypeOK
  BY DEF LoginInv, LimiterInv
<1> QED
  BY <1>1, LoginInvHolds, PTL

\* check_rate_limit: of any MaxRequests + 1 logins let through, first and last are a
\* window apart, less the time a thread may wait for the lock, whatever the limit,
\* the window and the number of threads.
THEOREM AdmittedPerWindowAlways == LoginSpec => []AdmittedPerWindow
<1>1. LoginInv => AdmittedPerWindow
  BY DEF LoginInv, LimiterInv
<1> QED
  BY <1>1, LoginInvHolds, PTL

\* check_rate_limit: the rounded Retry-After is never too short for the entry that
\* stood in the way to expire.
THEOREM RetryAfterAlwaysSuffices == LoginSpec => []RetryAfterSuffices
<1>1. ASSUME LoginInv, NEW t \in Threads, thread[t].pc = "limited", now >= thread[t].retryAt
      PROVE  Expired(thread[t].oldest, now)
  <2> DEFINE o == thread[t].oldest
  <2>1. thread[t] \in ThreadRecord /\ now \in Nat /\ LoginTypeOK
    BY <1>1 DEF LoginInv, LimiterInv, LoginTypeOK, ThreadRecord
  <2>2. o \in DOMAIN log /\ thread[t].retryAt >= log[o].ts + Window
    BY <1>1 DEF LoginInv, LimiterInv, Promised
  <2>3. log[o] \in Entry
    BY <2>1, <2>2, Deque
  <2>4. log[o].ts \in Nat /\ thread[t].retryAt \in Nat
    BY <2>1, <2>3 DEF Entry, ThreadRecord
  <2> QED
    BY <1>1, <2>1, <2>2, <2>4, LimiterAssumption DEF Expired
<1>2. LoginInv => RetryAfterSuffices
  BY <1>1 DEF RetryAfterSuffices
<1> QED
  BY <1>2, LoginInvHolds, PTL

\* register: the unique constraint on the email gives an account to one request, and
\* only that one is told it was created.
THEOREM RegistrantAlwaysOwnsAccount == LoginSpec => []RegistrantOwnsAccount
<1>1. LoginInv => RegistrantOwnsAccount
  BY DEF LoginInv
<1> QED
  BY <1>1, LoginInvHolds, PTL
=============================================================================
