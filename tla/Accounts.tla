------------------------------ MODULE Accounts ------------------------------
(***************************************************************************)
(* The accounts backend: registration, sign-in with a lock after repeated  *)
(* failures.  Node runs a handler without interruption up to an await; the *)
(* two handlers that hash a password await it, and others run in between.  *)
(*                                                                         *)
(* Accounts are rows of a database and survive a restart; the failure      *)
(* counts are a map in memory.  Sessions are signed tokens, of which the   *)
(* server keeps nothing: they are part of no state here.                   *)
(***************************************************************************)
EXTENDS Integers, Sequences, FiniteSets

CONSTANTS
  Requests,      \* slots for overlapping POST /auth/register and /auth/login
  Emails,        \* the addresses looked at, normalised
  Seeded,        \* the address of the account made at the first start
  Browsers,      \* the IP address of a browser stands for it
  Passwords,     \* passwords of at least 12 characters
  SeedPassword,
  None,
  MaxFailures,   \* MAX_LOGIN_FAILURES (5 in the code)
  LockWindow,    \* LOGIN_LOCK_WINDOW_MS (10 minutes)
  MaxTime,       \* bound: the clock
  MaxStarts      \* bound: starts of the server

Keys == Emails \X Browsers

ASSUME AccountsAssumption ==
  /\ SeedPassword \in Passwords /\ IsFiniteSet(Requests)
  /\ None \notin Passwords \cup [failures : Int, lockedUntil : Int, firstAt : Int]
  /\ {MaxFailures, LockWindow, MaxStarts} \subseteq Nat \ {0}
  /\ MaxTime \in Nat

VARIABLES
  users,      \* the rows of the table users
  failures,   \* loginFailureMap
  request,    \* what each handler under way awaits
  starts,     \* starts of the server so far
  clock,
  misses,     \* history: times of the failures a start counted, since a success
  created     \* history: registrations answered 201

vars == <<users, failures, request, starts, clock, misses, created>>

Idle == [pc |-> "idle"]
Items == [failures : 1..MaxFailures + Cardinality(Requests),
          lockedUntil : 0..MaxTime + LockWindow, firstAt : 0..MaxTime]

TypeOK ==
  /\ users \in [Emails -> Passwords \cup {None}]
  /\ failures \in [Keys -> Items \cup {None}]
  /\ request \in [Requests ->
       {Idle} \cup [pc : {"hashing"}, email : Emails, password : Passwords]
              \cup [pc : {"comparing"}, key : Keys, passOk : BOOLEAN, at : 0..MaxTime]]
  /\ starts \in 1..MaxStarts /\ clock \in 0..MaxTime
  /\ misses \in [Keys -> Seq(0..MaxTime)]
  /\ created \subseteq [email : Emails, password : Passwords]

Init ==
  /\ users = [e \in Emails |-> IF e = Seeded THEN SeedPassword ELSE None]
  /\ failures = [k \in Keys |-> None]
  /\ request = [r \in Requests |-> Idle]
  /\ starts = 1 /\ clock = 0
  /\ misses = [k \in Keys |-> <<>>] /\ created = {}

---------------------------------------------------------------------------
(* The failure map.                                                        *)

Locked(k) == failures[k] # None /\ failures[k].lockedUntil > clock

\* Mutant: a lock that has run out is not forgotten.
AfterCheckKept(k) == failures[k]

\* checkLoginLock forgets a lock that has run out.
AfterCheck(k) ==
  IF failures[k] # None /\ failures[k].lockedUntil # 0 /\ failures[k].lockedUntil <= clock
  THEN None ELSE failures[k]

\* Mutant: locks one failure too late.
MarkedLate(item) ==
  LET fresh == item = None \/ clock - item.firstAt > LockWindow
      count == IF fresh THEN 1 ELSE item.failures + 1
  IN  [failures    |-> count,
       firstAt     |-> IF fresh THEN clock ELSE item.firstAt,
       lockedUntil |-> IF count > MaxFailures THEN clock + LockWindow
                       ELSE IF item = None THEN 0 ELSE item.lockedUntil]

\* Mutant: a window that restarts takes the lock with it.
MarkedAnew(item) ==
  IF item = None \/ clock - item.firstAt > LockWindow
  THEN [failures |-> 1, firstAt |-> clock, lockedUntil |-> 0]
  ELSE [item EXCEPT !.failures = @ + 1,
                    !.lockedUntil = IF item.failures + 1 >= MaxFailures
                                    THEN clock + LockWindow ELSE @]

\* markLoginFailure: a lock that still stands is kept when the window restarts.
Marked(item) ==
  LET fresh == item = None \/ clock - item.firstAt > LockWindow
      count == IF fresh THEN 1 ELSE item.failures + 1
  IN  [failures    |-> count,
       firstAt     |-> IF fresh THEN clock ELSE item.firstAt,
       lockedUntil |-> IF count >= MaxFailures THEN clock + LockWindow
                       ELSE IF item = None THEN 0 ELSE item.lockedUntil]

MarkFailure(k, item) ==
  /\ failures' = [failures EXCEPT ![k] = Marked(item)]
  /\ misses' = [misses EXCEPT ![k] = Append(@, clock)]

---------------------------------------------------------------------------
(* POST /auth/register.                                                    *)

\* The address is looked up before the hash is awaited.  A refused payload
\* changes nothing.
Register(r, e, password) ==
  /\ request[r] = Idle /\ users[e] = None
  /\ request' = [request EXCEPT ![r] = [pc |-> "hashing", email |-> e, password |-> password]]
  /\ UNCHANGED <<users, failures, starts, clock, misses, created>>

\* Mutant: the row of the account is replaced.
InsertedOver(e, password) == [users EXCEPT ![e] = password]

\* The row of a new account; the index on the address's hash refuses a second.
Inserted(e, password) ==
  IF users[e] = None THEN [users EXCEPT ![e] = password]
  ELSE users

FinishRegister(r) ==
  LET q == request[r] IN
  /\ q.pc = "hashing"
  /\ users' = Inserted(q.email, q.password)
  /\ created' = IF users' # users
                THEN created \cup {[email |-> q.email, password |-> q.password]}
                ELSE created                                      \* answers 500
  /\ request' = [request EXCEPT ![r] = Idle]
  /\ UNCHANGED <<failures, starts, clock, misses>>

---------------------------------------------------------------------------
(* POST /auth/login.                                                       *)

\* A key whose lock stands is answered 429, which changes nothing.  An input
\* that is no address or password, and an unknown address, count as failures.
RejectLogin(k, wellFormed) ==
  /\ ~Locked(k)
  /\ wellFormed => users[k[1]] = None
  /\ MarkFailure(k, AfterCheck(k))
  /\ UNCHANGED <<users, request, starts, clock, created>>

\* The password is compared with the row read here.
Login(r, k, password) ==
  /\ request[r] = Idle
  /\ ~Locked(k) /\ users[k[1]] # None
  /\ failures' = [failures EXCEPT ![k] = AfterCheck(k)]
  /\ request' = [request EXCEPT ![r] =
       [pc |-> "comparing", key |-> k, passOk |-> password = users[k[1]], at |-> clock]]
  /\ UNCHANGED <<users, starts, clock, misses, created>>

FinishWrong(r) ==
  /\ request[r].pc = "comparing" /\ ~request[r].passOk
  /\ MarkFailure(request[r].key, failures[request[r].key])
  /\ request' = [request EXCEPT ![r] = Idle]
  /\ UNCHANGED <<users, starts, clock, created>>

\* The failures are cleared before the answer, a cookie or an error, is made.
FinishRight(r) ==
  LET k == request[r].key IN
  /\ request[r].pc = "comparing" /\ request[r].passOk
  /\ failures' = [failures EXCEPT ![k] = None]
  /\ misses' = [misses EXCEPT ![k] = <<>>]
  /\ request' = [request EXCEPT ![r] = Idle]
  /\ UNCHANGED <<users, starts, clock, created>>

---------------------------------------------------------------------------
Tick ==
  /\ clock < MaxTime /\ clock' = clock + 1
  /\ UNCHANGED <<users, failures, request, starts, misses, created>>

\* The seeded account is there already, so a start adds no row.
Restart ==
  /\ starts < MaxStarts /\ starts' = starts + 1
  /\ failures' = [k \in Keys |-> None] /\ misses' = [k \in Keys |-> <<>>]
  /\ request' = [r \in Requests |-> Idle]
  /\ UNCHANGED <<users, clock, created>>

Next ==
  \/ \E r \in Requests :
       \/ \E e \in Emails, p \in Passwords : Register(r, e, p)
       \/ \E k \in Keys, p \in Passwords : Login(r, k, p)
       \/ FinishRegister(r) \/ FinishWrong(r) \/ FinishRight(r)
  \/ \E k \in Keys, wellFormed \in BOOLEAN : RejectLogin(k, wellFormed)
  \/ Tick \/ Restart

Spec == Init /\ [][Next]_vars

---------------------------------------------------------------------------
(* Properties.                                                             *)

\* A registration that was answered 201 is the one in the table, with its
\* password, for good: of two registrations of one address whose lookups both
\* found it free, only one is answered so (server.js 366-375).
CreatedIsKept ==
  \A c \in created : users[c.email] = c.password

Within(times, from) == Cardinality({i \in DOMAIN times : times[i] \in from..from + LockWindow - 1})

\* No span of a lock's length holds more failures of a key, between two of its
\* successes, than the lock allows: MaxFailures, the comparisons that began
\* before the lock was set, and either the failures of a count whose window runs
\* out within the span, or the late comparisons that are counted on a lock that
\* has run out and forgotten with it (server.js 153-175).
FailuresBounded ==
  LET slots == Cardinality(Requests)
      spill == IF slots > MaxFailures - 2 THEN slots ELSE MaxFailures - 2
  IN  \A k \in Keys : \A i \in DOMAIN misses[k] :
        Within(misses[k], misses[k][i]) <= MaxFailures + slots + spill

\* A lock that stands is lifted by nothing but a restart or a right password
\* whose comparison began before the failure that set the lock was counted
\* (server.js 395-415).
LockHolds ==
  [][(\A k \in Keys :
        Locked(k) /\ clock' < failures[k].lockedUntil =>
          \/ failures'[k] # None /\ failures'[k].lockedUntil >= failures[k].lockedUntil
          \/ starts' # starts
          \/ \E r \in Requests :
               /\ request[r].pc = "comparing" /\ request[r].passOk /\ request[r].key = k
               /\ request[r].at + LockWindow <= failures[k].lockedUntil
               /\ request'[r] = Idle)]_vars

===========================================================================
