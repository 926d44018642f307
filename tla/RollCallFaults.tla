--------------------------- MODULE RollCallFaults ---------------------------
(***************************************************************************)
(* The traces of RollCallStore, stopped half way: a write that raises, or  *)
(* a process that dies between two writes and reads the tables back.  The  *)
(* memory is changed before the write and is not rolled back.              *)
(***************************************************************************)
EXTENDS RollCallStore

CONSTANT MaxFaults   \* bound on the writes that fail in a behaviour

ASSUME FaultAssumption == MaxFaults \in Nat

VARIABLES
  told,    \* who was answered last, and with what
  faults   \* how many writes have failed

fvars == << rc, db, told, faults >>

Reply(u, reply) == told' = [who |-> u, reply |-> reply]

\* The tables before write k of a trace.
SoFar(trace, k) == IF k = 1 THEN db ELSE trace[k - 1].db

Become(r, d) == InBound(d) /\ rc' = r /\ db' = d

AnswersError(u) ==
  /\ faults < MaxFaults
  /\ faults' = faults + 1
  /\ Reply(u, "error")

\* A guest who is IN or WAITING already: refused by /sif, and answered as
\* done by the web page; neither writes.
Repeated == {Call(g, << >>) : g \in Guests \cap (In(rc) \cup Waiting(rc))}

Done(call) ==
  /\ IF call.trace = << >> THEN UNCHANGED << rc, db >> ELSE Finish(call)
  /\ Reply(call.who, "done")
  /\ UNCHANGED faults

\* Write k raises; whoever asked gets the error.
Raise(call) ==
  /\ \E k \in DOMAIN call.trace : Become(call.trace[k].try, SoFar(call.trace, k))
  /\ AnswersError(call.who)

\* After a failure set_user_status tries to put the row back at its old status
\* and reads the lists back.
Unmove(call, k) ==
  LET r == call.trace[k].try
      d == SoFar(call.trace, k)
      status == StatusOf(rc, call.who)
      owner  == OwnerOf(r, call.who)
      restored == WriteRow(d, call.who, status, owner)
  IN  \/ Become(ReloadUsers(restored, r), restored)
      \/ Become(r, d)

MoveFails(call) ==
  /\ \E k \in DOMAIN call.trace \ {1} : Unmove(call, k)
  /\ AnswersError(call.who)

\* The move goes through although its delete failed.
MovesAnyway(call) ==
  /\ Finish(call)
  /\ Reply(call.who, "done")
  /\ faults < MaxFaults /\ faults' = faults + 1

\* A deletion that finds no row is refused before the lists are read back.
NotFound(who) ==
  /\ Reply(who, "error")
  /\ UNCHANGED << rc, db, faults >>

\* A web vote whose guest row is gone fills the freed slots even when the
\* vote itself fails (the finally clause).
WebFails(call) ==
  /\ \E k \in DOMAIN call.trace \ {1} :
       LET fill == FillTrace(SoFar(call.trace, k), call.trace[k].try)
       IN  \/ Become(Last(fill).rc, Last(fill).db)
           \/ Become(call.trace[k].try, SoFar(call.trace, k))
  /\ AnswersError(call.who)

\* The process dies after k of the writes, and starts again.
DiesMidway(call) ==
  /\ \E k \in DOMAIN call.trace :
       Become(LoadFromDb(SoFar(call.trace, k)), SoFar(call.trace, k))
  /\ Reply(call.who, "none")
  /\ UNCHANGED faults

FaultInit ==
  /\ StoreInit
  /\ told = [who |-> NoRow, reply |-> "none"]
  /\ faults = 0

\* Each operation runs to its end, stops at a write that fails, or dies.
VoteCalls ==
  {MemberAnswers(m, a, c) : m \in Members, a \in Answers, c \in BOOLEAN}
    \cup {GuestComes(g, o) : g \in NewGuests, o \in {Admin, Web}}
    \cup {GuestAnswers(g, a, c) : g \in Guests, a \in StaysAway, c \in BOOLEAN}
AdminCalls == {CapMoves(n) : n \in Limits} \cup {IdDeleted(m) : m \in ById}
                \cup UNION {{NameDeleted(n, u) : u \in Named(db, n)} : n \in Names}
MoveCalls  == UNION {{PersonMoved(u, a) : a \in MayBecome(u)} : u \in Listed(rc)}
KeptCalls  == UNION {{PersonKept(u, a) : a \in MayBecome(u)} : u \in Listed(rc)}
WebCalls   == {WebAnswers(m, g, a, c) :
                 m \in Members, g \in WebGuests, a \in Answers, c \in BOOLEAN}

Answered == \E call \in Repeated : Done(call)
Single   == \E call \in VoteCalls \cup AdminCalls : Done(call) \/ Raise(call) \/ DiesMidway(call)
Moved    == \E call \in MoveCalls : Done(call) \/ MoveFails(call) \/ DiesMidway(call)
MovedKept == \E call \in KeptCalls : MovesAnyway(call) \/ MoveFails(call)
Refused  == \/ \E m \in Members \ ById : NotFound(m)
            \/ \E n \in Names : Named(db, n) = {} /\ NotFound(n)
OnWeb    == \E call \in WebCalls : Done(call) \/ WebFails(call) \/ DiesMidway(call)

FaultNext == Answered \/ Single \/ Moved \/ MovedKept \/ Refused \/ OnWeb
FaultSpec == FaultInit /\ [][FaultNext]_fvars

-----------------------------------------------------------------------------
\* After any mix of failures and crashes the tables keep their shape: one row
\* per person, one position set, so the rollcall can always be read back.
FaultTypeOK ==
  /\ StoreTypeOK
  /\ told \in [who : People \cup Names \cup {NoRow}, reply : {"none", "done", "error"}]
  /\ faults \in 0..MaxFaults

\* Dying between any two writes costs nothing but the rest of the operation:
\* the process comes back with what the tables say, everybody on one list.
CrashesAreClean == faults = 0 => CacheMatchesStore /\ OnePlace(rc)

\* A name means a member only where no guest of that name has a row, and a
\* first name only where one person has it ("to avoid wiping the wrong account
\* when two real users share a first name", db.py:3033).  A guest the lists
\* show is mistaken for a member only after a write has failed.
Means(n, u) ==
  /\ n \in Guests => ~HasRow(db, n) /\ (n \in Listed(rc) => faults > 0)
  /\ u \in Username[n] \/ WithRow(db, FirstName[n]) = {u}

\* An operation, whatever write it stopped at, costs at most the person it was
\* for their row: the one given by id, a web guest who voted as a member, or
\* whom the name an admin typed means.  Nobody else's answer is lost.
OthersKept ==
  [][\A u \in People : HasRow(db, u) /\ ~HasRow(db', u) =>
       \/ u = told'.who
       \/ u \in Guests /\ rc.proxy_owners[u] = Web
       \/ told'.who \in Names /\ Means(told'.who, u)]_fvars

\* The tables stay readable after failures, and deaths alone change nothing.
FaultsOK == FaultTypeOK /\ CrashesAreClean
=============================================================================
