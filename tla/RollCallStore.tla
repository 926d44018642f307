--------------------------- MODULE RollCallStore ---------------------------
(***************************************************************************)
(* A rollcall's rows in the database beside its lists in memory.  Every    *)
(* operation changes memory first and then writes row after row, each in a *)
(* transaction of its own (db.add_or_update_user and friends); this module *)
(* gives each operation as the trace of those writes.  RollCallHistory     *)
(* runs the traces to their end, RollCallFaults stops them half way.       *)
(***************************************************************************)
EXTENDS RollCallLists

CONSTANTS
  NoRow,      \* a person without a row in users / proxy_users
  MaxPos,     \* bound on the position columns, which the code lets grow for ever
  Names,      \* what /delete_user may be given; a guest goes by their name alone
  Username,   \* the member whose @username a name is, if it is one
  FirstName   \* the members a name is the first name of

Columns == {"in", "out", "waitlist"}   \* in_pos, out_pos, wait_pos; 0 is NULL

Row == [status : Answers \cup {"waitlist"}, owner : Owners, pos : [Columns -> Nat]]

ASSUME BoundAssumption == MaxPos \in Nat \ {0}
ASSUME RowAssumption == NoRow \notin Row
ASSUME NameAssumption ==
  /\ Guests \subseteq Names
  /\ Username \in [Names -> SUBSET Members] /\ FirstName \in [Names -> SUBSET Members]
  /\ \A n \in Names : \A u, v \in Username[n] : u = v

VARIABLE db   \* the rows, the order they were inserted in, the saved cap

(***************************************************************************)
(* The tables.                                                             *)
(***************************************************************************)
EmptyTable(limit) ==
  [rows |-> [u \in People |-> NoRow], born |-> << >>, limit |-> limit]

HasRow(d, u) == d.rows[u] # NoRow
WithRow(d, S) == {u \in S : HasRow(d, u)}
RowsWith(d, status) == {u \in People : HasRow(d, u) /\ d.rows[u].status = status}

\* Slip: the next position is counted instead of MAX + 1.
CountPos(d, column) == 1 + Cardinality(RowsWith(d, column))

NextPos(d, column) == 1 + Max({0} \cup {d.rows[u].pos[column] : u \in RowsWith(d, column)})

\* Slip: a position survives leaving its bucket.
KeptPos(d, u, status, column) ==
  LET old == IF HasRow(d, u) THEN d.rows[u].pos[column] ELSE 0
  IN  IF column = status /\ old = 0 THEN NextPos(d, column) ELSE old

\* Leaving a bucket clears its position; entering one takes the next.
NewPos(d, u, status, column) ==
  LET old == IF ~HasRow(d, u) \/ (d.rows[u].status = column /\ status # column)
             THEN 0 ELSE d.rows[u].pos[column]
  IN  IF column = status /\ old = 0 THEN NextPos(d, column) ELSE old

WriteRow(d, u, status, owner) ==
  [d EXCEPT !.rows[u] = [status |-> status, owner |-> owner,
                         pos |-> [c \in Columns |-> NewPos(d, u, status, c)]],
            !.born = IF HasRow(d, u) THEN @ ELSE Append(@, u)]

AddOrUpdateUser(d, u, status)             == WriteRow(d, u, status, NoOwner)
AddOrUpdateProxyUser(d, g, status, owner) == WriteRow(d, g, status, owner)

\* Slip: the DELETE loses its user_id condition.
DeleteAll(d, u) ==
  FoldSet(LAMBDA v, t : [t EXCEPT !.rows[v] = NoRow], [d EXCEPT !.born = << >>], People)

DeleteUserById(d, u) ==
  [d EXCEPT !.rows[u] = NoRow, !.born = RemoveFirst(@, u)]

\* Slip: members are looked up before guests.
NamedMember(d, n) ==
  LET users  == WithRow(d, Username[n])
      firsts == WithRow(d, FirstName[n])
  IN  IF users # {} THEN users
      ELSE IF firsts # {} THEN {u \in firsts : firsts = {u}} ELSE WithRow(d, {n} \cap Guests)

\* Whom delete_user_by_name deletes: the guest of that name; without one the
\* member of that username, or else of that first name if only one has it.
Named(d, n) ==
  LET guests == WithRow(d, {n} \cap Guests)
      users  == WithRow(d, Username[n])
      firsts == WithRow(d, FirstName[n])
  IN  IF guests # {} THEN guests
      ELSE IF users # {} THEN users
      ELSE {u \in firsts : firsts = {u}}

\* Slip: the demoted keep the positions they were appended with.
NoReorder(d, ids) == d

ReorderWaitlist(d, ids) ==
  [d EXCEPT !.rows = [u \in People |->
     IF u \in RowsWith(d, "waitlist") \cap ToSet(ids)
     THEN [@[u] EXCEPT !.pos["waitlist"] = CHOOSE i \in DOMAIN ids : ids[i] = u]
     ELSE @[u]]]

UpdateRollcall(d, r) == [d EXCEPT !.limit = r.inListLimit]

(***************************************************************************)
(* Reading the rollcall back: each bucket by position, then by insertion.  *)
(***************************************************************************)
PosOf(d, u, status) == IF status = "maybe" THEN 0 ELSE d.rows[u].pos[status]
BornAt(d, u) == CHOOSE i \in DOMAIN d.born : d.born[i] = u

Before(d, status, u, v) ==
  \/ PosOf(d, u, status) < PosOf(d, v, status)
  \/ PosOf(d, u, status) = PosOf(d, v, status) /\ BornAt(d, u) < BornAt(d, v)

Listing(d, status) ==
  CHOOSE s \in SetToSeqs(RowsWith(d, status)) :
    \A i, j \in DOMAIN s : i < j => Before(d, status, s[i], s[j])

LoadFromDb(d) ==
  [inList |-> Listing(d, "in"), outList |-> Listing(d, "out"),
   maybeList |-> Listing(d, "maybe"), waitList |-> Listing(d, "waitlist"),
   inListLimit |-> d.limit,
   proxy_owners |-> [g \in Guests |-> IF HasRow(d, g) THEN d.rows[g].owner ELSE NoOwner]]

\* _load_users_from_db rebuilds the lists and owners and leaves the cap alone.
ReloadUsers(d, r) == [LoadFromDb(d) EXCEPT !.inListLimit = r.inListLimit]

(***************************************************************************)
(* Traces.  A write is the memory it is attempted in, and the memory and   *)
(* the tables after it succeeded.                                          *)
(***************************************************************************)
Write(attempted, r, d) == [try |-> attempted, rc |-> r, db |-> d]

SaveUserToDb(d, r, u) ==
  IF u \in Guests THEN AddOrUpdateProxyUser(d, u, StatusOf(r, u), r.proxy_owners[u])
                  ELSE AddOrUpdateUser(d, u, StatusOf(r, u))

\* One row write per person of `us`, in order, memory already at r.
Saves(d, r, us) ==
  LET after[k \in 0..Len(us)] == IF k = 0 THEN d ELSE SaveUserToDb(after[k - 1], r, us[k])
  IN  [k \in DOMAIN us |-> Write(r, r, after[k])]

End(trace, d) == IF trace = << >> THEN d ELSE Last(trace).db

\* Row writes for `us`, then the rollcall's own row (rc.save()).
SavesAndClose(d, r, us) ==
  LET saves == Saves(d, r, us)
  IN  Append(saves, Write(r, r, UpdateRollcall(End(saves, d), r)))

\* Those of S in a list, in its order.
Among(s, S) ==
  LET found[i \in 0..Len(s)] ==
        IF i = 0 THEN << >>
        ELSE IF s[i] \in S THEN Append(found[i - 1], s[i]) ELSE found[i - 1]
  IN  found[Len(s)]

\* Slip: the promoted head is moved in memory only.
VoterOnly(old, new, u, recomment) ==
  IF new # old \/ recomment THEN << u >> ELSE << >>

\* Who a vote writes: somebody promoted first, then the voter; the voter
\* alone for a changed comment, nobody for a repeated answer.
VoteWrites(old, new, u, recomment) ==
  IF new = old THEN IF recomment THEN << u >> ELSE << >>
  ELSE Among(old.waitList, In(new) \ {u}) \o << u >>

VoteTrace(d, r, u, answer, recomment) ==
  LET new == Add(r, u, answer)
  IN  SavesAndClose(d, new, VoteWrites(r, new, u, recomment))

FillTrace(d, r) ==
  LET new == FillWaitlistSlots(r)
  IN  SavesAndClose(d, new, Among(r.waitList, In(new)))

\* The cap is saved first, except that clearing it saves the rows first.
LimitTrace(d, r, n) ==
  LET new    == SetWaitLimit(r, n)
      capped == [r EXCEPT !.inListLimit = n]
      d0     == UpdateRollcall(d, capped)
      excess == Among(r.inList, Waiting(new))
      rows   == Saves(d0, new, excess)
      queued == ReorderWaitlist(End(rows, d0), new.waitList)
  IN  IF n = 0 THEN SavesAndClose(d, new, r.waitList)
      ELSE << Write(capped, capped, d0) >> \o
           (IF excess # << >>
            THEN rows \o << Write(new, new, queued), Write(new, new, queued) >>
            ELSE IF new = capped THEN << >> ELSE FillTrace(d0, capped))

DeleteWrite(d, r, u, owner) ==
  LET gone == DeleteUserById(d, u)
  IN  Write(r, SetOwner(ReloadUsers(gone, r), u, owner), gone)

DeleteTrace(d, r, u) ==
  LET del == DeleteWrite(d, r, u, NoOwner)
  IN  << del >> \o FillTrace(del.db, del.rc)

StatusTrace(d, r, u, answer) ==
  LET del == DeleteWrite(d, r, u, OwnerOf(r, u))
  IN  << del >> \o VoteTrace(del.db, del.rc, u, answer, FALSE)

\* set_user_status goes on when the delete failed: from the lists read back.
KeptTrace(d, r, u, answer) ==
  LET kept == Write(r, SetOwner(ReloadUsers(d, r), u, OwnerOf(r, u)), d)
  IN  << kept >> \o VoteTrace(d, kept.rc, u, answer, FALSE)

WebTrace(d, r, m, g, answer, recomment) ==
  LET del  == DeleteWrite(d, r, g, NoOwner)
      vote == VoteTrace(del.db, del.rc, m, answer, recomment)
  IN  << del >> \o vote \o FillTrace(Last(vote).db, Last(vote).rc)

-----------------------------------------------------------------------------
(***************************************************************************)
(* The operations, each with the guard its service checks.                 *)
(***************************************************************************)
Call(u, trace) == [who |-> u, trace |-> trace]

MemberAnswers(m, a, c) == Call(m, VoteTrace(db, rc, m, a, c))
GuestComes(g, o)       == Call(g, VoteTrace(db, SetOwner(rc, g, o), g, "in", FALSE))
GuestAnswers(g, a, c)  == Call(g, VoteTrace(db, rc, g, a, c))
CapMoves(n)            == Call(NoRow, LimitTrace(db, rc, n))
IdDeleted(m)           == Call(m, DeleteTrace(db, rc, m))
NameDeleted(n, u)      == Call(n, DeleteTrace(db, rc, u))
PersonMoved(u, a)      == Call(u, StatusTrace(db, rc, u, a))
PersonKept(u, a)       == Call(u, KeptTrace(db, rc, u, a))
WebAnswers(m, g, a, c) == Call(m, WebTrace(db, rc, m, g, a, c))

NewGuests     == Guests \ (In(rc) \cup Waiting(rc))
WebGuests     == {g \in WithRow(db, Guests \cap Listed(rc)) : rc.proxy_owners[g] = Web}

\* Deleting by id takes a member from the lists; a guest is deleted by name,
\* and a name is looked up in the tables, listed or not.
ById == WithRow(db, Members \cap Listed(rc))
StaysAway     == Answers \ {"in"}
MayBecome(u)  == {a \in Answers : StatusOf(rc, u) # a /\ (a = "in" => ~Full(rc))}

\* The bound on the position columns.
InBound(d) == \A u \in People : HasRow(d, u) => \A c \in Columns : d.rows[u].pos[c] <= MaxPos

Finish(call) ==
  /\ call.trace # << >> /\ InBound(Last(call.trace).db)
  /\ rc' = Last(call.trace).rc
  /\ db' = Last(call.trace).db

StoreInit ==
  \E limit \in Limits \cup {NoLimit} :
     rc = NewRollCall(limit) /\ db = EmptyTable(limit)

Reopen == rc' = LoadFromDb(db) /\ UNCHANGED db

-----------------------------------------------------------------------------
\* The tables hold one row per person, with at most one position set.
StoreTypeOK ==
  /\ TypeOK
  /\ \A u \in People : HasRow(db, u) =>
       /\ db.rows[u].status \in Answers \cup {"waitlist"}
       /\ {c \in Columns : db.rows[u].pos[c] # 0} = {db.rows[u].status} \cap Columns
  /\ ToSet(db.born) = {u \in People : HasRow(db, u)}

\* The cache contract (rollcall_manager.py): what the bot would read back is
\* what it holds, every list in the same order, except MAYBE's order.
CacheMatchesStore ==
  /\ ToSet(rc.maybeList) = RowsWith(db, "maybe")
  /\ [rc EXCEPT !.maybeList = << >>] = [LoadFromDb(db) EXCEPT !.maybeList = << >>]

\* No two people of a bucket share a position, so the order read back never
\* rests on insertion times.
PositionsDistinct ==
  \A c \in Columns : \A u, v \in RowsWith(db, c) :
     u # v => db.rows[u].pos[c] # db.rows[v].pos[c]

\* Rows, positions and restarts implement the lists.
ImplementsLists == Spec

\* The tables stand for the rollcall: readable, equal to the lists in memory,
\* and in an order of their own.
StoreOK == StoreTypeOK /\ CacheMatchesStore /\ PositionsDistinct
=============================================================================
