--------------------------- MODULE RollCallProofs ---------------------------
(***************************************************************************)
(* Proofs about one rollcall's lists and its tables.  RollCallLists, for   *)
(* any members, guests and caps: the type, one place per person, the cap,  *)
(* no idle slot while somebody waits, nobody sent back to the waitlist,    *)
(* and the sign-up line it implements; every operation is a composition of *)
(* a few operators on a rollcall, and each operator gets a lemma.          *)
(* RollCallStore with RollCallHistory and RollCallFaults: the tables stand *)
(* for the lists and implement them, the counters follow them, and neither *)
(* a write that fails nor a death costs anybody else a row.                *)
(***************************************************************************)
EXTENDS RollCallHistory, RollCallFaults, DataLemmas

\* A well-formed rollcall, with or without an idle slot: what holds also in
\* the middle of an operation (a row deleted, its slot not yet filled).
Sound(r) ==
  r \in RollCall /\ OnePlace(r) /\ CapHeld(r) /\ (r.waitList # << >> => Capped(r))

\* At most one slot is idle: one person has just left.
AlmostFull(r) == r.waitList # << >> => Len(r.inList) + 1 >= r.inListLimit

\* The inductive invariant.
Inv == Sound(rc) /\ NoIdleSlot(rc)

\* Four lists that hold nobody twice.
Apart(i, o, m, w) ==
  /\ IsInjective(i) /\ IsInjective(o) /\ IsInjective(m) /\ IsInjective(w)
  /\ ToSet(i) \cap ToSet(o) = {} /\ ToSet(i) \cap ToSet(m) = {}
  /\ ToSet(i) \cap ToSet(w) = {} /\ ToSet(o) \cap ToSet(m) = {}
  /\ ToSet(o) \cap ToSet(w) = {} /\ ToSet(m) \cap ToSet(w) = {}

LEMMA OnePlaceApart ==
  ASSUME NEW r
  PROVE  OnePlace(r) <=> Apart(r.inList, r.outList, r.maybeList, r.waitList)
BY DEF OnePlace, Disjoint, Apart

\* The fields of a sound rollcall.
LEMMA SoundFields ==
  ASSUME NEW r, Sound(r)
  PROVE  /\ r \in RollCall
         /\ r.inList \in Seq(People) /\ r.outList \in Seq(People)
         /\ r.maybeList \in Seq(People) /\ r.waitList \in Seq(People)
         /\ Len(r.inList) \in Nat /\ Len(r.waitList) \in Nat
         /\ Apart(r.inList, r.outList, r.maybeList, r.waitList)
         /\ Capped(r) => r.inListLimit \in Nat /\ Len(r.inList) <= r.inListLimit
         /\ ~Capped(r) => r.waitList = << >>
<1>1. /\ r \in RollCall
      /\ r.inList \in Seq(People) /\ r.outList \in Seq(People)
      /\ r.maybeList \in Seq(People) /\ r.waitList \in Seq(People)
      /\ r.inListLimit \in Limits \cup {NoLimit}
  BY DEF Sound, RollCall
<1>2. Len(r.inList) \in Nat /\ Len(r.waitList) \in Nat
  BY <1>1
<1>3. Apart(r.inList, r.outList, r.maybeList, r.waitList)
  BY OnePlaceApart DEF Sound
<1>4. Capped(r) => r.inListLimit \in Nat /\ Len(r.inList) <= r.inListLimit
  BY <1>1, LimitAssumption DEF Sound, CapHeld, Capped
<1> QED  BY <1>1, <1>2, <1>3, <1>4 DEF Sound

\* A rollcall put together from its fields is sound.
LEMMA SoundIntro ==
  ASSUME NEW r \in RollCall, Apart(r.inList, r.outList, r.maybeList, r.waitList),
         Capped(r) => Len(r.inList) <= r.inListLimit,
         r.waitList # << >> => Capped(r)
  PROVE  Sound(r)
BY OnePlaceApart DEF Sound, CapHeld

\* Nobody waits in an empty queue, and taking somebody out keeps it empty.
LEMMA EmptyQueue ==
  ASSUME NEW u
  PROVE  ToSet(<< >>) = {} /\ RemoveFirst(<< >>, u) = << >>
BY DEF ToSet, RemoveFirst

\* addIn keeps a rollcall sound; if at most the voter's own slot was free it
\* leaves no slot idle.
LEMMA AddInSound ==
  ASSUME NEW r, Sound(r), NEW u \in People
  PROVE  /\ Sound(AddIn(r, u))
         /\ NoIdleSlot(r) \/ (AlmostFull(r) /\ u \notin Listed(r))
              => NoIdleSlot(AddIn(r, u))
<1> DEFINE o == RemoveFirst(r.outList, u)
           m == RemoveFirst(r.maybeList, u)
           w == RemoveFirst(r.waitList, u)
           a == AddIn(r, u)
<1>1. CASE u \in In(r) \/ (Capped(r) /\ u \in Waiting(r))
  BY <1>1 DEF AddIn, Listed
<1>2. CASE ~(u \in In(r) \/ (Capped(r) /\ u \in Waiting(r)))
  <2>0. /\ r \in RollCall /\ u \notin ToSet(r.inList)
        /\ Apart(r.inList, r.outList, r.maybeList, r.waitList)
        /\ r.inList \in Seq(People) /\ Len(r.inList) \in Nat
    BY <1>2, SoundFields DEF In
  <2>1. /\ o \in Seq(People) /\ IsInjective(o) /\ ToSet(o) = ToSet(r.outList) \ {u}
        /\ m \in Seq(People) /\ IsInjective(m) /\ ToSet(m) = ToSet(r.maybeList) \ {u}
        /\ w \in Seq(People) /\ IsInjective(w) /\ ToSet(w) = ToSet(r.waitList) \ {u}
    BY <2>0, SoundFields, RemoveFirstFacts DEF Apart
  <2>w. r.waitList = << >> => w = << >>
    BY EmptyQueue
  <2> HIDE DEF o, m, w
  <2> DEFINE left == [r EXCEPT !.outList = o, !.maybeList = m, !.waitList = w]
  <2>2. /\ left \in RollCall /\ left.inList = r.inList /\ left.outList = o
        /\ left.maybeList = m /\ left.waitList = w
        /\ left.inListLimit = r.inListLimit
    BY <2>0, <2>1 DEF RollCall
  <2>3. a = IF Full(left) THEN [left EXCEPT !.waitList = Append(w, u)]
                          ELSE [left EXCEPT !.inList = Append(r.inList, u)]
    BY <1>2, <2>2 DEF AddIn, o, m, w
  <2>f. Full(left) <=> Full(r)
    BY <2>2 DEF Full, Capped
  <2> HIDE DEF left, a
  <2>4. CASE Full(left)
    <3>1. a = [left EXCEPT !.waitList = Append(w, u)]
      BY <2>3, <2>4
    <3>2. /\ Append(w, u) \in Seq(People) /\ IsInjective(Append(w, u))
          /\ ToSet(Append(w, u)) = ToSet(w) \cup {u}
      BY <2>1, AppendFacts
    <3>3. /\ a \in RollCall /\ a.inList = r.inList /\ a.outList = o
          /\ a.maybeList = m /\ a.waitList = Append(w, u)
          /\ a.inListLimit = r.inListLimit
      BY <2>2, <3>1, <3>2 DEF RollCall
    <3>4. Apart(a.inList, a.outList, a.maybeList, a.waitList)
      BY <2>0, <2>1, <3>2, <3>3 DEF Apart
    <3>5. Full(a) /\ Capped(a) /\ (Capped(a) => Len(a.inList) <= a.inListLimit)
      BY <2>2, <2>4, <2>f, <3>3, SoundFields DEF Full, Capped
    <3> QED  BY <3>3, <3>4, <3>5, SoundIntro DEF NoIdleSlot, a
  <2>5. CASE ~Full(left)
    <3>1. a = [left EXCEPT !.inList = Append(r.inList, u)]
      BY <2>3, <2>5
    <3>2. /\ Append(r.inList, u) \in Seq(People) /\ IsInjective(Append(r.inList, u))
          /\ ToSet(Append(r.inList, u)) = ToSet(r.inList) \cup {u}
          /\ Len(Append(r.inList, u)) = Len(r.inList) + 1
      BY <2>0, AppendFacts DEF Apart
    <3>3. /\ a \in RollCall /\ a.inList = Append(r.inList, u) /\ a.outList = o
          /\ a.maybeList = m /\ a.waitList = w
          /\ a.inListLimit = r.inListLimit
      BY <2>2, <3>1, <3>2 DEF RollCall
    <3>4. Apart(a.inList, a.outList, a.maybeList, a.waitList)
      BY <2>0, <2>1, <3>2, <3>3 DEF Apart
    <3>5. Capped(a) => Len(a.inList) <= a.inListLimit
      BY <2>0, <2>5, <2>f, <3>2, <3>3, SoundFields DEF Full, Capped
    <3>6. a.waitList # << >> => Capped(a)
      BY <2>w, <3>3, SoundFields DEF Capped
    <3>7. NoIdleSlot(r) => a.waitList = << >>
      BY <2>w, <2>5, <2>f, <3>3 DEF NoIdleSlot
    <3>8. AlmostFull(r) /\ a.waitList # << >> => Full(a)
      BY <2>0, <2>w, <3>2, <3>3, <3>6 DEF AlmostFull, Full, Capped
    <3> QED  BY <3>3, <3>4, <3>5, <3>6, <3>7, <3>8, SoundIntro DEF NoIdleSlot, a
  <2> QED  BY <2>4, <2>5
<1> QED  BY <1>1, <1>2

\* Leaving the line frees at most one slot.
LEMMA LeaveLineSound ==
  ASSUME NEW r, Sound(r), NEW u \in People
  PROVE  LET l == LeaveLine(r, u)
         IN  /\ Sound(l) /\ l.outList = r.outList /\ l.maybeList = r.maybeList
             /\ u \notin ToSet(l.inList) /\ u \notin ToSet(l.waitList)
             /\ NoIdleSlot(r) \/ (AlmostFull(r) /\ u \notin Listed(r)) => AlmostFull(l)
<1> DEFINE i == RemoveFirst(r.inList, u)
           w == IF Capped(r) THEN RemoveFirst(r.waitList, u) ELSE r.waitList
           l == LeaveLine(r, u)
<1>0. r \in RollCall /\ Apart(r.inList, r.outList, r.maybeList, r.waitList)
  BY SoundFields
<1>1. /\ i \in Seq(People) /\ IsInjective(i) /\ ToSet(i) = ToSet(r.inList) \ {u}
      /\ Len(i) = IF u \in ToSet(r.inList) THEN Len(r.inList) - 1 ELSE Len(r.inList)
  BY <1>0, SoundFields, RemoveFirstFacts DEF Apart
<1>2. /\ w \in Seq(People) /\ IsInjective(w) /\ ToSet(w) = ToSet(r.waitList) \ {u}
      /\ r.waitList = << >> => w = << >>
  <2>1. CASE Capped(r)
    BY <1>0, <2>1, SoundFields, RemoveFirstFacts, EmptyQueue DEF Apart
  <2>2. CASE ~Capped(r)
    BY <1>0, <2>2, SoundFields, EmptyQueue DEF Apart
  <2> QED  BY <2>1, <2>2
<1>3. l = [r EXCEPT !.inList = i, !.waitList = w]
  BY <1>0 DEF LeaveLine, RollCall
<1> HIDE DEF i, w, l
<1>4. /\ l \in RollCall /\ l.inList = i /\ l.outList = r.outList
      /\ l.maybeList = r.maybeList /\ l.waitList = w
      /\ l.inListLimit = r.inListLimit
  BY <1>0, <1>1, <1>2, <1>3 DEF RollCall
<1>5. Apart(l.inList, l.outList, l.maybeList, l.waitList)
  BY <1>0, <1>1, <1>2, <1>4 DEF Apart
<1>6. Capped(l) => Len(l.inList) <= l.inListLimit
  BY <1>1, <1>4, SoundFields DEF Capped
<1>7. l.waitList # << >> => Capped(l)
  BY <1>2, <1>4, SoundFields DEF Capped
<1>8. NoIdleSlot(r) => AlmostFull(l)
  <2>1. SUFFICES ASSUME NoIdleSlot(r), l.waitList # << >>
                 PROVE  Len(i) + 1 >= r.inListLimit
    BY <1>4 DEF AlmostFull
  <2>2. Capped(r) /\ Len(r.inList) >= r.inListLimit /\ Len(r.inList) \in Nat
        /\ r.inListLimit \in Nat
    BY <2>1, <1>2, <1>4, SoundFields DEF NoIdleSlot, Full
  <2> QED  BY <2>2, <1>1
<1>9. AlmostFull(r) /\ u \notin Listed(r) => AlmostFull(l)
  <2>1. u \notin Listed(r) => Len(i) = Len(r.inList)
    BY <1>1 DEF Listed, In
  <2> QED  BY <2>1, <1>2, <1>4 DEF AlmostFull
<1> QED  BY <1>1, <1>2, <1>4, <1>5, <1>6, <1>7, <1>8, <1>9, SoundIntro DEF l

\* Promoting the head of the waitlist fills the one slot that was free.
LEMMA PromoteHeadSound ==
  ASSUME NEW r, Sound(r)
  PROVE  LET p == PromoteHead(r)
         IN  /\ Sound(p) /\ p.outList = r.outList /\ p.maybeList = r.maybeList
             /\ ToSet(p.inList) \cup ToSet(p.waitList)
                  = ToSet(r.inList) \cup ToSet(r.waitList)
             /\ AlmostFull(r) => NoIdleSlot(p)
<1> DEFINE p == PromoteHead(r)
           h == Head(r.waitList)
           i == Append(r.inList, h)
           w == Tail(r.waitList)
<1>0. /\ r \in RollCall /\ Apart(r.inList, r.outList, r.maybeList, r.waitList)
      /\ r.inList \in Seq(People) /\ r.waitList \in Seq(People)
      /\ Len(r.inList) \in Nat
  BY SoundFields
<1>1. CASE ~(Room(r) /\ r.waitList # << >>)
  <2>1. p = r
    BY <1>1 DEF PromoteHead
  <2>2. NoIdleSlot(r)
    <3>1. SUFFICES ASSUME r.waitList # << >>  PROVE Full(r)
      BY DEF NoIdleSlot
    <3>2. Capped(r) /\ r.inListLimit \in Nat
      BY <3>1, SoundFields
    <3> QED  BY <3>1, <3>2, <1>0, <1>1 DEF Room, Full
  <2> QED  BY <2>1, <2>2
<1>2. CASE Room(r) /\ r.waitList # << >>
  <2>1. /\ h \in ToSet(r.waitList) /\ w \in Seq(People) /\ IsInjective(w)
        /\ ToSet(w) = ToSet(r.waitList) \ {h}
    BY <1>0, <1>2, HeadTailFacts DEF Apart
  <2>2. h \in People /\ h \notin ToSet(r.inList)
    BY <1>0, <2>1, ToSetElements DEF Apart
  <2>3. /\ i \in Seq(People) /\ IsInjective(i) /\ ToSet(i) = ToSet(r.inList) \cup {h}
        /\ Len(i) = Len(r.inList) + 1
    BY <1>0, <2>2, AppendFacts DEF Apart
  <2>4. p = [r EXCEPT !.inList = i, !.waitList = w]
    BY <1>0, <1>2 DEF PromoteHead, RollCall
  <2> HIDE DEF h, i, w, p
  <2>5. /\ p \in RollCall /\ p.inList = i /\ p.outList = r.outList
        /\ p.maybeList = r.maybeList /\ p.waitList = w
        /\ p.inListLimit = r.inListLimit
    BY <1>0, <2>1, <2>3, <2>4 DEF RollCall
  <2>6. Apart(p.inList, p.outList, p.maybeList, p.waitList)
    BY <1>0, <2>1, <2>3, <2>5 DEF Apart
  <2>7. Capped(p) /\ p.inListLimit \in Nat /\ Len(p.inList) <= p.inListLimit
    BY <1>0, <1>2, <2>3, <2>5, SoundFields DEF Room, Capped
  <2>8. AlmostFull(r) => Full(p)
    BY <1>0, <1>2, <2>3, <2>5, <2>7 DEF AlmostFull, Full, Capped
  <2>9. ToSet(p.inList) \cup ToSet(p.waitList) = ToSet(r.inList) \cup ToSet(r.waitList)
    BY <2>1, <2>3, <2>5
  <2> QED  BY <2>5, <2>6, <2>7, <2>8, <2>9, SoundIntro DEF NoIdleSlot, p
<1> QED  BY <1>1, <1>2

\* addOut keeps a rollcall sound and passes on the slot it frees.
LEMMA AddOutSound ==
  ASSUME NEW r, Sound(r), NEW u \in People
  PROVE  /\ Sound(AddOut(r, u))
         /\ NoIdleSlot(r) \/ (AlmostFull(r) /\ u \notin Listed(r))
              => NoIdleSlot(AddOut(r, u))
<1>1. CASE u \in ToSet(r.outList)
  BY <1>1 DEF AddOut, Listed
<1>2. CASE u \notin ToSet(r.outList)
  <2> DEFINE l == LeaveLine(r, u)
             m == RemoveFirst(r.maybeList, u)
             left == [l EXCEPT !.maybeList = m]
             p == PromoteHead(left)
             o == Append(r.outList, u)
             a == AddOut(r, u)
  <2>1. /\ Sound(l) /\ l.outList = r.outList /\ l.maybeList = r.maybeList
        /\ u \notin ToSet(l.inList) /\ u \notin ToSet(l.waitList)
        /\ NoIdleSlot(r) \/ (AlmostFull(r) /\ u \notin Listed(r)) => AlmostFull(l)
    BY LeaveLineSound
  <2>2. a = [p EXCEPT !.outList = Append(p.outList, u)]
    BY <1>2, <2>1 DEF AddOut
  <2> HIDE DEF l, a
  <2>3. /\ m \in Seq(People) /\ IsInjective(m) /\ ToSet(m) = ToSet(r.maybeList) \ {u}
    BY SoundFields, RemoveFirstFacts DEF Apart
  <2> HIDE DEF m
  <2>4. /\ left \in RollCall /\ left.inList = l.inList /\ left.outList = r.outList
        /\ left.maybeList = m /\ left.waitList = l.waitList
        /\ left.inListLimit = l.inListLimit
    <3>1. l \in RollCall
      BY <2>1, SoundFields
    <3> QED  BY <2>1, <2>3, <3>1 DEF RollCall
  <2> HIDE DEF left
  <2>5. Sound(left)
    <3>1. Apart(left.inList, left.outList, left.maybeList, left.waitList)
      BY <2>1, <2>3, <2>4, SoundFields DEF Apart
    <3>2. /\ Capped(left) => Len(left.inList) <= left.inListLimit
          /\ left.waitList # << >> => Capped(left)
      BY <2>1, <2>4, SoundFields DEF Capped
    <3> QED  BY <2>4, <3>1, <3>2, SoundIntro
  <2>6. /\ Sound(p) /\ p.outList = r.outList /\ p.maybeList = m
        /\ ToSet(p.inList) \cup ToSet(p.waitList)
             = ToSet(left.inList) \cup ToSet(left.waitList)
        /\ AlmostFull(left) => NoIdleSlot(p)
    BY <2>4, <2>5, PromoteHeadSound
  <2> HIDE DEF p
  <2>7. /\ o \in Seq(People) /\ IsInjective(o) /\ ToSet(o) = ToSet(r.outList) \cup {u}
    BY <1>2, SoundFields, AppendFacts DEF Apart
  <2>8. /\ a \in RollCall /\ a.inList = p.inList /\ a.outList = o
        /\ a.maybeList = m /\ a.waitList = p.waitList
        /\ a.inListLimit = p.inListLimit
    <3>1. p \in RollCall
      BY <2>6, SoundFields
    <3>2. a = [p EXCEPT !.outList = o]
      BY <2>2, <2>6
    <3> HIDE DEF o
    <3> QED  BY <2>6, <2>7, <3>1, <3>2 DEF RollCall
  <2>9. Apart(a.inList, a.outList, a.maybeList, a.waitList)
    <3>1. u \notin ToSet(p.inList) /\ u \notin ToSet(p.waitList) /\ u \notin ToSet(m)
      BY <2>1, <2>3, <2>4, <2>6
    <3>2. Apart(p.inList, r.outList, m, p.waitList)
      BY <2>6, SoundFields
    <3> QED  BY <2>7, <2>8, <3>1, <3>2 DEF Apart
  <2>10. /\ Capped(a) => Len(a.inList) <= a.inListLimit
         /\ a.waitList # << >> => Capped(a)
    BY <2>6, <2>8, SoundFields DEF Capped
  <2>11. AlmostFull(l) => NoIdleSlot(a)
    BY <2>4, <2>6, <2>8 DEF AlmostFull, NoIdleSlot, Full, Capped
  <2> QED  BY <2>1, <2>8, <2>9, <2>10, <2>11, SoundIntro DEF a
<1> QED  BY <1>1, <1>2
\* addMaybe keeps a rollcall sound and passes on the slot it frees.
LEMMA AddMaybeSound ==
  ASSUME NEW r, Sound(r), NEW u \in People
  PROVE  /\ Sound(AddMaybe(r, u))
         /\ NoIdleSlot(r) \/ (AlmostFull(r) /\ u \notin Listed(r))
              => NoIdleSlot(AddMaybe(r, u))
<1>1. CASE u \in ToSet(r.maybeList)
  BY <1>1 DEF AddMaybe, Listed
<1>2. CASE u \notin ToSet(r.maybeList)
  <2> DEFINE l == LeaveLine(r, u)
             o == RemoveFirst(r.outList, u)
             left == [l EXCEPT !.outList = o]
             p == PromoteHead(left)
             m == Append(r.maybeList, u)
             a == AddMaybe(r, u)
  <2>1. /\ Sound(l) /\ l.maybeList = r.maybeList /\ l.outList = r.outList
        /\ u \notin ToSet(l.inList) /\ u \notin ToSet(l.waitList)
        /\ NoIdleSlot(r) \/ (AlmostFull(r) /\ u \notin Listed(r)) => AlmostFull(l)
    BY LeaveLineSound
  <2>2. a = [p EXCEPT !.maybeList = Append(p.maybeList, u)]
    BY <1>2, <2>1 DEF AddMaybe
  <2> HIDE DEF l, a
  <2>3. /\ o \in Seq(People) /\ IsInjective(o) /\ ToSet(o) = ToSet(r.outList) \ {u}
    BY SoundFields, RemoveFirstFacts DEF Apart
  <2> HIDE DEF o
  <2>4. /\ left \in RollCall /\ left.inList = l.inList /\ left.maybeList = r.maybeList
        /\ left.outList = o /\ left.waitList = l.waitList
        /\ left.inListLimit = l.inListLimit
    <3>1. l \in RollCall
      BY <2>1, SoundFields
    <3> QED  BY <2>1, <2>3, <3>1 DEF RollCall
  <2> HIDE DEF left
  <2>5. Sound(left)
    <3>1. Apart(left.inList, left.outList, left.maybeList, left.waitList)
      BY <2>1, <2>3, <2>4, SoundFields DEF Apart
    <3>2. /\ Capped(left) => Len(left.inList) <= left.inListLimit
          /\ left.waitList # << >> => Capped(left)
      BY <2>1, <2>4, SoundFields DEF Capped
    <3> QED  BY <2>4, <3>1, <3>2, SoundIntro
  <2>6. /\ Sound(p) /\ p.maybeList = r.maybeList /\ p.outList = o
        /\ ToSet(p.inList) \cup ToSet(p.waitList)
             = ToSet(left.inList) \cup ToSet(left.waitList)
        /\ AlmostFull(left) => NoIdleSlot(p)
    BY <2>4, <2>5, PromoteHeadSound
  <2> HIDE DEF p
  <2>7. /\ m \in Seq(People) /\ IsInjective(m) /\ ToSet(m) = ToSet(r.maybeList) \cup {u}
    BY <1>2, SoundFields, AppendFacts DEF Apart
  <2>8. /\ a \in RollCall /\ a.inList = p.inList /\ a.maybeList = m
        /\ a.outList = o /\ a.waitList = p.waitList
        /\ a.inListLimit = p.inListLimit
    <3>1. p \in RollCall
      BY <2>6, SoundFields
    <3>2. a = [p EXCEPT !.maybeList = m]
      BY <2>2, <2>6
    <3> HIDE DEF m
    <3> QED  BY <2>6, <2>7, <3>1, <3>2 DEF RollCall
  <2>9. Apart(a.inList, a.outList, a.maybeList, a.waitList)
    <3>1. u \notin ToSet(p.inList) /\ u \notin ToSet(p.waitList) /\ u \notin ToSet(o)
      BY <2>1, <2>3, <2>4, <2>6
    <3>2. Apart(p.inList, o, r.maybeList, p.waitList)
      BY <2>6, SoundFields
    <3> QED  BY <2>7, <2>8, <3>1, <3>2 DEF Apart
  <2>10. /\ Capped(a) => Len(a.inList) <= a.inListLimit
         /\ a.waitList # << >> => Capped(a)
    BY <2>6, <2>8, SoundFields DEF Capped
  <2>11. AlmostFull(l) => NoIdleSlot(a)
    BY <2>4, <2>6, <2>8 DEF AlmostFull, NoIdleSlot, Full, Capped
  <2> QED  BY <2>1, <2>8, <2>9, <2>10, <2>11, SoundIntro DEF a
<1> QED  BY <1>1, <1>2

\* Filling the free slots from the waitlist fills all of them, or empties it.
LEMMA FillSound ==
  ASSUME NEW r, Sound(r)
  PROVE  Sound(FillWaitlistSlots(r)) /\ NoIdleSlot(FillWaitlistSlots(r))
<1>0. /\ r \in RollCall /\ Apart(r.inList, r.outList, r.maybeList, r.waitList)
      /\ r.inList \in Seq(People) /\ r.waitList \in Seq(People)
      /\ Len(r.inList) \in Nat /\ Len(r.waitList) \in Nat
  BY SoundFields
<1>1. CASE ~Room(r)
  <2>1. NoIdleSlot(r)
    BY <1>0, <1>1, SoundFields DEF NoIdleSlot, Room, Full
  <2> QED  BY <1>1, <2>1 DEF FillWaitlistSlots
<1>2. CASE Room(r)
  <2> DEFINE k == r.inListLimit - Len(r.inList)
             n == IF k < Len(r.waitList) THEN k ELSE Len(r.waitList)
             x == SubSeq(r.waitList, 1, n)
             w == SubSeq(r.waitList, n + 1, Len(r.waitList))
             i == r.inList \o x
             f == FillWaitlistSlots(r)
  <2>1. Capped(r) /\ r.inListLimit \in Nat /\ Len(r.inList) < r.inListLimit
    BY <1>2, SoundFields DEF Room
  <2>2. f = [r EXCEPT !.inList = i, !.waitList = w]
    BY <1>0, <1>2 DEF FillWaitlistSlots, PromoteSlots, RollCall
  <2>3. n \in 0..Len(r.waitList) /\ Len(r.inList) + n <= r.inListLimit
        /\ (n < Len(r.waitList) => Len(r.inList) + n = r.inListLimit)
    BY <1>0, <2>1
  <2> HIDE DEF k, n, f
  <2>4. /\ x \in Seq(People) /\ w \in Seq(People) /\ IsInjective(x) /\ IsInjective(w)
        /\ ToSet(x) \cap ToSet(w) = {} /\ ToSet(x) \cup ToSet(w) = ToSet(r.waitList)
        /\ Len(x) = n /\ Len(w) = Len(r.waitList) - n
    <3>1. IsInjective(r.waitList)
      BY <1>0 DEF Apart
    <3>2. r.waitList \in Seq(People) /\ n \in 0..Len(r.waitList)
      BY <1>0, <2>3
    <3> HIDE DEF i
    <3>3. /\ x \in Seq(People) /\ w \in Seq(People)
          /\ IsInjective(x) /\ IsInjective(w)
      BY <3>1, <3>2, SplitFacts
    <3>4. ToSet(x) \cap ToSet(w) = {} /\ ToSet(x) \cup ToSet(w) = ToSet(r.waitList)
      BY <3>1, <3>2, SplitFacts
    <3>5. Len(x) = n /\ Len(w) = Len(r.waitList) - n
      BY <3>1, <3>2, SplitFacts
    <3> QED  BY <3>3, <3>4, <3>5
  <2> HIDE DEF x, w
  <2>5. /\ i \in Seq(People) /\ IsInjective(i)
        /\ ToSet(i) = ToSet(r.inList) \cup ToSet(x)
        /\ Len(i) = Len(r.inList) + n
    <3>1. ToSet(r.inList) \cap ToSet(x) = {}
      BY <1>0, <2>4 DEF Apart
    <3>2. IsInjective(r.inList)
      BY <1>0 DEF Apart
    <3>3. /\ i \in Seq(People) /\ IsInjective(i)
          /\ ToSet(i) = ToSet(r.inList) \cup ToSet(x)
          /\ Len(i) = Len(r.inList) + Len(x)
      <4>1. r.inList \in Seq(People) /\ x \in Seq(People) /\ IsInjective(x)
        BY <1>0, <2>4
      <4>2. i \in Seq(People) /\ IsInjective(i)
        BY <4>1, <3>1, <3>2, ConcatFacts, ZenonT(60)
      <4>3. ToSet(i) = ToSet(r.inList) \cup ToSet(x)
        BY <4>1, <3>1, <3>2, ConcatFacts, ZenonT(60)
      <4>4. Len(i) = Len(r.inList) + Len(x)
        BY <4>1, <3>1, <3>2, ConcatFacts, ZenonT(60)
      <4> QED  BY <4>2, <4>3, <4>4
    <3> QED  BY <2>4, <3>3
  <2> HIDE DEF i
  <2>6. /\ f \in RollCall /\ f.inList = i /\ f.outList = r.outList
        /\ f.maybeList = r.maybeList /\ f.waitList = w
        /\ f.inListLimit = r.inListLimit
    BY <1>0, <2>2, <2>4, <2>5 DEF RollCall
  <2>7. Apart(f.inList, f.outList, f.maybeList, f.waitList)
    BY <1>0, <2>4, <2>5, <2>6 DEF Apart
  <2>8. Capped(f) /\ Len(f.inList) <= f.inListLimit
    BY <2>1, <2>3, <2>5, <2>6 DEF Capped
  <2>9. f.waitList # << >> => Full(f)
    <3>1. SUFFICES ASSUME w # << >>  PROVE n < Len(r.waitList)
      BY <2>1, <2>3, <2>5, <2>6, <2>8 DEF Full
    <3>2. Len(w) # 0
      BY <2>4, <3>1, EmptySeq
    <3> QED  BY <1>0, <2>3, <2>4, <3>2
  <2> QED  BY <2>6, <2>7, <2>8, <2>9, SoundIntro DEF NoIdleSlot, f
<1> QED  BY <1>1, <1>2

\* Moving the cap re-cuts the line: clearing it seats everybody, lowering it
\* demotes the tail, raising it promotes.
LEMMA SetWaitLimitSound ==
  ASSUME NEW r, Sound(r), NEW n \in Limits
  PROVE  Sound(SetWaitLimit(r, n)) /\ NoIdleSlot(SetWaitLimit(r, n))
<1> DEFINE a == SetWaitLimit(r, n)
           moved == [r EXCEPT !.inListLimit = n]
<1>0. /\ r \in RollCall /\ Apart(r.inList, r.outList, r.maybeList, r.waitList)
      /\ r.inList \in Seq(People) /\ r.waitList \in Seq(People)
      /\ Len(r.inList) \in Nat /\ Len(r.waitList) \in Nat
      /\ n \in Nat /\ n # NoLimit
  BY SoundFields, LimitAssumption
<1>m. /\ moved \in RollCall /\ moved.inList = r.inList /\ moved.outList = r.outList
      /\ moved.maybeList = r.maybeList /\ moved.waitList = r.waitList
      /\ moved.inListLimit = n
  BY <1>0 DEF RollCall
<1>1. CASE n = 0
  <2> DEFINE i == r.inList \o r.waitList
  <2>1. a = [r EXCEPT !.inListLimit = NoLimit, !.inList = i, !.waitList = << >>]
    BY <1>0, <1>1 DEF SetWaitLimit, RollCall
  <2>2. /\ i \in Seq(People) /\ IsInjective(i)
        /\ ToSet(i) = ToSet(r.inList) \cup ToSet(r.waitList)
    BY <1>0, ConcatFacts DEF Apart
  <2> HIDE DEF i, a
  <2>3. /\ a \in RollCall /\ a.inList = i /\ a.outList = r.outList
        /\ a.maybeList = r.maybeList /\ a.waitList = << >>
        /\ a.inListLimit = NoLimit
    <3>1. << >> \in Seq(People)
      BY EmptySeq
    <3> HIDE DEF moved
    <3> QED  BY <1>0, <2>1, <2>2, <3>1 DEF RollCall
  <2>4. Apart(a.inList, a.outList, a.maybeList, a.waitList)
    <3>1. IsInjective(<< >>) /\ ToSet(<< >>) = {}
      BY EmptyQueue DEF IsInjective
    <3> QED  BY <1>0, <2>2, <2>3, <3>1 DEF Apart
  <2> QED  BY <2>3, <2>4, SoundIntro DEF NoIdleSlot, Capped, a
<1>2. CASE n # 0 /\ Len(r.inList) > n
  <2> DEFINE i == SubSeq(r.inList, 1, n)
             x == SubSeq(r.inList, n + 1, Len(r.inList))
             w == x \o r.waitList
  <2>1. a = [moved EXCEPT !.inList = i, !.waitList = w]
    BY <1>0, <1>2, <1>m DEF SetWaitLimit, DemoteExcess, RollCall
  <2>2. /\ i \in Seq(People) /\ x \in Seq(People) /\ IsInjective(i) /\ IsInjective(x)
        /\ ToSet(i) \cap ToSet(x) = {} /\ ToSet(i) \cup ToSet(x) = ToSet(r.inList)
        /\ Len(i) = n
    <3>1. n \in 0..Len(r.inList)
      BY <1>0, <1>2
    <3> QED  BY <1>0, <3>1, SplitFacts DEF Apart
  <2> HIDE DEF i, x
  <2>3. /\ w \in Seq(People) /\ IsInjective(w)
        /\ ToSet(w) = ToSet(x) \cup ToSet(r.waitList)
    <3>1. ToSet(x) \cap ToSet(r.waitList) = {}
      BY <1>0, <2>2 DEF Apart
    <3> QED  BY <1>0, <2>2, <3>1, ConcatFacts DEF Apart
  <2> HIDE DEF w, a, moved
  <2>4. /\ a \in RollCall /\ a.inList = i /\ a.outList = r.outList
        /\ a.maybeList = r.maybeList /\ a.waitList = w
        /\ a.inListLimit = n
    BY <1>m, <2>1, <2>2, <2>3 DEF RollCall
  <2>5. Apart(a.inList, a.outList, a.maybeList, a.waitList)
    BY <1>0, <2>2, <2>3, <2>4 DEF Apart
  <2>6. Capped(a) /\ Len(a.inList) <= a.inListLimit /\ Full(a)
    BY <1>0, <2>2, <2>4 DEF Capped, Full
  <2> QED  BY <2>4, <2>5, <2>6, SoundIntro DEF NoIdleSlot, a
<1>3. CASE n # 0 /\ ~(Len(r.inList) > n)
  <2>1. a = FillWaitlistSlots(moved)
    BY <1>3 DEF SetWaitLimit
  <2>2. Sound(moved)
    <3>1. Capped(moved) /\ Len(moved.inList) <= moved.inListLimit
      BY <1>0, <1>3, <1>m DEF Capped
    <3>2. Apart(moved.inList, moved.outList, moved.maybeList, moved.waitList)
      BY <1>0, <1>m
    <3> QED  BY <1>m, <3>1, <3>2, SoundIntro
  <2> QED  BY <2>1, <2>2, FillSound
<1> QED  BY <1>1, <1>2, <1>3

\* Deleting a row frees at most one slot and takes the person off every list.
LEMMA WithoutSound ==
  ASSUME NEW r, Sound(r), NEW u \in People
  PROVE  LET d == Without(r, u)
         IN  /\ Sound(d) /\ u \notin Listed(d)
             /\ NoIdleSlot(r) => AlmostFull(d)
             /\ ~Full(r) /\ NoIdleSlot(r) => d.waitList = << >>
<1> DEFINE i == RemoveFirst(r.inList, u)
           o == RemoveFirst(r.outList, u)
           m == RemoveFirst(r.maybeList, u)
           w == RemoveFirst(r.waitList, u)
           y == [g \in Guests |-> IF g = u THEN NoOwner ELSE r.proxy_owners[g]]
           d == Without(r, u)
<1>0. r \in RollCall /\ Apart(r.inList, r.outList, r.maybeList, r.waitList)
  BY SoundFields
<1>1. /\ i \in Seq(People) /\ IsInjective(i) /\ ToSet(i) = ToSet(r.inList) \ {u}
      /\ o \in Seq(People) /\ IsInjective(o) /\ ToSet(o) = ToSet(r.outList) \ {u}
      /\ m \in Seq(People) /\ IsInjective(m) /\ ToSet(m) = ToSet(r.maybeList) \ {u}
      /\ w \in Seq(People) /\ IsInjective(w) /\ ToSet(w) = ToSet(r.waitList) \ {u}
      /\ Len(i) = IF u \in ToSet(r.inList) THEN Len(r.inList) - 1 ELSE Len(r.inList)
  BY <1>0, SoundFields, RemoveFirstFacts DEF Apart
<1>2. r.waitList = << >> => w = << >>
  BY EmptyQueue
<1>3. y \in [Guests -> Owners]
  BY <1>0 DEF RollCall, Owners
<1>4. d = [r EXCEPT !.proxy_owners = y, !.inList = i, !.outList = o,
                    !.maybeList = m, !.waitList = w]
  BY <1>0 DEF Without, SetOwner, RollCall
<1> HIDE DEF i, o, m, w, y, d
<1>5. /\ d \in RollCall /\ d.inList = i /\ d.outList = o /\ d.maybeList = m
      /\ d.waitList = w /\ d.inListLimit = r.inListLimit
  BY <1>0, <1>1, <1>3, <1>4 DEF RollCall
<1>6. Apart(d.inList, d.outList, d.maybeList, d.waitList)
  BY <1>0, <1>1, <1>5 DEF Apart
<1>7. /\ Capped(d) => Len(d.inList) <= d.inListLimit
      /\ d.waitList # << >> => Capped(d)
  BY <1>1, <1>2, <1>5, SoundFields DEF Capped
<1>8. NoIdleSlot(r) => AlmostFull(d)
  <2>1. SUFFICES ASSUME NoIdleSlot(r), w # << >>
                 PROVE  Len(i) + 1 >= r.inListLimit
    BY <1>5 DEF AlmostFull
  <2>2. /\ Capped(r) /\ Len(r.inList) >= r.inListLimit
        /\ Len(r.inList) \in Nat /\ r.inListLimit \in Nat
    BY <2>1, <1>2, SoundFields DEF NoIdleSlot, Full
  <2> QED  BY <2>2, <1>1
<1>9. ~Full(r) /\ NoIdleSlot(r) => w = << >>
  BY <1>2 DEF NoIdleSlot
<1>10. u \notin Listed(d)
  BY <1>1, <1>5 DEF Listed, In, Waiting
<1> QED  BY <1>5, <1>6, <1>7, <1>8, <1>9, <1>10, SoundIntro DEF d

\* Reading the lists back changes at most the order of MAYBE.
LEMMA ReloadSound ==
  ASSUME NEW r, Sound(r), NEW q \in Reloads(r)
  PROVE  /\ Sound(q) /\ Listed(q) \subseteq Listed(r)
         /\ NoIdleSlot(r) => NoIdleSlot(q)
         /\ AlmostFull(r) => AlmostFull(q)
         /\ q.waitList = r.waitList
<1>0. r \in RollCall /\ Apart(r.inList, r.outList, r.maybeList, r.waitList)
      /\ r.maybeList \in Seq(People)
  BY SoundFields
<1>1. PICK m \in SetToSeqs(ToSet(r.maybeList)) : q = [r EXCEPT !.maybeList = m]
  BY DEF Reloads
<1>2. m \in Seq(People) /\ IsInjective(m) /\ ToSet(m) \subseteq ToSet(r.maybeList)
  BY <1>0, ListingFacts
<1>3. /\ q \in RollCall /\ q.inList = r.inList /\ q.outList = r.outList
      /\ q.maybeList = m /\ q.waitList = r.waitList
      /\ q.inListLimit = r.inListLimit
  BY <1>0, <1>1, <1>2 DEF RollCall
<1>4. Apart(q.inList, q.outList, q.maybeList, q.waitList)
  BY <1>0, <1>2, <1>3 DEF Apart
<1>5. /\ Capped(q) => Len(q.inList) <= q.inListLimit
      /\ q.waitList # << >> => Capped(q)
  BY <1>3, SoundFields DEF Capped
<1>6. /\ Listed(q) \subseteq Listed(r)
      /\ NoIdleSlot(r) => NoIdleSlot(q)
      /\ AlmostFull(r) => AlmostFull(q)
  BY <1>2, <1>3 DEF Listed, In, Waiting, NoIdleSlot, AlmostFull, Full, Capped
<1> QED  BY <1>3, <1>4, <1>5, <1>6, SoundIntro

\* Recording a guest's owner touches no list.
LEMMA SetOwnerSound ==
  ASSUME NEW r, Sound(r), NEW u, NEW owner \in Owners
  PROVE  LET s == SetOwner(r, u, owner)
         IN  /\ Sound(s) /\ Listed(s) = Listed(r)
             /\ NoIdleSlot(r) => NoIdleSlot(s)
             /\ AlmostFull(r) => AlmostFull(s)
             /\ s.waitList = r.waitList
<1> DEFINE y == [g \in Guests |-> IF g = u THEN owner ELSE r.proxy_owners[g]]
           s == SetOwner(r, u, owner)
<1>0. r \in RollCall /\ Apart(r.inList, r.outList, r.maybeList, r.waitList)
  BY SoundFields
<1>1. y \in [Guests -> Owners] /\ s = [r EXCEPT !.proxy_owners = y]
  BY <1>0 DEF RollCall, SetOwner
<1> HIDE DEF y, s
<1>2. /\ s \in RollCall /\ s.inList = r.inList /\ s.outList = r.outList
      /\ s.maybeList = r.maybeList /\ s.waitList = r.waitList
      /\ s.inListLimit = r.inListLimit
  BY <1>0, <1>1 DEF RollCall
<1>3. Sound(s)
  BY <1>0, <1>2, SoundFields, SoundIntro DEF Capped
<1> QED  BY <1>2, <1>3 DEF Listed, In, Waiting, NoIdleSlot, AlmostFull, Full, Capped, s

\* The three answers together.
LEMMA AddSound ==
  ASSUME NEW r, Sound(r), NEW u \in People, NEW answer \in Answers
  PROVE  /\ Sound(Add(r, u, answer))
         /\ NoIdleSlot(r) \/ (AlmostFull(r) /\ u \notin Listed(r))
              => NoIdleSlot(Add(r, u, answer))
<1>1. CASE answer = "in"
  BY <1>1, AddInSound DEF Add
<1>2. CASE answer = "out"
  BY <1>2, AddOutSound DEF Add
<1>3. CASE answer = "maybe"
  BY <1>3, AddMaybeSound DEF Add
<1> QED  BY <1>1, <1>2, <1>3 DEF Answers

-----------------------------------------------------------------------------
\* A fresh rollcall is sound.
LEMMA InitInv == Init => Inv
<1> SUFFICES ASSUME NEW limit \in Limits \cup {NoLimit}, rc = NewRollCall(limit)
             PROVE  Inv
  BY DEF Init
<1>1. rc \in RollCall
  BY DEF NewRollCall, RollCall, Owners
<1>2. /\ rc.inList = << >> /\ rc.outList = << >> /\ rc.maybeList = << >>
      /\ rc.waitList = << >> /\ rc.inListLimit = limit
  BY DEF NewRollCall
<1>3. IsInjective(<< >>) /\ ToSet(<< >>) = {}
  BY EmptyQueue DEF IsInjective
<1>4. Apart(rc.inList, rc.outList, rc.maybeList, rc.waitList)
  BY <1>2, <1>3 DEF Apart
<1>5. Capped(rc) => Len(rc.inList) <= rc.inListLimit
  <2>1. Capped(rc) => limit \in Nat
    BY <1>2, LimitAssumption DEF Capped
  <2>2. Len(rc.inList) = 0
    BY <1>2
  <2> QED  BY <1>2, <2>1, <2>2
<1> QED  BY <1>1, <1>2, <1>4, <1>5, SoundIntro DEF Inv, NoIdleSlot

\* Every operation preserves the invariant.
LEMMA NextInv == Inv /\ [Next]_rc => Inv'
<1> SUFFICES ASSUME Sound(rc), NoIdleSlot(rc), [Next]_rc
             PROVE  Sound(rc') /\ NoIdleSlot(rc')
  BY DEF Inv, Sound, NoIdleSlot, OnePlace, CapHeld, Capped, Full
<1> USE DEF People
<1>1. CASE \E m \in Members : VoteIn(m) \/ VoteOut(m) \/ VoteMaybe(m)
  BY <1>1, AddInSound, AddOutSound, AddMaybeSound DEF VoteIn, VoteOut, VoteMaybe
<1>2. CASE \E g \in Guests, o \in {Admin, Web} : GuestIn(g, o)
  <2>1. PICK g \in Guests, o \in {Admin, Web} : GuestIn(g, o)
    BY <1>2
  <2>2. o \in Owners
    BY DEF Owners
  <2>3. Sound(SetOwner(rc, g, o)) /\ NoIdleSlot(SetOwner(rc, g, o))
    BY <2>2, SetOwnerSound
  <2> QED  BY <2>1, <2>3, AddInSound DEF GuestIn
<1>3. CASE \E g \in Guests : GuestOut(g) \/ GuestMaybe(g)
  BY <1>3, AddOutSound, AddMaybeSound DEF GuestOut, GuestMaybe
<1>4. CASE \E n \in Limits : SetLimit(n)
  BY <1>4, SetWaitLimitSound DEF SetLimit
<1>5. CASE \E u \in People : DeleteUser(u)
  <2>0. PICK u \in People : DeleteUser(u)
    BY <1>5
  <2>1. PICK r \in Reloads(Without(rc, u)) : rc' = FillWaitlistSlots(r)
    BY <2>0 DEF DeleteUser
  <2>2. Sound(r)
    BY WithoutSound, ReloadSound
  <2> QED  BY <2>1, <2>2, FillSound
<1>6. CASE \E u \in People, a \in Answers : SetUserStatus(u, a)
  <2>0. PICK u \in People, a \in Answers : SetUserStatus(u, a)
    BY <1>6
  <2>1. PICK r \in Reloads(Without(rc, u)) :
          rc' = Add(SetOwner(r, u, OwnerOf(rc, u)), u, a)
    BY <2>0 DEF SetUserStatus
  <2>2. Sound(r) /\ AlmostFull(r) /\ u \notin Listed(r)
    BY WithoutSound, ReloadSound
  <2>3. OwnerOf(rc, u) \in Owners
    <3>1. rc \in RollCall
      BY DEF Sound
    <3> QED  BY <3>1 DEF OwnerOf, Owners, RollCall
  <2> DEFINE s == SetOwner(r, u, OwnerOf(rc, u))
  <2>4. Sound(s) /\ AlmostFull(s) /\ u \notin Listed(s)
    BY <2>2, <2>3, SetOwnerSound
  <2> HIDE DEF s
  <2> QED  BY <2>1, <2>4, AddSound DEF s
<1>7. CASE \E m \in Members, g \in Guests, a \in Answers : WebVote(m, g, a)
  <2>0. PICK m \in Members, g \in Guests, a \in Answers : WebVote(m, g, a)
    BY <1>7
  <2>1. PICK r \in Reloads(Without(rc, g)) :
          rc' = FillWaitlistSlots(Add(r, m, a))
    BY <2>0 DEF WebVote
  <2>2. Sound(r)
    BY WithoutSound, ReloadSound
  <2>3. Sound(Add(r, m, a))
    BY <2>2, AddSound
  <2> QED  BY <2>1, <2>3, FillSound
<1>8. CASE Restart
  BY <1>8, ReloadSound DEF Restart
<1>9. CASE UNCHANGED rc
  BY <1>9
<1> QED  BY <1>1, <1>2, <1>3, <1>4, <1>5, <1>6, <1>7, <1>8, <1>9 DEF Next

\* The inductive invariant holds of every behaviour.
THEOREM Invariance == Spec => []Inv
BY InitInv, NextInv, PTL DEF Spec

\* A rollcall is always four lists of people, a cap and its guests' owners.
THEOREM TypeCorrect == Spec => []TypeOK
<1>1. Inv => TypeOK
  BY DEF Inv, Sound, TypeOK
<1> QED  BY <1>1, Invariance, PTL

\* For any members, guests and caps: everybody is in one place, the cap is
\* held, and no slot is idle while somebody waits.
THEOREM ListsCorrect == Spec => []ListsOK
<1>1. Inv => ListsOK
  BY DEF Inv, Sound, ListsOK
<1> QED  BY <1>1, Invariance, PTL
-----------------------------------------------------------------------------
(***************************************************************************)
(* Who may come to wait, for any members, guests and caps: nobody who is   *)
(* IN is sent to the waitlist by anybody's vote, move or deletion, but     *)
(* only by a cap that came down; and IN and WAITING together implement a   *)
(* fair sign-up sheet (SignupLine): one line, never reordered.             *)
(***************************************************************************)

\* A promotion lengthens no queue.
LEMMA PromoteQueues ==
  ASSUME NEW r, Sound(r)
  PROVE  Waiting(PromoteHead(r)) \subseteq Waiting(r)
<1> DEFINE i == Append(r.inList, Head(r.waitList))
           w == Tail(r.waitList)
           p == PromoteHead(r)
<1>1. CASE ~(Room(r) /\ r.waitList # << >>)
  BY <1>1 DEF PromoteHead
<1>2. CASE Room(r) /\ r.waitList # << >>
  <2>1. ToSet(w) \subseteq ToSet(r.waitList)
    BY <1>2, SoundFields, HeadTailFacts DEF Apart
  <2>2. r \in RollCall /\ p = [r EXCEPT !.inList = i, !.waitList = w]
    BY <1>2, SoundFields DEF PromoteHead, RollCall
  <2> HIDE DEF i, w, p
  <2>3. p.waitList = w
    BY <2>2 DEF RollCall
  <2> QED  BY <2>1, <2>3 DEF Waiting, p
<1> QED  BY <1>1, <1>2

\* Somebody who leaves the line makes nobody wait.
LEMMA LeaveQueues ==
  ASSUME NEW r, Sound(r), NEW u \in People
  PROVE  Waiting(LeaveLine(r, u)) \subseteq Waiting(r)
<1> DEFINE i == RemoveFirst(r.inList, u)
           w == IF Capped(r) THEN RemoveFirst(r.waitList, u) ELSE r.waitList
           l == LeaveLine(r, u)
<1>1. ToSet(w) \subseteq ToSet(r.waitList)
  <2>1. ToSet(RemoveFirst(r.waitList, u)) \subseteq ToSet(r.waitList)
    BY SoundFields, RemoveFirstFacts DEF Apart
  <2> QED  BY <2>1
<1>2. r \in RollCall /\ l = [r EXCEPT !.inList = i, !.waitList = w]
  BY SoundFields DEF LeaveLine, RollCall
<1> HIDE DEF i, w, l
<1>3. l.waitList = w
  BY <1>2 DEF RollCall
<1> QED  BY <1>1, <1>3 DEF Waiting, l

\* A person with another list, off the line already, and the slot passed on.
LEMMA PassOnQueues ==
  ASSUME NEW r, Sound(r), NEW u \in People
  PROVE  /\ Waiting(AddOut(r, u)) \subseteq Waiting(r)
         /\ Waiting(AddMaybe(r, u)) \subseteq Waiting(r)
<1> DEFINE l == LeaveLine(r, u)
<1>1. Sound(l) /\ Waiting(l) \subseteq Waiting(r)
  BY LeaveLineSound, LeaveQueues
<1>2. ASSUME NEW q \in Seq(People), IsInjective(q), ToSet(q) \subseteq ToSet(l.maybeList)
      PROVE  /\ Sound([l EXCEPT !.maybeList = q])
             /\ [l EXCEPT !.maybeList = q].waitList = l.waitList
  <2> DEFINE x == [l EXCEPT !.maybeList = q]
  <2>1. l \in RollCall /\ Apart(l.inList, l.outList, l.maybeList, l.waitList)
    BY <1>1, SoundFields
  <2> HIDE DEF l
  <2>2. /\ x \in RollCall /\ x.inList = l.inList /\ x.outList = l.outList
        /\ x.maybeList = q /\ x.waitList = l.waitList /\ x.inListLimit = l.inListLimit
    BY <1>2, <2>1 DEF RollCall
  <2> HIDE DEF x
  <2>3. Apart(x.inList, x.outList, x.maybeList, x.waitList)
    BY <1>2, <2>1, <2>2 DEF Apart
  <2>4. Sound(x)
    BY <1>1, <2>2, <2>3, SoundFields, SoundIntro DEF Capped
  <2> QED  BY <2>2, <2>4 DEF x
<1>3. ASSUME NEW q \in Seq(People), IsInjective(q), ToSet(q) \subseteq ToSet(l.outList)
      PROVE  /\ Sound([l EXCEPT !.outList = q])
             /\ [l EXCEPT !.outList = q].waitList = l.waitList
  <2> DEFINE x == [l EXCEPT !.outList = q]
  <2>1. l \in RollCall /\ Apart(l.inList, l.outList, l.maybeList, l.waitList)
    BY <1>1, SoundFields
  <2> HIDE DEF l
  <2>2. /\ x \in RollCall /\ x.inList = l.inList /\ x.maybeList = l.maybeList
        /\ x.outList = q /\ x.waitList = l.waitList /\ x.inListLimit = l.inListLimit
    BY <1>3, <2>1 DEF RollCall
  <2> HIDE DEF x
  <2>3. Apart(x.inList, x.outList, x.maybeList, x.waitList)
    BY <1>3, <2>1, <2>2 DEF Apart
  <2>4. Sound(x)
    BY <1>1, <2>2, <2>3, SoundFields, SoundIntro DEF Capped
  <2> QED  BY <2>2, <2>4 DEF x
<1>4. Waiting(AddOut(r, u)) \subseteq Waiting(r)
  <2>1. CASE u \in ToSet(r.outList)
    BY <2>1 DEF AddOut
  <2>2. CASE u \notin ToSet(r.outList)
    <3> DEFINE q == RemoveFirst(l.maybeList, u)
               x == [l EXCEPT !.maybeList = q]
               p == PromoteHead(x)
    <3>1. q \in Seq(People) /\ IsInjective(q) /\ ToSet(q) \subseteq ToSet(l.maybeList)
      BY <1>1, SoundFields, RemoveFirstFacts DEF Apart
    <3>2. Sound(x) /\ Waiting(x) \subseteq Waiting(r)
      BY <1>1, <1>2, <3>1 DEF Waiting
    <3>3. Sound(p) /\ Waiting(p) \subseteq Waiting(r)
      BY <3>2, PromoteHeadSound, PromoteQueues
    <3>4. AddOut(r, u) = [p EXCEPT !.outList = Append(@, u)]
      BY <2>2 DEF AddOut
    <3> HIDE DEF p
    <3>5. p \in RollCall
      BY <3>3, SoundFields
    <3>6. AddOut(r, u).waitList = p.waitList
      BY <3>4, <3>5 DEF RollCall
    <3> QED  BY <3>3, <3>6 DEF Waiting
  <2> QED  BY <2>1, <2>2
<1>5. Waiting(AddMaybe(r, u)) \subseteq Waiting(r)
  <2>1. CASE u \in ToSet(r.maybeList)
    BY <2>1 DEF AddMaybe
  <2>2. CASE u \notin ToSet(r.maybeList)
    <3> DEFINE q == RemoveFirst(l.outList, u)
               x == [l EXCEPT !.outList = q]
               p == PromoteHead(x)
    <3>1. q \in Seq(People) /\ IsInjective(q) /\ ToSet(q) \subseteq ToSet(l.outList)
      BY <1>1, SoundFields, RemoveFirstFacts DEF Apart
    <3>2. Sound(x) /\ Waiting(x) \subseteq Waiting(r)
      BY <1>1, <1>3, <3>1 DEF Waiting
    <3>3. Sound(p) /\ Waiting(p) \subseteq Waiting(r)
      BY <3>2, PromoteHeadSound, PromoteQueues
    <3>4. AddMaybe(r, u) = [p EXCEPT !.maybeList = Append(@, u)]
      BY <2>2 DEF AddMaybe
    <3> HIDE DEF p
    <3>5. p \in RollCall
      BY <3>3, SoundFields
    <3>6. AddMaybe(r, u).waitList = p.waitList
      BY <3>4, <3>5 DEF RollCall
    <3> QED  BY <3>3, <3>6 DEF Waiting
  <2> QED  BY <2>1, <2>2
<1> QED  BY <1>4, <1>5

\* An answer makes at most its own voter wait, one who says IN and was not.
LEMMA AddQueues ==
  ASSUME NEW r, Sound(r), NEW u \in People, NEW answer \in Answers
  PROVE  \A v \in Waiting(Add(r, u, answer)) :
           v \in Waiting(r) \/ (v = u /\ answer = "in" /\ u \notin In(r))
<1>1. CASE answer = "in"
  <2> DEFINE o == RemoveFirst(r.outList, u)
             m == RemoveFirst(r.maybeList, u)
             w == RemoveFirst(r.waitList, u)
             left == [r EXCEPT !.outList = o, !.maybeList = m, !.waitList = w]
             a == AddIn(r, u)
  <2>1. CASE u \in In(r) \/ (Capped(r) /\ u \in Waiting(r))
    BY <1>1, <2>1 DEF Add, AddIn
  <2>2. CASE ~(u \in In(r) \/ (Capped(r) /\ u \in Waiting(r)))
    <3>1. r \in RollCall /\ w \in Seq(People) /\ IsInjective(w) /\ ToSet(w) = ToSet(r.waitList) \ {u}
      BY SoundFields, RemoveFirstFacts DEF Apart
    <3>2. a = IF Full(left) THEN [left EXCEPT !.waitList = Append(@, u)]
                            ELSE [left EXCEPT !.inList = Append(@, u)]
      BY <2>2 DEF AddIn
    <3> HIDE DEF o, m, w, a
    <3>3. a.waitList = Append(w, u) \/ a.waitList = w
      BY <3>1, <3>2 DEF RollCall
    <3>4. ToSet(Append(w, u)) = ToSet(w) \cup {u}
      BY <3>1, AppendFacts
    <3>5. \A v \in Waiting(a) : v \in Waiting(r) \/ v = u
      BY <3>1, <3>3, <3>4 DEF Waiting
    <3> QED  BY <1>1, <2>2, <3>5 DEF Add, a
  <2> QED  BY <2>1, <2>2
<1>2. CASE answer = "out"
  BY <1>2, PassOnQueues DEF Add
<1>3. CASE answer = "maybe"
  BY <1>3, PassOnQueues DEF Add
<1> QED  BY <1>1, <1>2, <1>3 DEF Answers

\* Filling the free slots shortens the queue.
LEMMA FillQueues ==
  ASSUME NEW r, Sound(r)
  PROVE  /\ Waiting(FillWaitlistSlots(r)) \subseteq Waiting(r)
         /\ FillWaitlistSlots(r).inListLimit = r.inListLimit
<1>0. /\ r \in RollCall /\ r.inList \in Seq(People) /\ r.waitList \in Seq(People)
      /\ Len(r.inList) \in Nat /\ Len(r.waitList) \in Nat /\ IsInjective(r.waitList)
  BY SoundFields DEF Apart
<1>1. CASE ~Room(r)
  BY <1>1 DEF FillWaitlistSlots
<1>2. CASE Room(r)
  <2> DEFINE k == r.inListLimit - Len(r.inList)
             n == IF k < Len(r.waitList) THEN k ELSE Len(r.waitList)
             w == SubSeq(r.waitList, n + 1, Len(r.waitList))
             f == FillWaitlistSlots(r)
  <2>1. Capped(r) /\ r.inListLimit \in Nat /\ Len(r.inList) < r.inListLimit
    BY <1>2, SoundFields DEF Room
  <2>2. f = [r EXCEPT !.inList = @ \o SubSeq(r.waitList, 1, n), !.waitList = w]
    BY <1>0, <1>2 DEF FillWaitlistSlots, PromoteSlots, RollCall
  <2>3. n \in 0..Len(r.waitList)
    BY <1>0, <2>1
  <2> HIDE DEF n
  <2>4. ToSet(w) \subseteq ToSet(r.waitList)
    <3> DEFINE x == SubSeq(r.waitList, 1, n)
    <3>1. ToSet(x) \cup ToSet(w) = ToSet(r.waitList)
      BY <1>0, <2>3, SplitFacts
    <3> HIDE DEF x, w
    <3> QED  BY <3>1
  <2> HIDE DEF w, f
  <2>5. f.waitList = w /\ f.inListLimit = r.inListLimit
    BY <1>0, <2>2 DEF RollCall
  <2> QED  BY <2>4, <2>5 DEF Waiting, f
<1> QED  BY <1>1, <1>2

\* Somebody IN comes to wait only under a cap that is lower than before.
LEMMA LimitQueues ==
  ASSUME NEW r, Sound(r), NEW n \in Limits, NEW v \in In(r),
         v \in Waiting(SetWaitLimit(r, n))
  PROVE  LET a == SetWaitLimit(r, n)
         IN  Capped(a) /\ (~Capped(r) \/ a.inListLimit < r.inListLimit)
<1> DEFINE a == SetWaitLimit(r, n)
           moved == [r EXCEPT !.inListLimit = n]
<1>0. /\ r \in RollCall /\ Apart(r.inList, r.outList, r.maybeList, r.waitList)
      /\ Len(r.inList) \in Nat /\ n \in Nat /\ n # NoLimit
      /\ v \notin Waiting(r)
  BY SoundFields, LimitAssumption DEF Apart, In, Waiting
<1>m. /\ moved \in RollCall /\ moved.inList = r.inList /\ moved.outList = r.outList
      /\ moved.maybeList = r.maybeList /\ moved.waitList = r.waitList
      /\ moved.inListLimit = n
  BY <1>0 DEF RollCall
<1>1. n # 0
  <2>1. SUFFICES ASSUME n = 0 PROVE a.waitList = << >>
    BY EmptyQueue DEF Waiting
  <2> QED  BY <1>0, <2>1 DEF SetWaitLimit, RollCall
<1>2. CASE Len(r.inList) > n
  <2>1. a = DemoteExcess(moved)
    BY <1>1, <1>2, <1>m DEF SetWaitLimit
  <2>2. a.inListLimit = n
    BY <1>m, <2>1 DEF DemoteExcess, RollCall
  <2>3. Capped(r) => n < r.inListLimit
    BY <1>0, <1>2, SoundFields
  <2> QED  BY <1>0, <2>2, <2>3 DEF Capped
<1>3. CASE ~(Len(r.inList) > n)
  <2>1. a = FillWaitlistSlots(moved)
    BY <1>1, <1>3, <1>m DEF SetWaitLimit
  <2>2. n \in Nat /\ Len(r.inList) <= n
    BY <1>0, <1>3
  <2> HIDE DEF moved
  <2>3. Sound(moved)
    <3>1. Capped(moved) /\ Len(moved.inList) <= moved.inListLimit
      BY <1>0, <1>m, <2>2 DEF Capped
    <3>2. Apart(moved.inList, moved.outList, moved.maybeList, moved.waitList)
      BY <1>0, <1>m
    <3> QED  BY <1>m, <3>1, <3>2, SoundIntro
  <2>4. Waiting(a) \subseteq Waiting(r)
    BY <1>m, <2>1, <2>3, FillQueues DEF Waiting
  <2> QED  BY <1>0, <2>4
<1> QED  BY <1>2, <1>3

\* Somebody deleted, and the lists read back: nobody else comes or goes.
LEMMA WithoutQueues ==
  ASSUME NEW r, Sound(r), NEW u \in People, NEW q \in Reloads(Without(r, u))
  PROVE  /\ Sound(q) /\ In(q) = In(r) \ {u} /\ Waiting(q) \subseteq Waiting(r)
<1> DEFINE i == RemoveFirst(r.inList, u)
           w == RemoveFirst(r.waitList, u)
           d == Without(r, u)
<1>1. /\ r \in RollCall
      /\ ToSet(i) = ToSet(r.inList) \ {u} /\ ToSet(w) = ToSet(r.waitList) \ {u}
  BY SoundFields, RemoveFirstFacts DEF Apart
<1>2. Sound(d) /\ Sound(q)
  BY WithoutSound, ReloadSound
<1>3. d.inList = i /\ d.waitList = w
  BY <1>1 DEF Without, SetOwner, RollCall
<1> HIDE DEF i, w, d
<1>4. d \in RollCall
  BY <1>2, SoundFields
<1>5. PICK m \in SetToSeqs(ToSet(d.maybeList)) : q = [d EXCEPT !.maybeList = m]
  BY DEF Reloads, d
<1>6. q.inList = i /\ q.waitList = w
  BY <1>3, <1>4, <1>5 DEF RollCall
<1> QED  BY <1>1, <1>2, <1>6 DEF In, Waiting

\* An owner is no place in line.
LEMMA OwnerQueues ==
  ASSUME NEW r, Sound(r), NEW u, NEW owner \in Owners
  PROVE  /\ Sound(SetOwner(r, u, owner)) /\ In(SetOwner(r, u, owner)) = In(r)
         /\ Waiting(SetOwner(r, u, owner)) = Waiting(r)
<1>1. r \in RollCall
  BY SoundFields
<1>2. /\ SetOwner(r, u, owner).inList = r.inList
      /\ SetOwner(r, u, owner).waitList = r.waitList
  BY <1>1 DEF SetOwner, RollCall
<1> QED  BY <1>2, SetOwnerSound DEF In, Waiting

-----------------------------------------------------------------------------
\* Whatever the step, somebody IN waits after it only if the cap came down.
LEMMA StaysIn ==
  ASSUME Inv, [Next]_rc, NEW v \in In(rc), v \in Waiting(rc')
  PROVE  Capped(rc') /\ (~Capped(rc) \/ rc'.inListLimit < rc.inListLimit)
<1>0. Sound(rc) /\ v \notin Waiting(rc)
  <2>1. Sound(rc)
    BY DEF Inv
  <2> QED  BY <2>1, SoundFields DEF Apart, In, Waiting
<1>a. \A r, u, a : /\ a = "in"    => Add(r, u, a) = AddIn(r, u)
                   /\ a = "out"   => Add(r, u, a) = AddOut(r, u)
                   /\ a = "maybe" => Add(r, u, a) = AddMaybe(r, u)
  BY DEF Add
<1>b. {"in", "out", "maybe"} = Answers
  BY DEF Answers
<1>c. ASSUME NEW u \in People, NEW a \in Answers, rc' = Add(rc, u, a)
      PROVE  FALSE
  BY <1>0, <1>c, AddQueues
<1> USE DEF People
<1>1. CASE \E m \in Members : VoteIn(m) \/ VoteOut(m) \/ VoteMaybe(m)
  BY <1>1, <1>a, <1>b, <1>c DEF VoteIn, VoteOut, VoteMaybe
<1>2. CASE \E g \in Guests, o \in {Admin, Web} : GuestIn(g, o)
  <2>0. PICK g \in Guests, o \in {Admin, Web} : GuestIn(g, o)
    BY <1>2
  <2> DEFINE s == SetOwner(rc, g, o)
  <2>1. o \in Owners
    BY DEF Owners
  <2>2. Sound(s) /\ In(s) = In(rc) /\ Waiting(s) = Waiting(rc)
    BY <1>0, <2>1, OwnerQueues
  <2>3. g \notin In(rc) /\ rc' = Add(s, g, "in")
    BY <2>0, <1>a DEF GuestIn
  <2> HIDE DEF s
  <2>4. v \in Waiting(s) \/ v = g
    BY <1>b, <2>2, <2>3, AddQueues
  <2> QED  BY <1>0, <2>2, <2>3, <2>4
<1>3. CASE \E g \in Guests : GuestOut(g) \/ GuestMaybe(g)
  BY <1>3, <1>a, <1>b, <1>c DEF GuestOut, GuestMaybe
<1>4. CASE \E n \in Limits : SetLimit(n)
  BY <1>0, <1>4, LimitQueues DEF SetLimit
<1>5. CASE \E u \in People : DeleteUser(u)
  <2>0. PICK u \in People : DeleteUser(u)
    BY <1>5
  <2>1. PICK r \in Reloads(Without(rc, u)) : rc' = FillWaitlistSlots(r)
    BY <2>0 DEF DeleteUser
  <2>2. Sound(r) /\ Waiting(r) \subseteq Waiting(rc)
    BY <1>0, WithoutQueues
  <2> QED  BY <1>0, <2>1, <2>2, FillQueues
<1>6. CASE \E u \in People, a \in Answers : SetUserStatus(u, a)
  <2>0. PICK u \in People, a \in Answers : SetUserStatus(u, a)
    BY <1>6
  <2>1. PICK r \in Reloads(Without(rc, u)) :
          rc' = Add(SetOwner(r, u, OwnerOf(rc, u)), u, a)
    BY <2>0 DEF SetUserStatus
  <2> DEFINE s == SetOwner(r, u, OwnerOf(rc, u))
  <2>2. Sound(r) /\ Waiting(r) \subseteq Waiting(rc)
    BY <1>0, WithoutQueues
  <2>3. OwnerOf(rc, u) \in Owners
    <3>1. rc \in RollCall
      BY <1>0, SoundFields
    <3> QED  BY <3>1 DEF OwnerOf, Owners, RollCall
  <2>4. Sound(s) /\ Waiting(s) \subseteq Waiting(rc)
    BY <2>2, <2>3, OwnerQueues
  <2> HIDE DEF s
  <2>5. rc' = Add(s, u, a)
    BY <2>1 DEF s
  <2>6. v = u /\ a = "in"
    BY <1>0, <2>4, <2>5, AddQueues
  <2>7. StatusOf(rc, v) = "in"
    <3>1. v \notin ToSet(rc.outList) /\ v \notin ToSet(rc.maybeList)
      BY <1>0, SoundFields DEF Apart, In
    <3> QED  BY <3>1 DEF StatusOf
  <2> QED  BY <2>0, <2>6, <2>7 DEF SetUserStatus
<1>7. CASE \E m \in Members, g \in Guests, a \in Answers : WebVote(m, g, a)
  <2>0. PICK m \in Members, g \in Guests, a \in Answers : WebVote(m, g, a)
    BY <1>7
  <2>1. PICK r \in Reloads(Without(rc, g)) :
          rc' = FillWaitlistSlots(Add(r, m, a))
    BY <2>0 DEF WebVote
  <2>2. Sound(r) /\ In(r) = In(rc) \ {g} /\ Waiting(r) \subseteq Waiting(rc)
    BY <1>0, WithoutQueues
  <2> DEFINE s == Add(r, m, a)
  <2>3. Sound(s)
    BY <2>2, AddSound
  <2>4. v \in Waiting(s)
    BY <2>1, <2>3, FillQueues
  <2> HIDE DEF s
  <2>5. v = m /\ m \notin In(r)
    BY <1>0, <2>2, <2>4, AddQueues DEF s
  <2>6. m # g
    BY PeopleAssumption
  <2> QED  BY <2>2, <2>5, <2>6
<1>8. CASE Restart
  BY <1>0, <1>8, ReloadSound DEF Restart, Waiting
<1>9. CASE UNCHANGED rc
  BY <1>0, <1>9
<1> QED  BY <1>1, <1>2, <1>3, <1>4, <1>5, <1>6, <1>7, <1>8, <1>9 DEF Next

\* For any members, guests and caps: no vote, move, deletion, web vote or
\* restart takes an IN slot away; only a cap that came down does.
THEOREM NoDemotion == Spec => NoUnaskedDemotion
<1>1. Inv /\ [Next]_rc =>
        [\A u \in People :
           u \in In(rc) /\ u \in Waiting(rc')
             => Capped(rc') /\ (~Capped(rc) \/ rc'.inListLimit < rc.inListLimit)]_rc
  BY StaysIn
<1> QED  BY <1>1, Invariance, PTL DEF Spec, NoUnaskedDemotion

-----------------------------------------------------------------------------
(***************************************************************************)
(* The line of a rollcall, IN and then WAITING, and what each operator     *)
(* does to it: with the cap held and no slot idle, the line alone says who *)
(* is IN, so the sign-up sheet's steps are read off it.                    *)
(***************************************************************************)
LineOf(r) == r.inList \o r.waitList

\* The laws of sequences that a line needs, for lists of people.
LEMMA LineAssociates ==
  ASSUME NEW a \in Seq(People), NEW b \in Seq(People), NEW c \in Seq(People)
  PROVE  (a \o b) \o c = a \o (b \o c)
BY ConcatAssociative

LEMMA LineGrows ==
  ASSUME NEW s \in Seq(People), NEW t \in Seq(People), NEW u \in People
  PROVE  Append(s \o t, u) = s \o Append(t, u)
BY ConcatMoves

LEMMA LineShrinks ==
  ASSUME NEW s \in Seq(People), NEW t \in Seq(People), NEW u \in People,
         IsInjective(s), IsInjective(t), ToSet(s) \cap ToSet(t) = {}
  PROVE  RemoveFirst(s \o t, u) = RemoveFirst(s, u) \o RemoveFirst(t, u)
BY RemoveFirstConcat

\* A sound rollcall's line holds everybody IN or WAITING once.
LEMMA LineFacts ==
  ASSUME NEW r, Sound(r)
  PROVE  /\ LineOf(r) \in Seq(People) /\ IsInjective(LineOf(r))
         /\ ToSet(LineOf(r)) = In(r) \cup Waiting(r)
         /\ Len(LineOf(r)) = Len(r.inList) + Len(r.waitList)
<1>1. /\ r.inList \in Seq(People) /\ r.waitList \in Seq(People)
      /\ IsInjective(r.inList) /\ IsInjective(r.waitList)
      /\ ToSet(r.inList) \cap ToSet(r.waitList) = {}
  BY SoundFields DEF Apart
<1> QED  BY <1>1, ConcatFacts, ZenonT(60) DEF LineOf, In, Waiting

\* The line cut at the cap is the IN list and the waitlist.
LEMMA SeatedByLine ==
  ASSUME NEW r, Sound(r), NoIdleSlot(r)
  PROVE  LET l == LineOf(r)
             n == Sheet!Places(l, r.inListLimit)
         IN  r.inList = SubSeq(l, 1, n) /\ r.waitList = SubSeq(l, n + 1, Len(l))
<1> DEFINE l == LineOf(r)
           n == Sheet!Places(l, r.inListLimit)
<1>1. /\ r.inList \in Seq(People) /\ r.waitList \in Seq(People)
      /\ Len(r.inList) \in Nat /\ Len(r.waitList) \in Nat
      /\ Len(l) = Len(r.inList) + Len(r.waitList)
  BY SoundFields, LineFacts
<1>2. n = Len(r.inList)
  <2>1. CASE r.waitList = << >>
    <3>1. Len(r.waitList) = 0
      BY <2>1
    <3>2. Capped(r) => r.inListLimit \in Nat /\ Len(r.inList) <= r.inListLimit
      BY SoundFields
    <3> HIDE DEF l
    <3> QED  BY <1>1, <3>1, <3>2 DEF Sheet!Places, Capped
  <2>2. CASE r.waitList # << >>
    <3>1. Capped(r) /\ Len(r.inList) >= r.inListLimit
      BY <2>2 DEF NoIdleSlot, Full
    <3>2. r.inListLimit \in Nat /\ Len(r.inList) = r.inListLimit
      BY <3>1, <1>1, SoundFields
    <3>3. Len(r.waitList) # 0
      BY <1>1, <2>2, EmptySeq
    <3> HIDE DEF l
    <3> QED  BY <1>1, <3>1, <3>2, <3>3 DEF Sheet!Places, Capped
  <2> QED  BY <2>1, <2>2
<1> HIDE DEF n
<1>3. /\ SubSeq(r.inList \o r.waitList, 1, Len(r.inList)) = r.inList
      /\ SubSeq(r.inList \o r.waitList, Len(r.inList) + 1, Len(r.inList \o r.waitList)) = r.waitList
  BY <1>1, SplitConcat, Zenon
<1>4. l = r.inList \o r.waitList
  BY DEF LineOf
<1> HIDE DEF l
<1>5. r.inList = SubSeq(l, 1, n) /\ r.waitList = SubSeq(l, n + 1, Len(l))
  BY <1>2, <1>3, <1>4, Zenon
<1> QED  BY <1>5, Zenon DEF l, n

\* An IN joins the end of the line, unless the voter is in it; among people
\* who wait it does so behind those who go.
LEMMA AddInLine ==
  ASSUME NEW r, Sound(r), NEW u \in People
  PROVE  LET a == AddIn(r, u)
         IN  /\ a.inListLimit = r.inListLimit
             /\ u \in ToSet(LineOf(r)) => LineOf(a) = LineOf(r)
             /\ u \notin ToSet(LineOf(r)) =>
                  /\ Full(r) \/ r.waitList = << >> => LineOf(a) = Append(LineOf(r), u)
                  /\ ~Full(r) => a.waitList = r.waitList /\ a.inList = Append(r.inList, u)
<1> DEFINE o == RemoveFirst(r.outList, u)
           m == RemoveFirst(r.maybeList, u)
           w == RemoveFirst(r.waitList, u)
           left == [r EXCEPT !.outList = o, !.maybeList = m, !.waitList = w]
           a == AddIn(r, u)
<1>1. /\ r \in RollCall /\ r.inList \in Seq(People) /\ r.waitList \in Seq(People)
      /\ ~Capped(r) => r.waitList = << >>
      /\ ToSet(LineOf(r)) = In(r) \cup Waiting(r)
  BY SoundFields, LineFacts
<1>2. CASE u \in ToSet(LineOf(r))
  <2>1. u \in In(r) \/ (Capped(r) /\ u \in Waiting(r))
    BY <1>1, <1>2, EmptyQueue DEF Waiting
  <2> QED  BY <1>2, <2>1 DEF AddIn
<1>3. CASE u \notin ToSet(LineOf(r))
  <2>1. w = r.waitList
    BY <1>1, <1>3, RemoveFirstAbsent DEF Waiting
  <2>2. a = IF Full(left) THEN [left EXCEPT !.waitList = Append(@, u)]
                          ELSE [left EXCEPT !.inList = Append(@, u)]
    BY <1>1, <1>3 DEF AddIn
  <2>3. /\ left.inList = r.inList /\ left.waitList = r.waitList
        /\ left.inListLimit = r.inListLimit
        /\ left = [r EXCEPT !.outList = o, !.maybeList = m]
    BY <1>1, <2>1 DEF RollCall
  <2>4. Full(left) <=> Full(r)
    BY <2>3 DEF Full, Capped
  <2>5. CASE Full(r)
    <3>1. a.inList = r.inList /\ a.waitList = Append(r.waitList, u) /\ a.inListLimit = r.inListLimit
      BY <1>1, <2>1, <2>2, <2>4, <2>5 DEF RollCall
    <3> HIDE DEF a
    <3>2. LineOf(a) = Append(LineOf(r), u)
      <4>1. Append(r.inList \o r.waitList, u) = r.inList \o Append(r.waitList, u)
        BY <1>1, LineGrows, Zenon
      <4> QED  BY <3>1, <4>1, Zenon DEF LineOf
    <3> QED  BY <1>3, <2>5, <3>1, <3>2 DEF a
  <2>6. CASE ~Full(r)
    <3>1. a.inList = Append(r.inList, u) /\ a.waitList = r.waitList /\ a.inListLimit = r.inListLimit
      BY <1>1, <2>1, <2>2, <2>4, <2>6 DEF RollCall
    <3> HIDE DEF a
    <3>2. r.waitList = << >> => LineOf(a) = Append(LineOf(r), u)
      BY <1>1, <3>1, ConcatEmptySeq, AppendProperties DEF LineOf
    <3> QED  BY <1>3, <2>6, <3>1, <3>2 DEF a
  <2> QED  BY <2>5, <2>6
<1> QED  BY <1>2, <1>3

\* A promotion moves nobody in the line.
LEMMA PromoteHeadLine ==
  ASSUME NEW r, Sound(r)
  PROVE  LET p == PromoteHead(r)
         IN  LineOf(p) = LineOf(r) /\ p.inListLimit = r.inListLimit
<1> DEFINE p == PromoteHead(r)
           i == Append(r.inList, Head(r.waitList))
           w == Tail(r.waitList)
<1>1. r \in RollCall /\ r.inList \in Seq(People) /\ r.waitList \in Seq(People)
  BY SoundFields
<1>2. CASE ~(Room(r) /\ r.waitList # << >>)
  BY <1>2 DEF PromoteHead
<1>3. CASE Room(r) /\ r.waitList # << >>
  <2>1. p = [r EXCEPT !.inList = i, !.waitList = w]
    BY <1>1, <1>3 DEF PromoteHead, RollCall
  <2>2. i \o w = LineOf(r)
    BY <1>1, <1>3, ConcatMoves DEF LineOf
  <2> HIDE DEF p, i, w
  <2>3. p.inList = i /\ p.waitList = w /\ p.inListLimit = r.inListLimit
    BY <1>1, <2>1 DEF RollCall
  <2> QED  BY <2>2, <2>3 DEF LineOf, p
<1> QED  BY <1>2, <1>3

\* Somebody who leaves the line leaves the others where they are.
LEMMA LeaveLineLine ==
  ASSUME NEW r, Sound(r), NEW u \in People
  PROVE  LET l == LeaveLine(r, u)
         IN  LineOf(l) = RemoveFirst(LineOf(r), u) /\ l.inListLimit = r.inListLimit
<1> DEFINE l == LeaveLine(r, u)
           i == RemoveFirst(r.inList, u)
           w == RemoveFirst(r.waitList, u)
<1>1. /\ r \in RollCall /\ r.inList \in Seq(People) /\ r.waitList \in Seq(People)
      /\ IsInjective(r.inList) /\ IsInjective(r.waitList)
      /\ ToSet(r.inList) \cap ToSet(r.waitList) = {}
      /\ ~Capped(r) => r.waitList = << >>
  BY SoundFields DEF Apart
<1>2. l = [r EXCEPT !.inList = i, !.waitList = w]
  <2>1. ~Capped(r) => w = r.waitList
    BY <1>1, EmptyQueue
  <2> QED  BY <1>1, <2>1 DEF LeaveLine, RollCall
<1>3. RemoveFirst(r.inList \o r.waitList, u) = i \o w
  BY <1>1, LineShrinks, Zenon
<1> HIDE DEF i, w, l
<1>4. l.inList = i /\ l.waitList = w /\ l.inListLimit = r.inListLimit
  BY <1>1, <1>2 DEF RollCall
<1> QED  BY <1>3, <1>4 DEF LineOf, l

\* A shorter OUT or MAYBE list leaves the line alone.
LEMMA ShorterMaybe ==
  ASSUME NEW r, Sound(r),
         NEW q \in Seq(People), IsInjective(q), ToSet(q) \subseteq ToSet(r.maybeList)
  PROVE  LET x == [r EXCEPT !.maybeList = q]
         IN  Sound(x) /\ LineOf(x) = LineOf(r) /\ x.inListLimit = r.inListLimit
<1> DEFINE x == [r EXCEPT !.maybeList = q]
<1>1. r \in RollCall /\ Apart(r.inList, r.outList, r.maybeList, r.waitList)
  BY SoundFields
<1>2. /\ x \in RollCall /\ x.inList = r.inList /\ x.outList = r.outList
      /\ x.maybeList = q /\ x.waitList = r.waitList /\ x.inListLimit = r.inListLimit
  BY <1>1 DEF RollCall
<1> HIDE DEF x
<1>3. Apart(x.inList, x.outList, x.maybeList, x.waitList)
  BY <1>1, <1>2 DEF Apart
<1>4. Sound(x)
  BY <1>2, <1>3, SoundFields, SoundIntro DEF Capped
<1> QED  BY <1>2, <1>4 DEF LineOf, x

LEMMA ShorterOut ==
  ASSUME NEW r, Sound(r),
         NEW q \in Seq(People), IsInjective(q), ToSet(q) \subseteq ToSet(r.outList)
  PROVE  LET x == [r EXCEPT !.outList = q]
         IN  Sound(x) /\ LineOf(x) = LineOf(r) /\ x.inListLimit = r.inListLimit
<1> DEFINE x == [r EXCEPT !.outList = q]
<1>1. r \in RollCall /\ Apart(r.inList, r.outList, r.maybeList, r.waitList)
  BY SoundFields
<1>2. /\ x \in RollCall /\ x.inList = r.inList /\ x.outList = q
      /\ x.maybeList = r.maybeList /\ x.waitList = r.waitList /\ x.inListLimit = r.inListLimit
  BY <1>1 DEF RollCall
<1> HIDE DEF x
<1>3. Apart(x.inList, x.outList, x.maybeList, x.waitList)
  BY <1>1, <1>2 DEF Apart
<1>4. Sound(x)
  BY <1>2, <1>3, SoundFields, SoundIntro DEF Capped
<1> QED  BY <1>2, <1>4 DEF LineOf, x

\* An OUT or a MAYBE takes its voter out of the line, and nobody else.
LEMMA AddOutLine ==
  ASSUME NEW r, Sound(r), NEW u \in People
  PROVE  LET a == AddOut(r, u)
         IN  LineOf(a) = RemoveFirst(LineOf(r), u) /\ a.inListLimit = r.inListLimit
<1>1. CASE u \in ToSet(r.outList)
  <2>1. u \notin ToSet(LineOf(r)) /\ LineOf(r) \in Seq(People)
    BY <1>1, SoundFields, LineFacts DEF Apart, In, Waiting
  <2> QED  BY <1>1, <2>1, RemoveFirstAbsent DEF AddOut
<1>2. CASE u \notin ToSet(r.outList)
  <2> DEFINE l == LeaveLine(r, u)
             q == RemoveFirst(l.maybeList, u)
             x == [l EXCEPT !.maybeList = q]
             p == PromoteHead(x)
  <2>1. /\ Sound(l) /\ LineOf(l) = RemoveFirst(LineOf(r), u)
        /\ l.inListLimit = r.inListLimit
    BY LeaveLineSound, LeaveLineLine
  <2> HIDE DEF l
  <2>2. q \in Seq(People) /\ IsInjective(q) /\ ToSet(q) \subseteq ToSet(l.maybeList)
    BY <2>1, SoundFields, RemoveFirstFacts DEF Apart
  <2> HIDE DEF q
  <2>3. Sound(x) /\ LineOf(x) = LineOf(l) /\ x.inListLimit = l.inListLimit
    BY <2>1, <2>2, ShorterMaybe
  <2> HIDE DEF x
  <2>4. Sound(p) /\ LineOf(p) = LineOf(x) /\ p.inListLimit = x.inListLimit
    BY <2>3, PromoteHeadSound, PromoteHeadLine
  <2>5. AddOut(r, u) = [p EXCEPT !.outList = Append(@, u)]
    BY <1>2 DEF AddOut, l, q, x
  <2> HIDE DEF p
  <2>6. p \in RollCall
    BY <2>4, SoundFields
  <2>7. LineOf(AddOut(r, u)) = LineOf(p) /\ AddOut(r, u).inListLimit = p.inListLimit
    BY <2>5, <2>6 DEF LineOf, RollCall
  <2> QED  BY <2>1, <2>3, <2>4, <2>7
<1> QED  BY <1>1, <1>2

LEMMA AddMaybeLine ==
  ASSUME NEW r, Sound(r), NEW u \in People
  PROVE  LET a == AddMaybe(r, u)
         IN  LineOf(a) = RemoveFirst(LineOf(r), u) /\ a.inListLimit = r.inListLimit
<1>1. CASE u \in ToSet(r.maybeList)
  <2>1. u \notin ToSet(LineOf(r)) /\ LineOf(r) \in Seq(People)
    BY <1>1, SoundFields, LineFacts DEF Apart, In, Waiting
  <2> QED  BY <1>1, <2>1, RemoveFirstAbsent DEF AddMaybe
<1>2. CASE u \notin ToSet(r.maybeList)
  <2> DEFINE l == LeaveLine(r, u)
             q == RemoveFirst(l.outList, u)
             x == [l EXCEPT !.outList = q]
             p == PromoteHead(x)
  <2>1. /\ Sound(l) /\ LineOf(l) = RemoveFirst(LineOf(r), u)
        /\ l.inListLimit = r.inListLimit
    BY LeaveLineSound, LeaveLineLine
  <2> HIDE DEF l
  <2>2. q \in Seq(People) /\ IsInjective(q) /\ ToSet(q) \subseteq ToSet(l.outList)
    BY <2>1, SoundFields, RemoveFirstFacts DEF Apart
  <2> HIDE DEF q
  <2>3. Sound(x) /\ LineOf(x) = LineOf(l) /\ x.inListLimit = l.inListLimit
    BY <2>1, <2>2, ShorterOut
  <2> HIDE DEF x
  <2>4. Sound(p) /\ LineOf(p) = LineOf(x) /\ p.inListLimit = x.inListLimit
    BY <2>3, PromoteHeadSound, PromoteHeadLine
  <2>5. AddMaybe(r, u) = [p EXCEPT !.maybeList = Append(@, u)]
    BY <1>2 DEF AddMaybe, l, q, x
  <2> HIDE DEF p
  <2>6. p \in RollCall
    BY <2>4, SoundFields
  <2>7. LineOf(AddMaybe(r, u)) = LineOf(p) /\ AddMaybe(r, u).inListLimit = p.inListLimit
    BY <2>5, <2>6 DEF LineOf, RollCall
  <2> QED  BY <2>1, <2>3, <2>4, <2>7
<1> QED  BY <1>1, <1>2

\* Filling the free slots moves nobody in the line.
LEMMA FillLine ==
  ASSUME NEW r, Sound(r)
  PROVE  LET f == FillWaitlistSlots(r)
         IN  LineOf(f) = LineOf(r) /\ f.inListLimit = r.inListLimit
<1>0. /\ r \in RollCall /\ r.inList \in Seq(People) /\ r.waitList \in Seq(People)
      /\ Len(r.inList) \in Nat /\ Len(r.waitList) \in Nat /\ IsInjective(r.waitList)
  BY SoundFields DEF Apart
<1>1. CASE ~Room(r)
  BY <1>1 DEF FillWaitlistSlots
<1>2. CASE Room(r)
  <2> DEFINE k == r.inListLimit - Len(r.inList)
             n == IF k < Len(r.waitList) THEN k ELSE Len(r.waitList)
             x == SubSeq(r.waitList, 1, n)
             w == SubSeq(r.waitList, n + 1, Len(r.waitList))
             i == r.inList \o x
             f == FillWaitlistSlots(r)
  <2>1. Capped(r) /\ r.inListLimit \in Nat /\ Len(r.inList) < r.inListLimit
    BY <1>2, SoundFields DEF Room
  <2>2. f = [r EXCEPT !.inList = i, !.waitList = w]
    BY <1>0, <1>2 DEF FillWaitlistSlots, PromoteSlots, RollCall
  <2>3. n \in 0..Len(r.waitList)
    BY <1>0, <2>1
  <2> HIDE DEF n
  <2>4. x \in Seq(People) /\ w \in Seq(People) /\ x \o w = r.waitList
    BY <1>0, <2>3, SplitFacts
  <2> HIDE DEF x, w
  <2>5. i \o w = LineOf(r)
    <3>1. (r.inList \o x) \o w = r.inList \o (x \o w)
      BY <1>0, <2>4, LineAssociates, Zenon
    <3> QED  BY <2>4, <3>1, Zenon DEF LineOf
  <2> HIDE DEF f, i
  <2>6. f.inList = i /\ f.waitList = w /\ f.inListLimit = r.inListLimit
    BY <1>0, <2>2 DEF RollCall
  <2> QED  BY <2>5, <2>6 DEF LineOf, f
<1> QED  BY <1>1, <1>2

\* A cap that moves cuts the line elsewhere and moves nobody in it.
LEMMA LimitLine ==
  ASSUME NEW r, Sound(r), NEW n \in Limits
  PROVE  LET a == SetWaitLimit(r, n)
         IN  /\ LineOf(a) = LineOf(r)
             /\ a.inListLimit = IF n = 0 THEN NoLimit ELSE n
<1> DEFINE a == SetWaitLimit(r, n)
           moved == [r EXCEPT !.inListLimit = n]
<1>0. /\ r \in RollCall /\ Apart(r.inList, r.outList, r.maybeList, r.waitList)
      /\ r.inList \in Seq(People) /\ r.waitList \in Seq(People)
      /\ Len(r.inList) \in Nat /\ n \in Nat /\ n # NoLimit
  BY SoundFields, LimitAssumption
<1>m. /\ moved \in RollCall /\ moved.inList = r.inList /\ moved.outList = r.outList
      /\ moved.maybeList = r.maybeList /\ moved.waitList = r.waitList
      /\ moved.inListLimit = n
  BY <1>0 DEF RollCall
<1>1. CASE n = 0
  <2>1. a = [r EXCEPT !.inListLimit = NoLimit, !.inList = LineOf(r), !.waitList = << >>]
    BY <1>0, <1>1 DEF SetWaitLimit, RollCall, LineOf
  <2>2. LineOf(r) \in Seq(People)
    BY LineFacts
  <2> HIDE DEF a, moved
  <2>3. a.inListLimit = NoLimit /\ a.inList = LineOf(r) /\ a.waitList = << >>
    BY <1>0, <2>1 DEF RollCall
  <2>4. LineOf(r) \o << >> = LineOf(r)
    BY <2>2, ConcatEmptySeq
  <2>5. LineOf(a) = a.inList \o a.waitList
    BY DEF LineOf
  <2> QED  BY <1>1, <2>3, <2>4, <2>5 DEF a
<1>2. CASE n # 0 /\ Len(r.inList) > n
  <2> DEFINE i == SubSeq(r.inList, 1, n)
             x == SubSeq(r.inList, n + 1, Len(r.inList))
             w == x \o r.waitList
  <2>1. a = [moved EXCEPT !.inList = i, !.waitList = w]
    BY <1>0, <1>2, <1>m DEF SetWaitLimit, DemoteExcess, RollCall
  <2>2. i \in Seq(People) /\ x \in Seq(People) /\ i \o x = r.inList
    <3>1. n \in 0..Len(r.inList)
      BY <1>0, <1>2
    <3> QED  BY <1>0, <3>1, SplitFacts DEF Apart
  <2> HIDE DEF i, x
  <2>3. i \o w = LineOf(r)
    <3>1. (i \o x) \o r.waitList = i \o (x \o r.waitList)
      BY <1>0, <2>2, LineAssociates, Zenon
    <3> QED  BY <2>2, <3>1, Zenon DEF LineOf
  <2> HIDE DEF w, a, moved
  <2>4. a.inList = i /\ a.waitList = w /\ a.inListLimit = n
    BY <1>m, <2>1 DEF RollCall
  <2> QED  BY <1>2, <2>3, <2>4 DEF LineOf, a
<1>3. CASE n # 0 /\ ~(Len(r.inList) > n)
  <2>1. a = FillWaitlistSlots(moved)
    BY <1>3 DEF SetWaitLimit
  <2>2. Sound(moved)
    <3>1. Capped(moved) /\ Len(moved.inList) <= moved.inListLimit
      BY <1>0, <1>3, <1>m DEF Capped
    <3>2. Apart(moved.inList, moved.outList, moved.maybeList, moved.waitList)
      BY <1>0, <1>m
    <3> QED  BY <1>m, <3>1, <3>2, SoundIntro
  <2>3. LineOf(moved) = LineOf(r)
    BY <1>m DEF LineOf
  <2> HIDE DEF moved
  <2> QED  BY <1>3, <1>m, <2>1, <2>2, <2>3, FillLine
<1> QED  BY <1>1, <1>2, <1>3

\* A deleted row leaves the others where they are, and reading the lists
\* back or recording an owner moves nobody.
LEMMA WithoutLine ==
  ASSUME NEW r, Sound(r), NEW u \in People
  PROVE  /\ LineOf(Without(r, u)) = RemoveFirst(LineOf(r), u)
         /\ Without(r, u).inListLimit = r.inListLimit
         /\ Without(r, u).inList = RemoveFirst(r.inList, u)
         /\ Without(r, u).waitList = RemoveFirst(r.waitList, u)
<1> DEFINE i == RemoveFirst(r.inList, u)
           w == RemoveFirst(r.waitList, u)
           d == Without(r, u)
<1>1. /\ r \in RollCall /\ r.inList \in Seq(People) /\ r.waitList \in Seq(People)
      /\ IsInjective(r.inList) /\ IsInjective(r.waitList)
      /\ ToSet(r.inList) \cap ToSet(r.waitList) = {}
  BY SoundFields DEF Apart
<1>2. d.inList = i /\ d.waitList = w /\ d.inListLimit = r.inListLimit
  BY <1>1 DEF Without, SetOwner, RollCall
<1>3. RemoveFirst(r.inList \o r.waitList, u) = i \o w
  BY <1>1, LineShrinks, Zenon
<1> HIDE DEF i, w, d
<1> QED  BY <1>2, <1>3 DEF LineOf, d, i, w

LEMMA ReloadLine ==
  ASSUME NEW r, Sound(r), NEW q \in Reloads(r)
  PROVE  /\ LineOf(q) = LineOf(r) /\ q.inListLimit = r.inListLimit
         /\ q.inList = r.inList /\ q.waitList = r.waitList
<1>1. r \in RollCall
  BY SoundFields
<1>2. PICK m \in SetToSeqs(ToSet(r.maybeList)) : q = [r EXCEPT !.maybeList = m]
  BY DEF Reloads
<1>3. q.inList = r.inList /\ q.waitList = r.waitList /\ q.inListLimit = r.inListLimit
  BY <1>1, <1>2 DEF RollCall
<1> QED  BY <1>3 DEF LineOf

LEMMA OwnerLine ==
  ASSUME NEW r, Sound(r), NEW u, NEW owner
  PROVE  /\ LineOf(SetOwner(r, u, owner)) = LineOf(r)
         /\ SetOwner(r, u, owner).inListLimit = r.inListLimit
         /\ SetOwner(r, u, owner).inList = r.inList
         /\ SetOwner(r, u, owner).waitList = r.waitList
<1>1. r \in RollCall
  BY SoundFields
<1>2. /\ SetOwner(r, u, owner).inList = r.inList
      /\ SetOwner(r, u, owner).waitList = r.waitList
      /\ SetOwner(r, u, owner).inListLimit = r.inListLimit
  BY <1>1 DEF SetOwner, RollCall
<1> QED  BY <1>2 DEF LineOf

\* The sheet is seated by the rollcall's own line, before and after a step.
LEMMA SeatsNext ==
  ASSUME Inv'
  PROVE  Sheet!Seat(LineOf(rc'), rc'.inListLimit)
<1>1. Sound(rc') /\ NoIdleSlot(rc')
  BY DEF Inv, Sound, NoIdleSlot, OnePlace, CapHeld, Capped, Full
<1> DEFINE n == Sheet!Places(LineOf(rc'), rc'.inListLimit)
<1>2. /\ rc'.inList = SubSeq(LineOf(rc'), 1, n)
      /\ rc'.waitList = SubSeq(LineOf(rc'), n + 1, Len(LineOf(rc')))
  BY <1>1, SeatedByLine, Zenon
<1> QED  BY <1>2, Zenon DEF Sheet!Seat

\* A step that leaves the line and the cap alone leaves the sheet alone.
LEMMA SameLine ==
  ASSUME Inv, Inv', LineOf(rc') = LineOf(rc), rc'.inListLimit = rc.inListLimit
  PROVE  UNCHANGED Sheet!vars
<1>1. Sound(rc) /\ NoIdleSlot(rc) /\ Sound(rc') /\ NoIdleSlot(rc')
  BY DEF Inv, Sound, NoIdleSlot, OnePlace, CapHeld, Capped, Full
<1> DEFINE n == Sheet!Places(LineOf(rc), rc.inListLimit)
           m == Sheet!Places(LineOf(rc'), rc'.inListLimit)
<1>2. /\ rc.inList = SubSeq(LineOf(rc), 1, n)
      /\ rc.waitList = SubSeq(LineOf(rc), n + 1, Len(LineOf(rc)))
  BY <1>1, SeatedByLine, Zenon
<1>3. /\ rc'.inList = SubSeq(LineOf(rc'), 1, m)
      /\ rc'.waitList = SubSeq(LineOf(rc'), m + 1, Len(LineOf(rc')))
  BY <1>1, SeatedByLine, Zenon
<1>4. m = n
  BY Zenon
<1> HIDE DEF n, m
<1>5. rc'.inList = rc.inList /\ rc'.waitList = rc.waitList
  BY <1>2, <1>3, <1>4
<1> QED  BY <1>5 DEF Sheet!vars

\* One who leaves the line is a step of the sheet, or none if not in it.
LEMMA LeavesLine ==
  ASSUME Inv, Inv', NEW u \in People,
         LineOf(rc') = RemoveFirst(LineOf(rc), u), rc'.inListLimit = rc.inListLimit
  PROVE  [Sheet!Next]_(Sheet!vars)
<1>1. Sound(rc) /\ LineOf(rc) \in Seq(People)
  <2>1. Sound(rc)
    BY DEF Inv
  <2> QED  BY <2>1, LineFacts
<1>2. CASE u \in ToSet(LineOf(rc))
  <2>1. Sheet!Seat(RemoveFirst(LineOf(rc), u), rc.inListLimit)
    BY SeatsNext, Zenon
  <2>2. Sheet!Line = LineOf(rc) /\ Sheet!ToSet(Sheet!Line) = ToSet(Sheet!Line)
    BY DEF Sheet!Line, LineOf, Sheet!ToSet, ToSet
  <2>3. Sheet!RemoveFirst(Sheet!Line, u) = RemoveFirst(LineOf(rc), u)
    BY <2>2 DEF Sheet!RemoveFirst, RemoveFirst, Sheet!SelectInSeq, SelectInSeq,
                Sheet!RemoveAt, RemoveAt, Sheet!Min, Min
  <2>4. Sheet!Leave(u)
    BY <1>2, <2>1, <2>2, <2>3, Zenon DEF Sheet!Leave
  <2> QED  BY <2>4, Zenon DEF Sheet!Next
<1>3. CASE u \notin ToSet(LineOf(rc))
  BY <1>1, <1>3, RemoveFirstAbsent, SameLine
<1> QED  BY <1>2, <1>3

\* One who was not in the line and ends it has joined the sheet.
LEMMA JoinsLine ==
  ASSUME Inv, Inv', NEW u \in People, u \notin ToSet(LineOf(rc)),
         LineOf(rc') = Append(LineOf(rc), u), rc'.inListLimit = rc.inListLimit
  PROVE  [Sheet!Next]_(Sheet!vars)
<1>1. Sheet!Seat(Append(LineOf(rc), u), rc.inListLimit)
  BY SeatsNext, Zenon
<1>2. Sheet!Line = LineOf(rc) /\ Sheet!ToSet(Sheet!Line) = ToSet(Sheet!Line)
  BY DEF Sheet!Line, LineOf, Sheet!ToSet, ToSet
<1>3. Sheet!Join(u)
  BY <1>1, <1>2, Zenon DEF Sheet!Join
<1> QED  BY <1>3, Zenon DEF Sheet!Next

\* An answer is at most one joining or one leaving.
LEMMA AddsToLine ==
  ASSUME Inv, Inv', NEW r, Sound(r), NoIdleSlot(r),
         LineOf(r) = LineOf(rc), r.inListLimit = rc.inListLimit,
         NEW u \in People, NEW a \in Answers, rc' = Add(r, u, a)
  PROVE  [Sheet!Next]_(Sheet!vars)
<1>1. CASE a = "in"
  <2>1. rc' = AddIn(r, u)
    BY <1>1 DEF Add
  <2>2. Full(r) \/ r.waitList = << >>
    BY DEF NoIdleSlot
  <2>3. CASE u \in ToSet(LineOf(rc))
    BY <2>1, <2>3, AddInLine, SameLine
  <2>4. CASE u \notin ToSet(LineOf(rc))
    BY <2>1, <2>2, <2>4, AddInLine, JoinsLine
  <2> QED  BY <2>3, <2>4
<1>2. CASE a = "out"
  <2>1. rc' = AddOut(r, u)
    BY <1>2 DEF Add
  <2> QED  BY <2>1, AddOutLine, LeavesLine
<1>3. CASE a = "maybe"
  <2>1. rc' = AddMaybe(r, u)
    BY <1>3 DEF Add
  <2> QED  BY <2>1, AddMaybeLine, LeavesLine
<1> QED  BY <1>1, <1>2, <1>3 DEF Answers

\* An admin's move: nobody is moved IN past the people who wait.
LEMMA StatusLine ==
  ASSUME Inv, Inv', NEW u \in People, NEW a \in Answers, SetUserStatus(u, a)
  PROVE  [Sheet!Next]_(Sheet!vars)
<1>1. Sound(rc) /\ NoIdleSlot(rc)
  BY DEF Inv
<1>2. PICK q \in Reloads(Without(rc, u)) :
        rc' = Add(SetOwner(q, u, OwnerOf(rc, u)), u, a)
  BY DEF SetUserStatus
<1> DEFINE o == OwnerOf(rc, u)
           r == SetOwner(q, u, o)
<1>3. o \in Owners
  BY <1>1, SoundFields DEF OwnerOf, RollCall, Owners
<1>4. Sound(Without(rc, u)) /\ Sound(q) /\ Sound(r)
  BY <1>1, <1>3, WithoutSound, ReloadSound, SetOwnerSound
<1> HIDE DEF o
<1>5. /\ LineOf(r) = RemoveFirst(LineOf(rc), u) /\ r.inListLimit = rc.inListLimit
      /\ r.waitList = RemoveFirst(rc.waitList, u)
  BY <1>1, <1>4, WithoutLine, ReloadLine, OwnerLine
<1>6. rc' = Add(r, u, a)
  BY <1>2 DEF o
<1> HIDE DEF r
<1>7. /\ LineOf(rc) \in Seq(People) /\ IsInjective(LineOf(rc))
      /\ ToSet(LineOf(rc)) = In(rc) \cup Waiting(rc)
      /\ LineOf(r) \in Seq(People) /\ u \notin ToSet(LineOf(r))
  <2>1. /\ LineOf(rc) \in Seq(People) /\ IsInjective(LineOf(rc))
        /\ ToSet(LineOf(rc)) = In(rc) \cup Waiting(rc) /\ LineOf(r) \in Seq(People)
    BY <1>1, <1>4, LineFacts
  <2>2. ToSet(LineOf(r)) = ToSet(LineOf(rc)) \ {u}
    BY <1>5, <2>1, RemoveFirstFacts
  <2> QED  BY <2>1, <2>2
<1>8. CASE a = "in"
  <2>1. ~Full(rc) /\ u \notin In(rc)
    <3>1. StatusOf(rc, u) # "in" /\ ~Full(rc)
      BY <1>8 DEF SetUserStatus
    <3>2. SUFFICES ASSUME u \in In(rc)  PROVE FALSE
      BY <3>1
    <3>3. u \notin ToSet(rc.outList) /\ u \notin ToSet(rc.maybeList)
      BY <1>1, <3>2, SoundFields DEF Apart, In
    <3> QED  BY <3>1, <3>2, <3>3 DEF StatusOf
  <2>2. rc.waitList = << >>
    BY <1>1, <2>1 DEF NoIdleSlot
  <2>3. u \notin ToSet(LineOf(rc))
    BY <1>7, <2>1, <2>2, EmptyQueue DEF Waiting
  <2>4. LineOf(r) = LineOf(rc)
    BY <1>5, <1>7, <2>3, RemoveFirstAbsent
  <2>5. r.waitList = << >>
    BY <1>5, <2>2, EmptyQueue
  <2> QED  BY <1>4, <1>5, <1>6, <2>4, <2>5, AddsToLine DEF NoIdleSlot
<1>9. CASE a = "out" \/ a = "maybe"
  <2>1. LineOf(rc') = RemoveFirst(LineOf(r), u) /\ rc'.inListLimit = r.inListLimit
    BY <1>4, <1>6, <1>9, AddOutLine, AddMaybeLine DEF Add
  <2>2. RemoveFirst(LineOf(r), u) = LineOf(r)
    BY <1>7, RemoveFirstAbsent
  <2> QED  BY <1>5, <2>1, <2>2, LeavesLine
<1> QED  BY <1>8, <1>9 DEF Answers

\* A verified member's web vote in place of the guest they were: the line
\* loses the guest, and the member takes over, joins, stays or leaves.
LEMMA WebLine ==
  ASSUME Inv, Inv', NEW m \in Members, NEW g \in Guests, NEW a \in Answers,
         WebVote(m, g, a)
  PROVE  [Sheet!Next]_(Sheet!vars)
<1>1. Sound(rc) /\ NoIdleSlot(rc) /\ m \in People /\ g \in People /\ m # g
  BY PeopleAssumption DEF Inv, People
<1>2. PICK q \in Reloads(Without(rc, g)) : rc' = FillWaitlistSlots(Add(q, m, a))
  BY DEF WebVote
<1> DEFINE L == LineOf(rc)
           K == LineOf(q)
<1>3. /\ Sound(q) /\ Sound(Add(q, m, a))
      /\ K = RemoveFirst(L, g) /\ q.inListLimit = rc.inListLimit
      /\ q.inList = RemoveFirst(rc.inList, g) /\ q.waitList = RemoveFirst(rc.waitList, g)
  <2>1. Sound(Without(rc, g)) /\ Sound(q)
    BY <1>1, WithoutSound, ReloadSound
  <2> QED  BY <1>1, <2>1, WithoutLine, ReloadLine, AddSound
<1>4. /\ L \in Seq(People) /\ IsInjective(L) /\ ToSet(L) = In(rc) \cup Waiting(rc)
      /\ K \in Seq(People) /\ ToSet(K) = ToSet(L) \ {g}
  <2>1. /\ L \in Seq(People) /\ IsInjective(L) /\ ToSet(L) = In(rc) \cup Waiting(rc)
        /\ K \in Seq(People)
    BY <1>1, <1>3, LineFacts
  <2>2. ToSet(K) = ToSet(L) \ {g}
    BY <1>3, <2>1, RemoveFirstFacts
  <2> QED  BY <2>1, <2>2
<1>5. LineOf(rc') = LineOf(Add(q, m, a)) /\ rc'.inListLimit = Add(q, m, a).inListLimit
  BY <1>2, <1>3, FillLine
<1>6. /\ Sheet!Line = L /\ \A s : Sheet!ToSet(s) = ToSet(s)
      /\ \A s, u : Sheet!RemoveFirst(s, u) = RemoveFirst(s, u)
  BY DEF Sheet!Line, LineOf, Sheet!ToSet, ToSet, Sheet!RemoveFirst, RemoveFirst,
         Sheet!SelectInSeq, SelectInSeq, Sheet!RemoveAt, RemoveAt, Sheet!Min, Min
<1>7. CASE a = "out" \/ a = "maybe"
  <2>1. LineOf(rc') = RemoveFirst(K, m) /\ rc'.inListLimit = rc.inListLimit
    BY <1>1, <1>3, <1>5, <1>7, AddOutLine, AddMaybeLine DEF Add
  <2>2. CASE g \notin ToSet(L)
    BY <1>1, <1>3, <1>4, <2>1, <2>2, RemoveFirstAbsent, LeavesLine
  <2>3. CASE m \notin ToSet(L)
    BY <1>1, <1>3, <1>4, <2>1, <2>3, RemoveFirstAbsent, LeavesLine
  <2>4. CASE g \in ToSet(L) /\ m \in ToSet(L)
    <3>1. Sheet!Seat(RemoveFirst(RemoveFirst(L, g), m), rc.inListLimit)
      BY <1>3, <2>1, SeatsNext, Zenon
    <3>2. Sheet!LeaveBoth(g, m)
      BY <1>6, <2>4, <3>1 DEF Sheet!LeaveBoth
    <3> QED  BY <1>1, <3>2, Zenon DEF Sheet!Next
  <2> QED  BY <2>2, <2>3, <2>4
<1>8. CASE a = "in"
  <2>1. /\ LineOf(rc') = LineOf(AddIn(q, m)) /\ rc'.inListLimit = rc.inListLimit
        /\ m \in ToSet(K) => LineOf(AddIn(q, m)) = K
        /\ m \notin ToSet(K) =>
             /\ Full(q) \/ q.waitList = << >> => LineOf(AddIn(q, m)) = Append(K, m)
             /\ ~Full(q) => /\ AddIn(q, m).waitList = q.waitList
                            /\ AddIn(q, m).inList = Append(q.inList, m)
    <3>1. Add(q, m, a) = AddIn(q, m)
      BY <1>8 DEF Add
    <3> QED  BY <1>1, <1>3, <1>5, <3>1, AddInLine
  <2>2. CASE m \in ToSet(L)
    BY <1>1, <1>3, <1>4, <2>1, <2>2, LeavesLine
  <2>3. CASE m \notin ToSet(L) /\ g \notin ToSet(L)
    <3>1. K = L /\ q.inList = rc.inList /\ q.waitList = rc.waitList
      <4>1. rc.inList \in Seq(People) /\ rc.waitList \in Seq(People)
        BY <1>1, SoundFields
      <4> QED  BY <1>3, <1>4, <2>3, <4>1, RemoveFirstAbsent DEF In, Waiting
    <3>2. Full(q) \/ q.waitList = << >>
      BY <1>1, <1>3, <3>1 DEF NoIdleSlot, Full, Capped
    <3> QED  BY <1>1, <2>1, <2>3, <3>1, <3>2, JoinsLine
  <2>4. CASE m \notin ToSet(L) /\ g \in Waiting(rc)
    <3>1. g \notin In(rc) /\ rc.inList \in Seq(People) /\ rc.waitList # << >>
      BY <1>1, <2>4, SoundFields, EmptyQueue DEF Apart, In, Waiting
    <3>2. q.inList = rc.inList
      BY <1>3, <3>1, RemoveFirstAbsent DEF In
    <3>3. Full(q)
      BY <1>1, <1>3, <3>1, <3>2 DEF NoIdleSlot, Full, Capped
    <3>4. LineOf(rc') = Append(RemoveFirst(L, g), m)
      BY <1>3, <1>4, <2>1, <2>4, <3>3
    <3>5. Sheet!Seat(Append(RemoveFirst(L, g), m), rc.inListLimit)
      BY <2>1, <3>4, SeatsNext, Zenon
    <3>6. Sheet!Rejoin(g, m)
      BY <1>6, <2>4, <3>5, Zenon DEF Sheet!Rejoin, Waiting
    <3> QED  BY <1>1, <3>6, Zenon DEF Sheet!Next
  <2>5. CASE m \notin ToSet(L) /\ g \in In(rc)
    <3>1. /\ g \notin Waiting(rc) /\ rc.inList \in Seq(People) /\ rc.waitList \in Seq(People)
          /\ IsInjective(rc.inList) /\ Len(rc.inList) \in Nat
          /\ Capped(rc) => rc.inListLimit \in Nat /\ Len(rc.inList) <= rc.inListLimit
      BY <1>1, <2>5, SoundFields DEF Apart, In, Waiting
    <3>2. q.waitList = rc.waitList
      BY <1>3, <3>1, RemoveFirstAbsent DEF Waiting
    <3>3. q.inList \in Seq(People) /\ Len(q.inList) = Len(rc.inList) - 1
      BY <1>3, <2>5, <3>1, RemoveFirstFacts DEF In
    <3>4. ~Full(q)
      BY <1>3, <3>1, <3>3 DEF Full, Capped
    <3>5. LineOf(AddIn(q, m)) = Append(q.inList, m) \o rc.waitList
      BY <1>4, <2>1, <2>5, <3>2, <3>4 DEF LineOf
    <3>6. Append(q.inList, m) = q.inList \o << m >>
      BY <1>1, <3>3, AppendIsConcat
    <3>7. LineOf(rc') = RemoveFirst(rc.inList, g) \o << m >> \o rc.waitList
      BY <1>3, <2>1, <3>5, <3>6, Zenon
    <3>8. Sheet!Seat(RemoveFirst(rc.inList, g) \o << m >> \o rc.waitList, rc.inListLimit)
      BY <2>1, <3>7, SeatsNext, Zenon
    <3>9. Sheet!Replace(g, m)
      BY <1>6, <2>5, <3>8, Zenon DEF Sheet!Replace, In
    <3> QED  BY <1>1, <3>9, Zenon DEF Sheet!Next
  <2> QED  BY <1>4, <2>2, <2>3, <2>4, <2>5
<1> QED  BY <1>7, <1>8 DEF Answers

\* Every step of the rollcall is a step of the sheet or none.
LEMMA StepsOfSheet ==
  ASSUME Inv, Inv', [Next]_rc
  PROVE  [Sheet!Next]_(Sheet!vars)
<1>1. Sound(rc) /\ NoIdleSlot(rc)
  BY DEF Inv
<1>a. \A r, u : /\ Add(r, u, "in") = AddIn(r, u)
                /\ Add(r, u, "out") = AddOut(r, u)
                /\ Add(r, u, "maybe") = AddMaybe(r, u)
  BY DEF Add
<1>b. "in" \in Answers /\ "out" \in Answers /\ "maybe" \in Answers
  BY DEF Answers
<1>2. ASSUME NEW u \in People, NEW a \in Answers, rc' = Add(rc, u, a)
      PROVE  [Sheet!Next]_(Sheet!vars)
  BY <1>1, <1>2, AddsToLine
<1> USE DEF People
<1>3. CASE \E m \in Members : VoteIn(m) \/ VoteOut(m) \/ VoteMaybe(m)
  BY <1>3, <1>a, <1>b, <1>2 DEF VoteIn, VoteOut, VoteMaybe
<1>4. CASE \E g \in Guests, o \in {Admin, Web} : GuestIn(g, o)
  <2>1. PICK g \in Guests, o \in {Admin, Web} : GuestIn(g, o)
    BY <1>4
  <2> DEFINE r == SetOwner(rc, g, o)
  <2>2. g \in People /\ o \in Owners /\ rc' = Add(r, g, "in")
    BY <2>1, <1>a DEF GuestIn, Owners
  <2>3. Sound(r) /\ NoIdleSlot(r)
    BY <1>1, <2>2, SetOwnerSound
  <2>4. LineOf(r) = LineOf(rc) /\ r.inListLimit = rc.inListLimit
    BY <1>1, OwnerLine
  <2> HIDE DEF r
  <2> QED  BY <1>b, <2>2, <2>3, <2>4, AddsToLine
<1>5. CASE \E g \in Guests : GuestOut(g) \/ GuestMaybe(g)
  BY <1>5, <1>a, <1>b, <1>2 DEF GuestOut, GuestMaybe
<1>6. CASE \E n \in Limits : SetLimit(n)
  <2>1. PICK n \in Limits : rc' = SetWaitLimit(rc, n)
    BY <1>6 DEF SetLimit
  <2> DEFINE c == IF n = 0 THEN NoLimit ELSE n
  <2>2. LineOf(rc') = LineOf(rc) /\ rc'.inListLimit = c
    BY <1>1, <2>1, LimitLine
  <2>3. c \in (Limits \ {0}) \cup {NoLimit}
    OBVIOUS
  <2> HIDE DEF c
  <2>4. Sheet!Seat(LineOf(rc), c)
    BY <2>2, SeatsNext, Zenon
  <2>5. Sheet!SetCap(c)
    BY <2>4, Zenon DEF Sheet!SetCap, Sheet!Line, LineOf
  <2> QED  BY <2>3, <2>5, Zenon DEF Sheet!Next
<1>7. CASE \E u \in People : DeleteUser(u)
  <2>0. PICK u \in People : DeleteUser(u)
    BY <1>7
  <2>1. PICK q \in Reloads(Without(rc, u)) : rc' = FillWaitlistSlots(q)
    BY <2>0 DEF DeleteUser
  <2>2. Sound(Without(rc, u)) /\ Sound(q)
    BY <1>1, WithoutSound, ReloadSound
  <2>3. LineOf(rc') = RemoveFirst(LineOf(rc), u) /\ rc'.inListLimit = rc.inListLimit
    BY <1>1, <2>1, <2>2, WithoutLine, ReloadLine, FillLine
  <2> QED  BY <2>3, LeavesLine
<1>8. CASE \E u \in People, a \in Answers : SetUserStatus(u, a)
  BY <1>8, StatusLine
<1>9. CASE \E m \in Members, g \in Guests, a \in Answers : WebVote(m, g, a)
  BY <1>9, WebLine
<1>10. CASE Restart
  BY <1>1, <1>10, ReloadLine, SameLine DEF Restart
<1>11. CASE UNCHANGED rc
  BY <1>11, SameLine
<1> QED  BY <1>3, <1>4, <1>5, <1>6, <1>7, <1>8, <1>9, <1>10, <1>11 DEF Next

\* For any members, guests and caps, IN and WAITING are a fair sign-up
\* sheet: every vote, deletion, move, cap change, web vote and restart joins,
\* leaves or re-cuts the line, and never reorders it (common.fill_waitlist_slots,
\* settings.set_wait_limit, models.addIn/addOut/addMaybe).
THEOREM ImplementsSheet == Spec => FairLine
<1>1. Init => Sheet!Init
  BY DEF Init, NewRollCall, Sheet!Init
<1>2. Inv /\ Inv' /\ [Next]_rc => [Sheet!Next]_(Sheet!vars)
  BY StepsOfSheet
<1> QED  BY <1>1, <1>2, Invariance, PTL DEF Spec, FairLine, Sheet!Spec

(***************************************************************************)
(* A rollcall over its tables.  First the pieces: what Among picks, lists  *)
(* put in order, the tables and their columns, one write, a saved list.    *)
(***************************************************************************)
\* What Among picks from the first places of a list.
FoundIn(s, S) ==
  CHOOSE found : found = [i \in 0..Len(s) |->
    IF i = 0 THEN << >>
    ELSE IF s[i] \in S THEN Append(found[i - 1], s[i]) ELSE found[i - 1]]

LEMMA FoundStep ==
  ASSUME NEW P, NEW s \in Seq(P), NEW S
  PROVE  /\ FoundIn(s, S)[0] = << >>
         /\ \A i \in 1..Len(s) :
              FoundIn(s, S)[i] = IF s[i] \in S THEN Append(FoundIn(s, S)[i - 1], s[i])
                                               ELSE FoundIn(s, S)[i - 1]
<1> DEFINE step == [p \in (1..Len(s)) \X Seq(P) |->
                      IF s[p[1]] \in S THEN Append(p[2], s[p[1]]) ELSE p[2]]
           F(found) == [i \in 0..Len(s) |->
             IF i = 0 THEN << >>
             ELSE IF s[i] \in S THEN Append(found[i - 1], s[i]) ELSE found[i - 1]]
<1>1. step \in [(1..Len(s)) \X Seq(P) -> Seq(P)]
  <2>1. ASSUME NEW p \in (1..Len(s)) \X Seq(P)
        PROVE  (IF s[p[1]] \in S THEN Append(p[2], s[p[1]]) ELSE p[2]) \in Seq(P)
    <3>1. p[1] \in 1..Len(s) /\ p[2] \in Seq(P) /\ s[p[1]] \in P
      OBVIOUS
    <3> QED  BY <3>1
  <2> QED  BY <2>1
<1>2. Len(s) \in Nat /\ << >> \in Seq(P)
  OBVIOUS
<1>3. PICK f : Stepwise(f, Seq(P), Len(s), << >>, step)
  <2> HIDE DEF step
  <2> QED  BY <1>1, <1>2, Recursion
<1>9. /\ f \in [0..Len(s) -> Seq(P)] /\ f[0] = << >>
      /\ \A k \in 1..Len(s) : f[k] = step[<<k, f[k - 1]>>]
  BY <1>3 DEF Stepwise
<1>4. ASSUME NEW i \in 1..Len(s)
      PROVE  f[i] = IF s[i] \in S THEN Append(f[i - 1], s[i]) ELSE f[i - 1]
  <2>1. f[i - 1] \in Seq(P)
    BY <1>2, <1>9
  <2>2. step[<<i, f[i - 1]>>] = IF s[i] \in S THEN Append(f[i - 1], s[i]) ELSE f[i - 1]
    BY <2>1
  <2> QED  BY <1>9, <2>2
<1> HIDE DEF step
<1>5. f = F(f)
  <2>1. F(f) \in [0..Len(s) -> Seq(P)]
    <3>1. ASSUME NEW i \in 1..Len(s)
          PROVE  (IF s[i] \in S THEN Append(f[i - 1], s[i]) ELSE f[i - 1]) \in Seq(P)
      <4>1. f[i] \in Seq(P)
        BY <1>2, <1>9
      <4> QED  BY <1>4, <4>1
    <3>2. \A i \in 0..Len(s) : i # 0 => i \in 1..Len(s)
      BY <1>2
    <3> QED  BY <1>2, <3>1, <3>2
  <2>2. ASSUME NEW i \in 0..Len(s) PROVE f[i] = F(f)[i]
    <3>1. i = 0 \/ i \in 1..Len(s)
      BY <1>2
    <3> QED  BY <1>9, <1>4, <3>1
  <2>3. f \in [0..Len(s) -> Seq(P)]
    BY <1>9
  <2> DEFINE h == F(f)
  <2>4. h \in [0..Len(s) -> Seq(P)] /\ \A i \in 0..Len(s) : f[i] = h[i]
    BY <2>1, <2>2
  <2> HIDE DEF h, F
  <2>5. f = h
    BY <2>3, <2>4
  <2> QED  BY <2>5 DEF h
<1> DEFINE c == FoundIn(s, S)
<1>6. c = F(c)
  BY <1>5 DEF FoundIn
<1> HIDE DEF c
<1>7. c[0] = << >> /\ \A i \in 1..Len(s) :
        c[i] = IF s[i] \in S THEN Append(c[i - 1], s[i]) ELSE c[i - 1]
  <2>1. 0 \in 0..Len(s) /\ \A i \in 1..Len(s) : i \in 0..Len(s) /\ i # 0
    BY <1>2
  <2>2. \A i \in 0..Len(s) : c[i] = F(c)[i]
    BY <1>6
  <2> QED  BY <2>1, <2>2
<1> QED  BY <1>7 DEF c

\* Among picks the members of S from a list and keeps their order.
LEMMA AmongFacts ==
  ASSUME NEW P, NEW s \in Seq(P), IsInjective(s), NEW S
  PROVE  /\ Among(s, S) \in Seq(P) /\ IsInjective(Among(s, S))
         /\ ToSet(Among(s, S)) = ToSet(s) \cap S
         /\ \A R : Ordered(s, R) => Ordered(Among(s, S), R)
<1> DEFINE f == FoundIn(s, S)
           E == {<<s[p[1]], s[p[2]]>> : p \in {q \in (1..Len(s)) \X (1..Len(s)) : q[1] < q[2]}}
<1>0. Len(s) \in Nat /\ \A i \in 1..Len(s) : s[i] \in P
  BY ElementOfSeq
<1>1. Among(s, S) = f[Len(s)]
  BY DEF Among, FoundIn
<1>2. f[0] = << >> /\ \A i \in 1..Len(s) :
        f[i] = IF s[i] \in S THEN Append(f[i - 1], s[i]) ELSE f[i - 1]
  BY FoundStep
<1>3. \A i, j \in 1..Len(s) : i < j => <<s[i], s[j]>> \in E
  <2> SUFFICES ASSUME NEW i \in 1..Len(s), NEW j \in 1..Len(s), i < j PROVE <<s[i], s[j]>> \in E
    OBVIOUS
  <2>1. <<i, j>> \in {q \in (1..Len(s)) \X (1..Len(s)) : q[1] < q[2]}
    OBVIOUS
  <2> QED  BY <2>1
<1>4. OneWay(E)
  <2>1. ASSUME NEW x, NEW y, <<x, y>> \in E, <<y, x>> \in E PROVE FALSE
    <3>1. PICK p \in {q \in (1..Len(s)) \X (1..Len(s)) : q[1] < q[2]} : <<x, y>> = <<s[p[1]], s[p[2]]>>
      BY <2>1
    <3>2. PICK r \in {q \in (1..Len(s)) \X (1..Len(s)) : q[1] < q[2]} : <<y, x>> = <<s[r[1]], s[r[2]]>>
      BY <2>1
    <3>3. p[1] = r[2] /\ p[2] = r[1]
      BY <3>1, <3>2, InjectiveElements
    <3> QED  BY <3>1, <3>2, <3>3
  <2> QED  BY <2>1 DEF OneWay
<1>5. ASSUME NEW x, NEW y, <<x, y>> \in E
      PROVE \E i, j \in 1..Len(s) : i < j /\ x = s[i] /\ y = s[j]
  BY <1>5
<1> HIDE DEF f, E
<1> DEFINE Upto(i) == {s[j] : j \in 1..i}
           good == {i \in 0..Len(s) : /\ f[i] \in Seq(P)
                                      /\ ToSet(f[i]) = Upto(i) \cap S
                                      /\ Ordered(f[i], E)}
<1>6. 0 \in good
  <2>1. << >> \in Seq(P) /\ ToSet(<< >>) = {} /\ Ordered(<< >>, E) /\ Upto(0) = {}
    BY DEF ToSet, Ordered
  <2>2. f[0] = << >> /\ 0 \in 0..Len(s)
    BY <1>0, <1>2
  <2>3. f[0] \in Seq(P) /\ ToSet(f[0]) = Upto(0) \cap S /\ Ordered(f[0], E)
    BY <2>1, <2>2
  <2> QED  BY <2>2, <2>3
<1>7. ASSUME NEW i \in 1..Len(s), i - 1 \in good PROVE i \in good
  <2>1. Upto(i) = Upto(i - 1) \cup {s[i]}
    <3>1. \A j \in 1..i : j = i \/ j \in 1..(i - 1)
      BY <1>0
    <3>2. \A j \in 1..(i - 1) : j \in 1..i
      BY <1>0
    <3>3. i \in 1..i
      BY <1>0
    <3> QED  BY <3>1, <3>2, <3>3
  <2>2. i \in 0..Len(s) /\ s[i] \in P
    BY <1>0
  <2>3. ASSUME NEW x \in Upto(i - 1) PROVE <<x, s[i]>> \in E
    <3>1. PICK j \in 1..(i - 1) : s[j] = x
      OBVIOUS
    <3>2. j \in 1..Len(s) /\ j < i
      BY <1>0
    <3> QED  BY <1>3, <3>1, <3>2
  <2> DEFINE g == f[i - 1]
             U == Upto(i - 1)
  <2>4. g \in Seq(P) /\ ToSet(g) = U \cap S /\ Ordered(g, E)
    BY <1>7
  <2> HIDE DEF g, U
  <2>5. CASE s[i] \in S
    <3>1. f[i] = Append(g, s[i])
      BY <1>2, <2>5 DEF g
    <3>2. \A x \in ToSet(g) : <<x, s[i]>> \in E
      BY <2>3, <2>4 DEF U
    <3>3. Append(g, s[i]) \in Seq(P) /\ Ordered(Append(g, s[i]), E)
      BY <2>2, <2>4, <3>2, OrderedAppend
    <3>4. IsInjective(g)
      BY <1>4, <2>4, OrderedInjective
    <3>5. s[i] \notin ToSet(g)
      BY <1>4, <3>2 DEF OneWay
    <3>6. ToSet(Append(g, s[i])) = ToSet(g) \cup {s[i]}
      BY <2>2, <2>4, <3>4, <3>5, AppendFacts
    <3>7. ToSet(f[i]) = (U \cup {s[i]}) \cap S
      BY <2>4, <2>5, <3>1, <3>6
    <3> QED  BY <2>1, <2>2, <3>1, <3>3, <3>7 DEF U
  <2>6. CASE s[i] \notin S
    <3>1. f[i] = g
      BY <1>2, <2>6 DEF g
    <3>2. ToSet(f[i]) = (U \cup {s[i]}) \cap S
      BY <2>4, <2>6, <3>1
    <3> QED  BY <2>1, <2>2, <2>4, <3>1, <3>2 DEF U
  <2> QED  BY <2>5, <2>6
<1> HIDE DEF good
<1>8. Len(s) \in good
  <2>1. \A k \in 0..Len(s) : k \in good
    BY <1>0, <1>6, <1>7, Upwards
  <2> QED  BY <1>0, <2>1
<1>9. /\ f[Len(s)] \in Seq(P) /\ ToSet(f[Len(s)]) = ToSet(s) \cap S /\ Ordered(f[Len(s)], E)
  <2>1. Upto(Len(s)) = ToSet(s)
    BY DEF ToSet
  <2> QED  BY <1>8, <2>1 DEF good
<1>10. IsInjective(f[Len(s)])
  BY <1>4, <1>9, OrderedInjective
<1>11. ASSUME NEW R, Ordered(s, R) PROVE Ordered(f[Len(s)], R)
  <2>1. \A x, y : <<x, y>> \in E => <<x, y>> \in R
    BY <1>5, <1>11 DEF Ordered
  <2> QED  BY <1>9, <2>1, OrderedSame
<1> QED  BY <1>1, <1>9, <1>10, <1>11

(***************************************************************************)
(* The tables.                                                             *)
(***************************************************************************)
Tables == [rows : [People -> Row \cup {NoRow}], born : Seq(People), limit : Limits \cup {NoLimit}]

Written(d) == {u \in People : HasRow(d, u)}

\* One row per person, a position in the bucket it is in and in no other.
Table(d) ==
  /\ d \in Tables
  /\ IsInjective(d.born) /\ ToSet(d.born) = Written(d)
  /\ \A u \in Written(d), c \in Columns : d.rows[u].pos[c] # 0 <=> d.rows[u].status = c

\* Where a person stands in a bucket, or 0.
At(d, c) == [u \in People |-> IF HasRow(d, u) THEN d.rows[u].pos[c] ELSE 0]
Ahead(d, c) == {p \in People \X People : At(d, c)[p[1]] < At(d, c)[p[2]]}

\* What readable tables hold.
LEMMA TableFacts ==
  ASSUME NEW d, Table(d)
  PROVE  /\ d.rows \in [People -> Row \cup {NoRow}] /\ d.born \in Seq(People)
         /\ d.limit \in Limits \cup {NoLimit}
         /\ \A u \in Written(d) : /\ u \in People /\ HasRow(d, u) /\ d.rows[u] \in Row
                                  /\ d.rows[u].status \in Answers \cup {"waitlist"}
                                  /\ d.rows[u].owner \in Owners
                                  /\ d.rows[u].pos \in [Columns -> Nat]
         /\ IsFiniteSet(Written(d))
<1>1. d \in Tables
  BY DEF Table
<1>2. /\ d.rows \in [People -> Row \cup {NoRow}] /\ d.born \in Seq(People)
      /\ d.limit \in Limits \cup {NoLimit}
  BY <1>1 DEF Tables
<1>3. ASSUME NEW u \in Written(d)
      PROVE  /\ u \in People /\ HasRow(d, u) /\ d.rows[u] \in Row
             /\ d.rows[u].status \in Answers \cup {"waitlist"}
             /\ d.rows[u].owner \in Owners
             /\ d.rows[u].pos \in [Columns -> Nat]
  <2>1. u \in People /\ d.rows[u] # NoRow
    BY DEF Written, HasRow
  <2>2. d.rows[u] \in Row
    BY <1>2, <2>1
  <2> QED  BY <2>1, <2>2 DEF Row, HasRow
<1>4. IsFiniteSet(Written(d))
  <2>1. d.born \in Seq(Written(d))
    <3>1. DOMAIN d.born = 1..Len(d.born) /\ Len(d.born) \in Nat /\ ToSet(d.born) = Written(d)
      BY <1>2 DEF Table
    <3>2. \A i \in 1..Len(d.born) : d.born[i] \in Written(d)
      BY <3>1 DEF ToSet
    <3> QED  BY <1>2, <3>1, <3>2
  <2>2. IsInjective(d.born) /\ ToSet(d.born) = Written(d)
    BY DEF Table
  <2> QED  BY <2>1, <2>2, IsListing
<1> QED  BY <1>2, <1>3, <1>4

\* What a column holds, and of whom.
LEMMA AtFacts ==
  ASSUME NEW d, Table(d), NEW c \in Columns
  PROVE  /\ At(d, c) \in [People -> Nat]
         /\ \A u \in People : At(d, c)[u] # 0 <=> u \in RowsWith(d, c)
         /\ \A u \in Written(d) : At(d, c)[u] = d.rows[u].pos[c]
         /\ OneWay(Ahead(d, c))
<1>1. ASSUME NEW u \in People
      PROVE  /\ At(d, c)[u] \in Nat
             /\ At(d, c)[u] # 0 <=> u \in RowsWith(d, c)
  <2>1. CASE HasRow(d, u)
    <3>1. u \in Written(d) /\ d.rows[u].pos \in [Columns -> Nat]
      BY <2>1, TableFacts DEF Written
    <3>2. d.rows[u].pos[c] # 0 <=> d.rows[u].status = c
      BY <3>1 DEF Table
    <3> QED  BY <2>1, <3>1, <3>2 DEF At, RowsWith
  <2>2. CASE ~HasRow(d, u)
    BY <2>2 DEF At, RowsWith
  <2> QED  BY <2>1, <2>2
<1>2. At(d, c) \in [People -> Nat]
  BY <1>1 DEF At
<1>3. OneWay(Ahead(d, c))
  BY <1>2 DEF OneWay, Ahead
<1> QED  BY <1>1, <1>2, <1>3 DEF At, Written

\* The next position is behind everybody in the bucket.
LEMMA NextPosFacts ==
  ASSUME NEW d, Table(d), NEW c \in Columns
  PROVE  /\ NextPos(d, c) \in Nat /\ NextPos(d, c) # 0
         /\ \A u \in People : At(d, c)[u] < NextPos(d, c)
<1> DEFINE U == RowsWith(d, c)
           T == {At(d, c)[u] : u \in U}
           M == {0} \cup T
           N == {0} \cup {d.rows[u].pos[c] : u \in U}
<1>1. At(d, c) \in [People -> Nat] /\ \A u \in People : At(d, c)[u] # 0 <=> u \in U
  BY AtFacts
<1>2. U \subseteq Written(d)
  BY DEF RowsWith, Written
<1>3. IsFiniteSet(U)
  BY <1>2, TableFacts, FS_Subset
<1>4. N = M
  <2>1. \A u \in U : At(d, c)[u] = d.rows[u].pos[c]
    BY <1>2, AtFacts
  <2> QED  BY <2>1
<1>5. IsFiniteSet(T)
  <2> DEFINE f == At(d, c)
  <2> HIDE DEF f, U
  <2>1. IsFiniteSet({f[u] : u \in U})
    BY <1>3, FiniteImage
  <2> QED  BY <2>1 DEF f
<1>6. M \in SUBSET Nat /\ M # {} /\ IsFiniteSet(M)
  <2>1. U \subseteq People
    BY DEF RowsWith
  <2>2. T \subseteq Nat
    BY <1>1, <2>1
  <2>3. IsFiniteSet(T \cup {0})
    <3> HIDE DEF T
    <3> QED  BY <1>5, FS_AddElement
  <2>4. T \cup {0} = M
    OBVIOUS
  <2> QED  BY <2>2, <2>3, <2>4
<1>7. Max(M) \in M /\ \A m \in M : m <= Max(M)
  <2> HIDE DEF M
  <2>1. PICK n \in M : \A m \in M : m <= n
    BY <1>6, Largest
  <2>2. n \in Nat
    BY <1>6
  <2> QED  BY <1>6, <2>1, <2>2, MaxFacts
<1>8. NextPos(d, c) = 1 + Max(M)
  BY <1>4 DEF NextPos
<1>9. Max(M) \in Nat
  BY <1>6, <1>7
<1>10. ASSUME NEW u \in People PROVE At(d, c)[u] <= Max(M)
  <2>1. At(d, c)[u] \in M
    BY <1>1
  <2> HIDE DEF M
  <2> QED  BY <1>7, <2>1
<1> HIDE DEF M
<1> QED  BY <1>1, <1>8, <1>9, <1>10

Statuses == Answers \cup {"waitlist"}

\* One row is written: its bucket and place change, nobody else's.
LEMMA WriteRowFacts ==
  ASSUME NEW d, Table(d), NEW u \in People, NEW answer \in Statuses, NEW owner \in Owners
  PROVE  LET e == WriteRow(d, u, answer, owner)
         IN  /\ Table(e) /\ e.limit = d.limit
             /\ Written(e) = Written(d) \cup {u}
             /\ \A v \in People \ {u} : e.rows[v] = d.rows[v]
             /\ e.rows[u].status = answer /\ e.rows[u].owner = owner
             /\ \A c \in Columns :
                  /\ \A v \in People \ {u} : At(e, c)[v] = At(d, c)[v]
                  /\ At(e, c)[u] = IF c # answer THEN 0
                                   ELSE IF At(d, c)[u] # 0 THEN At(d, c)[u] ELSE NextPos(d, c)
<1> DEFINE new == [status |-> answer, owner |-> owner,
                   pos |-> [c \in Columns |-> NewPos(d, u, answer, c)]]
           e == WriteRow(d, u, answer, owner)
           born == IF HasRow(d, u) THEN d.born ELSE Append(d.born, u)
<1>1. ASSUME NEW c \in Columns
      PROVE  NewPos(d, u, answer, c) = IF c # answer THEN 0
                ELSE IF At(d, c)[u] # 0 THEN At(d, c)[u] ELSE NextPos(d, c)
  <2>1. CASE HasRow(d, u)
    <3>1. u \in Written(d) /\ d.rows[u].pos \in [Columns -> Nat]
      BY <2>1, TableFacts DEF Written
    <3>2. d.rows[u].pos[c] # 0 <=> d.rows[u].status = c
      BY <3>1 DEF Table
    <3>3. At(d, c)[u] = d.rows[u].pos[c]
      BY <2>1 DEF At
    <3> QED  BY <2>1, <3>2, <3>3 DEF NewPos
  <2>2. CASE ~HasRow(d, u)
    <3>1. At(d, c)[u] = 0
      BY <2>2 DEF At
    <3> QED  BY <2>2, <3>1 DEF NewPos
  <2> QED  BY <2>1, <2>2
<1>2. ASSUME NEW c \in Columns
      PROVE  /\ NewPos(d, u, answer, c) \in Nat
             /\ NewPos(d, u, answer, c) # 0 <=> answer = c
  <2>1. At(d, c)[u] \in Nat /\ NextPos(d, c) \in Nat /\ NextPos(d, c) # 0
    BY AtFacts, NextPosFacts
  <2> QED  BY <1>1, <2>1
<1>3. new \in Row /\ new # NoRow
  <2>1. new.pos \in [Columns -> Nat]
    BY <1>2
  <2>2. new \in Row
    BY <2>1 DEF Row, Statuses
  <2> QED  BY <2>2, RowAssumption
<1>4. /\ d \in Tables /\ d.rows \in [People -> Row \cup {NoRow}] /\ d.born \in Seq(People)
      /\ IsInjective(d.born) /\ ToSet(d.born) = Written(d)
  BY TableFacts DEF Table
<1>5. e = [rows |-> [d.rows EXCEPT ![u] = new], born |-> born, limit |-> d.limit]
  <2>1. e = [d EXCEPT !.rows[u] = new, !.born = born]
    BY DEF WriteRow
  <2> HIDE DEF e, new, born
  <2> QED  BY <1>4, <2>1 DEF Tables
<1> HIDE DEF e
<1>6. /\ \A v \in People \ {u} : e.rows[v] = d.rows[v] /\ (HasRow(e, v) <=> HasRow(d, v))
      /\ e.rows[u] = new /\ HasRow(e, u)
      /\ e.limit = d.limit /\ e.born = born
  <2>1. e.rows = [d.rows EXCEPT ![u] = new]
    BY <1>5
  <2> HIDE DEF new
  <2> QED  BY <1>3, <1>4, <1>5, <2>1 DEF HasRow
<1>7. Written(e) = Written(d) \cup {u}
  BY <1>6 DEF Written
<1>8. born \in Seq(People) /\ IsInjective(born) /\ ToSet(born) = Written(e)
  <2>1. CASE HasRow(d, u)
    BY <1>4, <1>7, <2>1 DEF Written
  <2>2. CASE ~HasRow(d, u)
    <3>1. u \notin ToSet(d.born)
      BY <1>4, <2>2 DEF Written
    <3>2. /\ Append(d.born, u) \in Seq(People) /\ IsInjective(Append(d.born, u))
          /\ ToSet(Append(d.born, u)) = ToSet(d.born) \cup {u}
      <4> DEFINE s == d.born
      <4>1. s \in Seq(People) /\ IsInjective(s) /\ u \notin ToSet(s)
        BY <1>4, <3>1
      <4> HIDE DEF s
      <4>2. /\ Append(s, u) \in Seq(People) /\ IsInjective(Append(s, u))
            /\ ToSet(Append(s, u)) = ToSet(s) \cup {u}
        BY <4>1, AppendFacts
      <4> QED  BY <4>2 DEF s
    <3> QED  BY <1>4, <1>7, <2>2, <3>2
  <2> QED  BY <2>1, <2>2
<1>9. e \in Tables
  <2> HIDE DEF new, born
  <2>1. [d.rows EXCEPT ![u] = new] \in [People -> Row \cup {NoRow}]
    BY <1>3, <1>4
  <2>2. d.limit \in Limits \cup {NoLimit}
    BY TableFacts
  <2> QED  BY <1>5, <1>8, <2>1, <2>2 DEF Tables
<1>10. ASSUME NEW v \in Written(e), NEW c \in Columns
       PROVE  e.rows[v].pos[c] # 0 <=> e.rows[v].status = c
  <2>1. CASE v = u
    BY <1>2, <1>6, <2>1
  <2>2. CASE v # u
    <3>1. v \in Written(d) /\ v \in People \ {u}
      BY <1>7, <2>2 DEF Written
    <3>2. e.rows[v] = d.rows[v]
      BY <1>6, <3>1
    <3>3. d.rows[v].pos[c] # 0 <=> d.rows[v].status = c
      BY <3>1 DEF Table
    <3> QED  BY <3>2, <3>3
  <2> QED  BY <2>1, <2>2
<1>11. Table(e)
  <2>1. IsInjective(e.born) /\ ToSet(e.born) = Written(e)
    BY <1>6, <1>8
  <2> QED  BY <1>9, <1>10, <2>1 DEF Table
<1>12. ASSUME NEW c \in Columns
       PROVE  /\ \A v \in People \ {u} : At(e, c)[v] = At(d, c)[v]
              /\ At(e, c)[u] = IF c # answer THEN 0
                               ELSE IF At(d, c)[u] # 0 THEN At(d, c)[u] ELSE NextPos(d, c)
  <2>1. ASSUME NEW v \in People \ {u} PROVE At(e, c)[v] = At(d, c)[v]
    <3>1. e.rows[v] = d.rows[v] /\ (HasRow(e, v) <=> HasRow(d, v))
      BY <1>6
    <3> QED  BY <3>1 DEF At
  <2>2. At(e, c)[u] = new.pos[c]
    BY <1>6 DEF At
  <2>3. new.pos[c] = NewPos(d, u, answer, c)
    OBVIOUS
  <2> QED  BY <1>1, <2>1, <2>2, <2>3
<1>13. e.rows[u].status = answer /\ e.rows[u].owner = owner
  BY <1>6
<1> HIDE DEF new
<1> QED  BY <1>6, <1>7, <1>11, <1>12, <1>13 DEF e

\* No two people in a bucket have one position; who waits waits for a cap.
Distinct(d) ==
  \A c \in Columns, u, v \in People :
    At(d, c)[u] = At(d, c)[v] /\ At(d, c)[u] # 0 => u = v

WaitsForCap(d) == RowsWith(d, "waitlist") # {} => d.limit # NoLimit

Tidy(d) == Table(d) /\ Distinct(d) /\ WaitsForCap(d)

\* A written row leaves the tables tidy.
LEMMA WriteKeepsTidy ==
  ASSUME NEW d, Tidy(d), NEW u \in People, NEW answer \in Statuses, NEW owner \in Owners,
         answer = "waitlist" => d.limit # NoLimit
  PROVE  Tidy(WriteRow(d, u, answer, owner))
<1> DEFINE e == WriteRow(d, u, answer, owner)
<1>1. /\ Table(d) /\ Table(e) /\ e.limit = d.limit
      /\ \A v \in People \ {u} : e.rows[v] = d.rows[v]
      /\ e.rows[u].status = answer
      /\ \A c \in Columns :
           /\ \A v \in People \ {u} : At(e, c)[v] = At(d, c)[v]
           /\ At(e, c)[u] = IF c # answer THEN 0
                            ELSE IF At(d, c)[u] # 0 THEN At(d, c)[u] ELSE NextPos(d, c)
  BY WriteRowFacts DEF Tidy
<1> HIDE DEF e
<1>2. ASSUME NEW c \in Columns, NEW v \in People, NEW w \in People,
             At(e, c)[v] = At(e, c)[w], At(e, c)[v] # 0
      PROVE  v = w
  <2>1. /\ At(d, c) \in [People -> Nat]
        /\ \A x \in People : At(d, c)[x] < NextPos(d, c)
    BY <1>1, AtFacts, NextPosFacts
  <2>2. \A x, y \in People : At(d, c)[x] = At(d, c)[y] /\ At(d, c)[x] # 0 => x = y
    BY DEF Tidy, Distinct
  <2>3. \A x \in People \ {u} : At(e, c)[x] = At(d, c)[x]
    BY <1>1
  <2>4. At(e, c)[u] = 0 \/ At(e, c)[u] = At(d, c)[u] \/ At(e, c)[u] = NextPos(d, c)
    BY <1>1
  <2>5. \A x \in People : NextPos(d, c) # At(d, c)[x]
    BY <2>1
  <2>6. CASE v # u /\ w # u
    BY <1>2, <2>2, <2>3, <2>6
  <2>7. ASSUME NEW x \in People \ {u}, At(e, c)[x] = At(e, c)[u], At(e, c)[u] # 0 PROVE FALSE
    BY <2>2, <2>3, <2>4, <2>5, <2>7
  <2> QED  BY <1>2, <2>6, <2>7
<1>3. WaitsForCap(e)
  <2>1. \A v \in RowsWith(e, "waitlist") : v = u \/ v \in RowsWith(d, "waitlist")
    BY <1>1 DEF RowsWith, HasRow
  <2>2. u \in RowsWith(e, "waitlist") => answer = "waitlist"
    BY <1>1 DEF RowsWith
  <2> QED  BY <1>1, <2>1, <2>2 DEF WaitsForCap, Tidy
<1> QED  BY <1>1, <1>2, <1>3 DEF Tidy, Distinct, e

\* A list is the rows of its bucket, by position.
InOrder(d, c, s) == s \in Seq(People) /\ ToSet(s) = RowsWith(d, c) /\ Ordered(s, Ahead(d, c))

\* Whoever ordered s by d still stands in that order in e.
LEMMA StillInOrder ==
  ASSUME NEW d, NEW e, NEW c \in Columns, NEW s \in Seq(People), Ordered(s, Ahead(d, c)),
         \A u \in ToSet(s) : At(e, c)[u] = At(d, c)[u]
  PROVE  Ordered(s, Ahead(e, c))
<1>1. ASSUME NEW x \in ToSet(s), NEW y \in ToSet(s), <<x, y>> \in Ahead(d, c)
      PROVE  <<x, y>> \in Ahead(e, c)
  BY <1>1 DEF Ahead
<1> QED  BY <1>1, OrderedSame

\* A list that follows a column is in it whole, each person once.
LEMMA InOrderFacts ==
  ASSUME NEW d, Table(d), NEW c \in Columns, NEW s, InOrder(d, c, s)
  PROVE  s \in Seq(People) /\ IsInjective(s) /\ ToSet(s) = RowsWith(d, c) /\ Ordered(s, Ahead(d, c))
<1>1. OneWay(Ahead(d, c))
  BY AtFacts
<1> QED  BY <1>1, OrderedInjective DEF InOrder

LEMMA InOrderOnce ==
  ASSUME NEW d, Table(d), NEW c \in Columns, NEW s, NEW t, InOrder(d, c, s), InOrder(d, c, t)
  PROVE  s = t
<1>1. OneWay(Ahead(d, c))
  BY AtFacts
<1> QED  BY <1>1, OrderedUnique DEF InOrder

\* Who is in which bucket after a write.
LEMMA WriteBuckets ==
  ASSUME NEW d, Table(d), NEW u \in People, NEW answer \in Statuses, NEW owner \in Owners,
         NEW c \in Statuses
  PROVE  RowsWith(WriteRow(d, u, answer, owner), c) =
           IF c = answer THEN RowsWith(d, c) \cup {u} ELSE RowsWith(d, c) \ {u}
<1> DEFINE e == WriteRow(d, u, answer, owner)
<1>1. /\ \A v \in People \ {u} : e.rows[v] = d.rows[v]
      /\ e.rows[u].status = answer
      /\ Written(e) = Written(d) \cup {u}
  BY WriteRowFacts
<1> HIDE DEF e
<1>2. u \in RowsWith(e, c) <=> c = answer
  BY <1>1 DEF RowsWith, Written
<1>3. \A v \in People \ {u} : v \in RowsWith(e, c) <=> v \in RowsWith(d, c)
  BY <1>1 DEF RowsWith, HasRow
<1>4. RowsWith(e, c) \subseteq People /\ RowsWith(d, c) \subseteq People
  BY DEF RowsWith
<1> QED  BY <1>2, <1>3, <1>4 DEF e

\* A bucket's list after a write: whoever leaves it is taken out, whoever
\* enters it goes to the end.
LEMMA WriteMoves ==
  ASSUME NEW d, Table(d), NEW u \in People, NEW answer \in Statuses, NEW owner \in Owners,
         NEW c \in Columns, NEW s, InOrder(d, c, s)
  PROVE  LET e == WriteRow(d, u, answer, owner)
         IN  /\ c # answer => InOrder(e, c, RemoveFirst(s, u))
             /\ c = answer /\ u \in ToSet(s) => InOrder(e, c, s)
             /\ c = answer /\ u \notin ToSet(s) => InOrder(e, c, Append(s, u))
<1> DEFINE e == WriteRow(d, u, answer, owner)
<1>1. /\ \A v \in People \ {u} : At(e, c)[v] = At(d, c)[v]
      /\ At(e, c)[u] = IF c # answer THEN 0
                       ELSE IF At(d, c)[u] # 0 THEN At(d, c)[u] ELSE NextPos(d, c)
  BY WriteRowFacts
<1>2. RowsWith(e, c) = IF c = answer THEN RowsWith(d, c) \cup {u} ELSE RowsWith(d, c) \ {u}
  <2>1. c \in Statuses
    BY DEF Columns, Statuses, Answers
  <2> QED  BY <2>1, WriteBuckets
<1> HIDE DEF e
<1>3. s \in Seq(People) /\ IsInjective(s) /\ ToSet(s) = RowsWith(d, c) /\ Ordered(s, Ahead(d, c))
  BY InOrderFacts
<1>4. ToSet(s) \subseteq People
  BY <1>3 DEF RowsWith
<1>5. CASE c # answer
  <2> DEFINE t == RemoveFirst(s, u)
  <2>1. t \in Seq(People) /\ ToSet(t) = ToSet(s) \ {u} /\ Ordered(t, Ahead(d, c))
    BY <1>3, RemoveFirstFacts, OrderedRemove
  <2> HIDE DEF t
  <2>2. \A v \in ToSet(t) : At(e, c)[v] = At(d, c)[v]
    BY <1>1, <1>4, <2>1
  <2>3. Ordered(t, Ahead(e, c))
    BY <2>1, <2>2, StillInOrder
  <2> QED  BY <1>2, <1>3, <1>5, <2>1, <2>3 DEF InOrder, t, e
<1>6. CASE c = answer /\ u \in ToSet(s)
  <2>1. At(d, c)[u] # 0
    BY <1>3, <1>6, AtFacts
  <2>2. \A v \in ToSet(s) : At(e, c)[v] = At(d, c)[v]
    BY <1>1, <1>4, <1>6, <2>1
  <2>3. Ordered(s, Ahead(e, c))
    BY <1>3, <2>2, StillInOrder
  <2> QED  BY <1>2, <1>3, <1>6, <2>3 DEF InOrder, e
<1>7. CASE c = answer /\ u \notin ToSet(s)
  <2>1. At(d, c)[u] = 0
    BY <1>3, <1>7, AtFacts
  <2>2. At(e, c)[u] = NextPos(d, c)
    BY <1>1, <1>7, <2>1
  <2>3. \A v \in ToSet(s) : At(e, c)[v] = At(d, c)[v]
    BY <1>1, <1>4, <1>7
  <2>4. Ordered(s, Ahead(e, c))
    BY <1>3, <2>3, StillInOrder
  <2>5. \A v \in ToSet(s) : <<v, u>> \in Ahead(e, c)
    <3>1. \A v \in People : At(d, c)[v] < NextPos(d, c)
      BY NextPosFacts
    <3> QED  BY <1>4, <2>2, <2>3, <3>1 DEF Ahead
  <2>6. Ordered(Append(s, u), Ahead(e, c))
    BY <1>3, <2>4, <2>5, OrderedAppend
  <2>7. Append(s, u) \in Seq(People) /\ ToSet(Append(s, u)) = ToSet(s) \cup {u}
    BY <1>3, <1>7, AppendFacts
  <2> QED  BY <1>2, <1>3, <1>7, <2>6, <2>7 DEF InOrder, e
<1> QED  BY <1>5, <1>6, <1>7 DEF e

\* A row is deleted.
LEMMA DeleteFacts ==
  ASSUME NEW d, Table(d), NEW u \in People
  PROVE  LET e == DeleteUserById(d, u)
         IN  /\ Table(e) /\ e.limit = d.limit
             /\ Written(e) = Written(d) \ {u}
             /\ \A v \in People \ {u} : e.rows[v] = d.rows[v]
             /\ \A c \in Statuses : RowsWith(e, c) = RowsWith(d, c) \ {u}
             /\ \A c \in Columns : At(e, c)[u] = 0 /\ \A v \in People \ {u} : At(e, c)[v] = At(d, c)[v]
<1> DEFINE e == DeleteUserById(d, u)
           born == RemoveFirst(d.born, u)
<1>1. /\ d \in Tables /\ d.rows \in [People -> Row \cup {NoRow}] /\ d.born \in Seq(People)
      /\ IsInjective(d.born) /\ ToSet(d.born) = Written(d) /\ d.limit \in Limits \cup {NoLimit}
  BY TableFacts DEF Table
<1>2. e = [rows |-> [d.rows EXCEPT ![u] = NoRow], born |-> born, limit |-> d.limit]
  <2>1. e = [d EXCEPT !.rows[u] = NoRow, !.born = born]
    BY DEF DeleteUserById
  <2> HIDE DEF e, born
  <2> QED  BY <1>1, <2>1 DEF Tables
<1> HIDE DEF e
<1>3. /\ \A v \in People \ {u} : e.rows[v] = d.rows[v] /\ (HasRow(e, v) <=> HasRow(d, v))
      /\ ~HasRow(e, u) /\ e.limit = d.limit /\ e.born = born
  BY <1>1, <1>2 DEF HasRow
<1>4. Written(e) = Written(d) \ {u}
  BY <1>3 DEF Written
<1>5. born \in Seq(People) /\ IsInjective(born) /\ ToSet(born) = Written(e)
  <2> DEFINE s == d.born
  <2>1. s \in Seq(People) /\ IsInjective(s)
    BY <1>1
  <2> HIDE DEF s
  <2>2. /\ RemoveFirst(s, u) \in Seq(People) /\ IsInjective(RemoveFirst(s, u))
        /\ ToSet(RemoveFirst(s, u)) = ToSet(s) \ {u}
    BY <2>1, RemoveFirstFacts
  <2> QED  BY <1>1, <1>4, <2>2 DEF s
<1> HIDE DEF born
<1>6. e \in Tables
  <2>1. [d.rows EXCEPT ![u] = NoRow] \in [People -> Row \cup {NoRow}]
    BY <1>1
  <2> QED  BY <1>1, <1>2, <1>5, <2>1 DEF Tables
<1>7. ASSUME NEW v \in Written(e), NEW c \in Columns
      PROVE  e.rows[v].pos[c] # 0 <=> e.rows[v].status = c
  <2>1. v \in Written(d) /\ v \in People \ {u}
    BY <1>4 DEF Written
  <2>2. d.rows[v].pos[c] # 0 <=> d.rows[v].status = c
    BY <2>1 DEF Table
  <2> QED  BY <1>3, <2>1, <2>2
<1>8. Table(e)
  BY <1>3, <1>5, <1>6, <1>7 DEF Table
<1>9. ASSUME NEW c \in Statuses PROVE RowsWith(e, c) = RowsWith(d, c) \ {u}
  BY <1>3 DEF RowsWith
<1>10. ASSUME NEW c \in Columns
       PROVE At(e, c)[u] = 0 /\ \A v \in People \ {u} : At(e, c)[v] = At(d, c)[v]
  BY <1>3 DEF At
<1> QED  BY <1>3, <1>4, <1>8, <1>9, <1>10 DEF e

\* A deleted row takes one person from its list and its column.
LEMMA DeleteMoves ==
  ASSUME NEW d, Table(d), NEW u \in People, NEW c \in Columns, NEW s, InOrder(d, c, s)
  PROVE  InOrder(DeleteUserById(d, u), c, RemoveFirst(s, u))
<1> DEFINE e == DeleteUserById(d, u)
           t == RemoveFirst(s, u)
<1>1. s \in Seq(People) /\ IsInjective(s) /\ ToSet(s) = RowsWith(d, c) /\ Ordered(s, Ahead(d, c))
  BY InOrderFacts
<1>2. t \in Seq(People) /\ ToSet(t) = ToSet(s) \ {u} /\ Ordered(t, Ahead(d, c))
  BY <1>1, RemoveFirstFacts, OrderedRemove
<1>3. RowsWith(e, c) = RowsWith(d, c) \ {u} /\ \A v \in People \ {u} : At(e, c)[v] = At(d, c)[v]
  BY DeleteFacts DEF Columns, Statuses, Answers
<1> HIDE DEF e, t
<1>4. \A v \in ToSet(t) : At(e, c)[v] = At(d, c)[v]
  BY <1>1, <1>2, <1>3 DEF RowsWith
<1>5. Ordered(t, Ahead(e, c))
  BY <1>2, <1>4, StillInOrder
<1> QED  BY <1>1, <1>2, <1>3, <1>5 DEF InOrder, e, t

LEMMA DeleteKeepsTidy ==
  ASSUME NEW d, Tidy(d), NEW u \in People
  PROVE  Tidy(DeleteUserById(d, u))
<1> DEFINE e == DeleteUserById(d, u)
<1>1. /\ Table(d) /\ Table(e) /\ e.limit = d.limit
      /\ RowsWith(e, "waitlist") = RowsWith(d, "waitlist") \ {u}
      /\ \A c \in Columns : At(e, c)[u] = 0 /\ \A v \in People \ {u} : At(e, c)[v] = At(d, c)[v]
  BY DeleteFacts DEF Tidy, Statuses
<1> HIDE DEF e
<1>2. Distinct(e)
  <2>1. Distinct(d)
    BY DEF Tidy
  <2> QED  BY <1>1, <2>1 DEF Distinct
<1>3. WaitsForCap(e)
  BY <1>1 DEF WaitsForCap, Tidy
<1> QED  BY <1>1, <1>2, <1>3 DEF Tidy, e

\* The rollcall's own row holds the cap alone.
LEMMA CapRowFacts ==
  ASSUME NEW d, Table(d), NEW r, r.inListLimit \in Limits \cup {NoLimit}
  PROVE  LET e == UpdateRollcall(d, r)
         IN  /\ Table(e) /\ e.limit = r.inListLimit /\ e.rows = d.rows
             /\ Written(e) = Written(d)
             /\ \A c \in Statuses : RowsWith(e, c) = RowsWith(d, c)
             /\ \A c \in Columns : At(e, c) = At(d, c)
             /\ \A c \in Columns : \A s : InOrder(d, c, s) => InOrder(e, c, s)
             /\ Distinct(d) => Distinct(e)
<1> DEFINE e == UpdateRollcall(d, r)
           n == r.inListLimit
<1>1. d \in Tables
  BY DEF Table
<1>2. e = [rows |-> d.rows, born |-> d.born, limit |-> n]
  <2>1. e = [d EXCEPT !.limit = n]
    BY DEF UpdateRollcall
  <2> HIDE DEF e, n
  <2> QED  BY <1>1, <2>1 DEF Tables
<1> HIDE DEF e
<1>3. e.rows = d.rows /\ e.born = d.born /\ e.limit = n
  BY <1>2
<1>4. e \in Tables
  BY <1>1, <1>2 DEF Tables
<1>5. Written(e) = Written(d) /\ \A c \in Statuses : RowsWith(e, c) = RowsWith(d, c)
  BY <1>3 DEF Written, RowsWith, HasRow
<1>6. \A c \in Columns : At(e, c) = At(d, c)
  BY <1>3 DEF At, HasRow
<1>7. Table(e)
  BY <1>3, <1>4, <1>5 DEF Table
<1>8. ASSUME NEW c \in Columns, NEW s, InOrder(d, c, s) PROVE InOrder(e, c, s)
  <2>1. Ahead(e, c) = Ahead(d, c)
    BY <1>6 DEF Ahead
  <2>2. RowsWith(e, c) = RowsWith(d, c)
    BY <1>5 DEF Columns, Statuses, Answers
  <2> QED  BY <1>8, <2>1, <2>2 DEF InOrder
<1>9. Distinct(d) => Distinct(e)
  BY <1>6 DEF Distinct
<1> QED  BY <1>3, <1>5, <1>6, <1>7, <1>8, <1>9 DEF e, n

\* The waitlist's positions are written anew, in the order of ids.
LEMMA ReorderFacts ==
  ASSUME NEW d, Table(d), NEW ids \in Seq(People)
  PROVE  LET e == ReorderWaitlist(d, ids)
         IN  /\ Table(e) /\ e.limit = d.limit
             /\ Written(e) = Written(d)
             /\ \A c \in Statuses : RowsWith(e, c) = RowsWith(d, c)
             /\ \A u \in Written(d) : e.rows[u].owner = d.rows[u].owner
             /\ \A c \in Columns \ {"waitlist"} : At(e, c) = At(d, c)
             /\ \A u \in RowsWith(d, "waitlist") \cap ToSet(ids) :
                  At(e, "waitlist")[u] \in DOMAIN ids /\ ids[At(e, "waitlist")[u]] = u
<1> DEFINE e == ReorderWaitlist(d, ids)
           W == RowsWith(d, "waitlist") \cap ToSet(ids)
           place(u) == CHOOSE i \in DOMAIN ids : ids[i] = u
           entry(u) == IF u \in W THEN [d.rows[u] EXCEPT !.pos["waitlist"] = place(u)] ELSE d.rows[u]
<1>1. /\ d \in Tables /\ d.rows \in [People -> Row \cup {NoRow}] /\ d.born \in Seq(People)
      /\ d.limit \in Limits \cup {NoLimit} /\ W \subseteq Written(d) /\ Written(d) \subseteq People
  BY TableFacts DEF Table, RowsWith, Written
<1>2. e = [rows |-> [u \in People |-> entry(u)], born |-> d.born, limit |-> d.limit]
  <2>1. e = [d EXCEPT !.rows = [u \in People |-> entry(u)]]
    BY DEF ReorderWaitlist
  <2> HIDE DEF e, entry
  <2> QED  BY <1>1, <2>1 DEF Tables
<1> HIDE DEF e
<1>3. e.born = d.born /\ e.limit = d.limit /\ \A u \in People : e.rows[u] = entry(u)
  BY <1>2
<1>4. ASSUME NEW u \in W
      PROVE  /\ place(u) \in DOMAIN ids /\ ids[place(u)] = u
             /\ place(u) \in Nat /\ place(u) # 0
  <2>1. \E i \in DOMAIN ids : ids[i] = u
    BY DEF ToSet
  <2>2. place(u) \in DOMAIN ids /\ ids[place(u)] = u
    BY <2>1
  <2>3. DOMAIN ids = 1..Len(ids) /\ Len(ids) \in Nat
    OBVIOUS
  <2> HIDE DEF place
  <2> QED  BY <2>2, <2>3
<1>5. ASSUME NEW u \in W
      PROVE  /\ entry(u) \in Row
             /\ entry(u).status = "waitlist" /\ d.rows[u].status = "waitlist"
             /\ entry(u).owner = d.rows[u].owner
             /\ entry(u).pos["waitlist"] = place(u)
             /\ \A c \in Columns \ {"waitlist"} : entry(u).pos[c] = d.rows[u].pos[c]
  <2> DEFINE x == d.rows[u]
             n == place(u)
  <2>1. x \in Row /\ x.status = "waitlist"
    BY <1>1, TableFacts DEF RowsWith
  <2>2. n \in Nat /\ "waitlist" \in Columns
    BY <1>4 DEF Columns
  <2>3. entry(u) = [x EXCEPT !.pos["waitlist"] = n]
    OBVIOUS
  <2> HIDE DEF x, n, entry
  <2>4. entry(u) = [status |-> x.status, owner |-> x.owner, pos |-> [x.pos EXCEPT !["waitlist"] = n]]
    BY <2>1, <2>3 DEF Row
  <2>5. x.pos \in [Columns -> Nat] /\ x.owner \in Owners /\ x.status \in Answers \cup {"waitlist"}
    BY <2>1 DEF Row
  <2>6. entry(u) \in Row
    BY <2>2, <2>4, <2>5 DEF Row
  <2> QED  BY <2>1, <2>2, <2>4, <2>5, <2>6 DEF x, n
<1>6. ASSUME NEW u \in People
      PROVE  /\ entry(u) \in Row \cup {NoRow}
             /\ entry(u) # NoRow <=> u \in Written(d)
  <2>1. CASE u \in W
    BY <1>1, <1>5, <2>1, RowAssumption
  <2>2. CASE u \notin W
    BY <1>1, <2>2 DEF Written, HasRow
  <2> QED  BY <2>1, <2>2
<1>7. e \in Tables
  <2> HIDE DEF entry
  <2>1. [u \in People |-> entry(u)] \in [People -> Row \cup {NoRow}]
    BY <1>6
  <2> QED  BY <1>1, <1>2, <2>1 DEF Tables
<1>8. Written(e) = Written(d)
  BY <1>3, <1>6 DEF Written, HasRow
<1>9. ASSUME NEW u \in Written(d)
      PROVE  e.rows[u].status = d.rows[u].status /\ e.rows[u].owner = d.rows[u].owner
  <2>1. e.rows[u] = entry(u)
    BY <1>1, <1>3
  <2>2. CASE u \in W
    BY <1>5, <2>1, <2>2
  <2>3. CASE u \notin W
    BY <2>1, <2>3
  <2> QED  BY <2>2, <2>3
<1>10. ASSUME NEW c \in Columns, NEW u \in Written(d)
       PROVE  e.rows[u].pos[c] # 0 <=> e.rows[u].status = c
  <2>1. e.rows[u] = entry(u)
    BY <1>1, <1>3
  <2>2. d.rows[u].pos[c] # 0 <=> d.rows[u].status = c
    BY DEF Table
  <2>3. CASE u \in W /\ c = "waitlist"
    BY <1>4, <1>5, <2>1, <2>3
  <2>4. CASE u \in W /\ c # "waitlist"
    BY <1>5, <2>1, <2>2, <2>4
  <2>5. CASE u \notin W
    BY <2>1, <2>2, <2>5
  <2> QED  BY <2>3, <2>4, <2>5
<1>11. Table(e)
  BY <1>3, <1>7, <1>8, <1>10 DEF Table
<1>12. ASSUME NEW c \in Statuses PROVE RowsWith(e, c) = RowsWith(d, c)
  <2>1. \A u \in People : HasRow(e, u) <=> HasRow(d, u)
    BY <1>8 DEF Written
  <2>2. \A u \in People : HasRow(d, u) => e.rows[u].status = d.rows[u].status
    BY <1>9 DEF Written
  <2> QED  BY <2>1, <2>2 DEF RowsWith
<1>13. ASSUME NEW c \in Columns \ {"waitlist"} PROVE At(e, c) = At(d, c)
  <2>1. ASSUME NEW u \in People PROVE (IF HasRow(e, u) THEN e.rows[u].pos[c] ELSE 0)
                                      = IF HasRow(d, u) THEN d.rows[u].pos[c] ELSE 0
    <3>1. HasRow(e, u) <=> HasRow(d, u)
      BY <1>8 DEF Written
    <3>2. e.rows[u] = entry(u)
      BY <1>3
    <3>3. CASE u \in W
      BY <1>5, <3>1, <3>2, <3>3
    <3>4. CASE u \notin W
      BY <3>1, <3>2, <3>4
    <3> QED  BY <3>3, <3>4
  <2> QED  BY <2>1 DEF At
<1>14. ASSUME NEW u \in W
       PROVE  At(e, "waitlist")[u] \in DOMAIN ids /\ ids[At(e, "waitlist")[u]] = u
  <2>1. u \in People /\ HasRow(e, u)
    BY <1>1, <1>8 DEF Written
  <2>2. At(e, "waitlist")[u] = place(u)
    BY <1>3, <1>5, <2>1 DEF At
  <2> HIDE DEF place
  <2> QED  BY <1>4, <2>2
<1> HIDE DEF entry, place
<1> QED  BY <1>3, <1>8, <1>9, <1>11, <1>12, <1>13, <1>14 DEF e

\* If ids are all who wait, they wait in that order afterwards.
LEMMA ReorderMoves ==
  ASSUME NEW d, Tidy(d), NEW ids \in Seq(People), IsInjective(ids), ToSet(ids) = RowsWith(d, "waitlist")
  PROVE  LET e == ReorderWaitlist(d, ids)
         IN  /\ Tidy(e) /\ InOrder(e, "waitlist", ids)
             /\ \A c \in Columns \ {"waitlist"} : \A s : InOrder(d, c, s) => InOrder(e, c, s)
<1> DEFINE e == ReorderWaitlist(d, ids)
<1>1. /\ Table(d) /\ Table(e) /\ e.limit = d.limit /\ Written(e) = Written(d)
      /\ \A c \in Statuses : RowsWith(e, c) = RowsWith(d, c)
      /\ \A c \in Columns \ {"waitlist"} : At(e, c) = At(d, c)
      /\ \A u \in ToSet(ids) : At(e, "waitlist")[u] \in DOMAIN ids /\ ids[At(e, "waitlist")[u]] = u
  BY ReorderFacts DEF Tidy
<1> HIDE DEF e
<1>2. RowsWith(e, "waitlist") = ToSet(ids) /\ "waitlist" \in Columns
  BY <1>1 DEF Statuses, Columns
<1>3. /\ DOMAIN ids = 1..Len(ids) /\ Len(ids) \in Nat
      /\ \A i, j \in 1..Len(ids) : ids[i] = ids[j] => i = j
      /\ \A i \in 1..Len(ids) : ids[i] \in ToSet(ids) /\ ids[i] \in People
  BY InjectiveElements, ToSetElements
<1>4. ASSUME NEW i \in 1..Len(ids) PROVE At(e, "waitlist")[ids[i]] = i
  BY <1>1, <1>3
<1>5. InOrder(e, "waitlist", ids)
  <2>1. ASSUME NEW i \in 1..Len(ids), NEW j \in 1..Len(ids), i < j
        PROVE  <<ids[i], ids[j]>> \in Ahead(e, "waitlist")
    BY <1>3, <1>4, <2>1 DEF Ahead
  <2> QED  BY <1>2, <2>1 DEF InOrder, Ordered
<1>6. Distinct(e)
  <2>1. ASSUME NEW c \in Columns, NEW u \in People, NEW v \in People,
               At(e, c)[u] = At(e, c)[v], At(e, c)[u] # 0
        PROVE  u = v
    <3>1. CASE c = "waitlist"
      <4>1. u \in ToSet(ids) /\ v \in ToSet(ids)
        BY <1>1, <1>2, <2>1, <3>1, AtFacts
      <4> QED  BY <1>1, <2>1, <3>1, <4>1
    <3>2. CASE c # "waitlist"
      BY <1>1, <2>1, <3>2 DEF Tidy, Distinct
    <3> QED  BY <3>1, <3>2
  <2> QED  BY <2>1 DEF Distinct
<1>7. WaitsForCap(e)
  BY <1>1 DEF Tidy, WaitsForCap, Statuses
<1>8. ASSUME NEW c \in Columns \ {"waitlist"}, NEW s, InOrder(d, c, s) PROVE InOrder(e, c, s)
  <2>1. Ahead(e, c) = Ahead(d, c)
    BY <1>1 DEF Ahead
  <2>2. RowsWith(e, c) = RowsWith(d, c)
    BY <1>1 DEF Columns, Statuses, Answers
  <2> QED  BY <1>8, <2>1, <2>2 DEF InOrder
<1> QED  BY <1>1, <1>5, <1>6, <1>7, <1>8 DEF Tidy, e

(***************************************************************************)
(* Reading the tables back.                                                *)
(***************************************************************************)
\* By position, then by insertion: an order of the rows of a bucket.
InFront(d, answer) == {p \in RowsWith(d, answer) \X RowsWith(d, answer) : Before(d, answer, p[1], p[2])}

\* The rows of a status are finitely many, in one order.
LEMMA FrontFacts ==
  ASSUME NEW d, Table(d), NEW answer \in Statuses
  PROVE  /\ Orders(InFront(d, answer), RowsWith(d, answer))
         /\ IsFiniteSet(RowsWith(d, answer)) /\ RowsWith(d, answer) \subseteq Written(d)
         /\ \A u \in RowsWith(d, answer) : PosOf(d, u, answer) \in Nat
<1> DEFINE S == RowsWith(d, answer)
<1>1. S \subseteq Written(d) /\ IsFiniteSet(S)
  <2>1. S \subseteq Written(d)
    BY DEF RowsWith, Written
  <2> QED  BY <2>1, TableFacts, FS_Subset
<1>2. ASSUME NEW u \in S PROVE PosOf(d, u, answer) \in Nat
  <2>1. d.rows[u].pos \in [Columns -> Nat]
    BY <1>1, TableFacts
  <2>2. answer = "maybe" \/ answer \in Columns
    BY DEF Statuses, Answers, Columns
  <2> QED  BY <2>1, <2>2 DEF PosOf
<1>3. ASSUME NEW u \in S
      PROVE  BornAt(d, u) \in Nat /\ BornAt(d, u) \in DOMAIN d.born /\ d.born[BornAt(d, u)] = u
  <2>1. u \in ToSet(d.born)
    BY <1>1 DEF Table
  <2>2. \E i \in DOMAIN d.born : d.born[i] = u
    BY <2>1 DEF ToSet
  <2>3. BornAt(d, u) \in DOMAIN d.born /\ d.born[BornAt(d, u)] = u
    BY <2>2 DEF BornAt
  <2>4. DOMAIN d.born \subseteq Nat
    BY TableFacts
  <2> QED  BY <2>3, <2>4
<1> DEFINE R == InFront(d, answer)
<1>4. \A u, v \in S : BornAt(d, u) = BornAt(d, v) => u = v
  BY <1>3
<1>5. \A u, v \in S : <<u, v>> \in R <=> Before(d, answer, u, v)
  BY DEF InFront
<1>6. \A u, v : <<u, v>> \in R => u \in S /\ v \in S
  BY DEF InFront
<1> HIDE DEF S, R
<1>7. OneWay(R)
  <2> SUFFICES ASSUME NEW u, NEW v, <<u, v>> \in R, <<v, u>> \in R PROVE FALSE
    BY DEF OneWay
  <2>1. u \in S /\ v \in S /\ Before(d, answer, u, v) /\ Before(d, answer, v, u)
    BY <1>5, <1>6
  <2>2. /\ PosOf(d, u, answer) \in Nat /\ PosOf(d, v, answer) \in Nat
        /\ BornAt(d, u) \in Nat /\ BornAt(d, v) \in Nat
    BY <1>2, <1>3, <2>1
  <2> QED  BY <2>1, <2>2 DEF Before
<1>8. ASSUME NEW u \in S, NEW v \in S, u # v PROVE <<u, v>> \in R \/ <<v, u>> \in R
  <2>1. /\ PosOf(d, u, answer) \in Nat /\ PosOf(d, v, answer) \in Nat
        /\ BornAt(d, u) \in Nat /\ BornAt(d, v) \in Nat /\ BornAt(d, u) # BornAt(d, v)
    BY <1>2, <1>3, <1>4, <1>8
  <2>2. Before(d, answer, u, v) \/ Before(d, answer, v, u)
    BY <2>1 DEF Before
  <2> QED  BY <1>5, <2>2
<1>9. ASSUME NEW u \in S, NEW v \in S, NEW w \in S, <<u, v>> \in R, <<v, w>> \in R
      PROVE  <<u, w>> \in R
  <2>1. Before(d, answer, u, v) /\ Before(d, answer, v, w)
    BY <1>5, <1>9
  <2>2. /\ PosOf(d, u, answer) \in Nat /\ PosOf(d, v, answer) \in Nat /\ PosOf(d, w, answer) \in Nat
        /\ BornAt(d, u) \in Nat /\ BornAt(d, v) \in Nat /\ BornAt(d, w) \in Nat
    BY <1>2, <1>3
  <2>3. Before(d, answer, u, w)
    BY <2>1, <2>2 DEF Before
  <2> QED  BY <1>5, <2>3
<1>10. Orders(R, S)
  BY <1>7, <1>8, <1>9 DEF Orders
<1> QED  BY <1>1, <1>2, <1>10 DEF R, S

\* Every bucket can be read back: its people, once each.
LEMMA ListingReads ==
  ASSUME NEW d, Table(d), NEW answer \in Statuses
  PROVE  LET s == Listing(d, answer)
         IN  /\ s \in Seq(People) /\ IsInjective(s) /\ ToSet(s) = RowsWith(d, answer)
             /\ Ordered(s, InFront(d, answer))
<1> DEFINE S == RowsWith(d, answer)
           R == InFront(d, answer)
           Sorted(s) == \A i, j \in DOMAIN s : i < j => Before(d, answer, s[i], s[j])
           s == Listing(d, answer)
<1>1. Orders(R, S) /\ IsFiniteSet(S)
  BY FrontFacts
<1>2. \A q \in SetToSeqs(S) : q \in Seq(S) /\ IsInjective(q) /\ ToSet(q) = S
  <2> HIDE DEF S
  <2> QED  BY <1>1, ListingOfSet
<1>3. ASSUME NEW q \in SetToSeqs(S) PROVE Ordered(q, R) <=> Sorted(q)
  <2>1. DOMAIN q = 1..Len(q) /\ \A i \in 1..Len(q) : q[i] \in S
    BY <1>2, ToSetElements
  <2> QED  BY <2>1 DEF Ordered, InFront
<1>4. \E q \in SetToSeqs(S) : Sorted(q)
  <2>1. \E q \in SetToSeqs(S) : Ordered(q, R)
    <3> HIDE DEF S, R
    <3> QED  BY <1>1, OrderedExists
  <2> HIDE DEF S, R, Sorted
  <2> QED  BY <1>3, <2>1
<1>5. s \in SetToSeqs(S) /\ Sorted(s)
  BY <1>4 DEF Listing
<1> HIDE DEF s
<1>6. s \in Seq(S) /\ IsInjective(s) /\ ToSet(s) = S /\ Ordered(s, R)
  <2> HIDE DEF S, R, Sorted
  <2> QED  BY <1>2, <1>3, <1>5
<1>7. s \in Seq(People)
  <2>1. S \subseteq People
    BY DEF RowsWith
  <2> HIDE DEF S
  <2> QED  BY <1>6, <2>1
<1> QED  BY <1>6, <1>7 DEF s

\* Where positions differ, reading back gives the order of the positions.
LEMMA ListingInOrder ==
  ASSUME NEW d, Tidy(d), NEW c \in Columns
  PROVE  InOrder(d, c, Listing(d, c))
<1> DEFINE s == Listing(d, c)
<1>1. Table(d) /\ Distinct(d) /\ c \in Statuses /\ c # "maybe"
  BY DEF Tidy, Columns, Statuses, Answers
<1>2. s \in Seq(People) /\ ToSet(s) = RowsWith(d, c) /\ Ordered(s, InFront(d, c))
  BY <1>1, ListingReads
<1> HIDE DEF s
<1>3. ASSUME NEW x \in ToSet(s), NEW y \in ToSet(s), <<x, y>> \in InFront(d, c)
      PROVE  <<x, y>> \in Ahead(d, c)
  <2>1. Before(d, c, x, y) /\ <<y, x>> \notin InFront(d, c) /\ x \in People /\ y \in People
    BY <1>1, <1>2, <1>3, FrontFacts DEF InFront, Orders, OneWay, RowsWith
  <2>2. PosOf(d, x, c) = At(d, c)[x] /\ PosOf(d, y, c) = At(d, c)[y]
    BY <1>1, <1>2 DEF PosOf, At, RowsWith
  <2>3. At(d, c)[x] # 0 /\ At(d, c)[x] \in Nat /\ At(d, c)[y] \in Nat
    BY <1>1, <1>2, <2>1, AtFacts
  <2>4. x # y
    BY <1>3, <2>1
  <2>5. At(d, c)[x] # At(d, c)[y]
    BY <1>1, <2>1, <2>3, <2>4 DEF Distinct
  <2>6. At(d, c)[x] < At(d, c)[y]
    BY <2>1, <2>2, <2>3, <2>5 DEF Before
  <2> QED  BY <2>1, <2>6 DEF Ahead
<1>4. Ordered(s, Ahead(d, c))
  BY <1>2, <1>3, OrderedSame
<1> QED  BY <1>2, <1>4 DEF InOrder, s

OwnerIn(d, g) == IF HasRow(d, g) THEN d.rows[g].owner ELSE NoOwner

\* The tables stand for the rollcall r, but for the owners of X.
KeptBut(r, d, X) ==
  /\ r \in RollCall /\ Tidy(d)
  /\ InOrder(d, "in", r.inList) /\ InOrder(d, "out", r.outList)
  /\ InOrder(d, "waitlist", r.waitList)
  /\ IsInjective(r.maybeList) /\ ToSet(r.maybeList) = RowsWith(d, "maybe")
  /\ r.inListLimit = d.limit
  /\ \A g \in Guests \ X : r.proxy_owners[g] = OwnerIn(d, g)

Kept(r, d) == KeptBut(r, d, {})

\* The fields of a rollcall, for later steps to cite.
LEMMA RollCallFields ==
  ASSUME NEW r \in RollCall
  PROVE  /\ r.inList \in Seq(People) /\ r.outList \in Seq(People)
         /\ r.maybeList \in Seq(People) /\ r.waitList \in Seq(People)
         /\ r.inListLimit \in Limits \cup {NoLimit}
         /\ r.proxy_owners \in [Guests -> Owners]
         /\ r = [inList |-> r.inList, outList |-> r.outList, maybeList |-> r.maybeList,
                 waitList |-> r.waitList, inListLimit |-> r.inListLimit,
                 proxy_owners |-> r.proxy_owners]
BY DEF RollCall

LEMMA OwnerTyped ==
  ASSUME NEW d, Table(d), NEW g \in People
  PROVE  OwnerIn(d, g) \in Owners
<1>1. NoOwner \in Owners
  BY DEF Owners
<1>2. HasRow(d, g) => d.rows[g].owner \in Owners
  BY TableFacts DEF Written
<1> QED  BY <1>1, <1>2 DEF OwnerIn

\* What is read back is a rollcall.
LEMMA LoadTyped ==
  ASSUME NEW d, Table(d)
  PROVE  LET q == LoadFromDb(d)
         IN  /\ q \in RollCall
             /\ q.inList = Listing(d, "in") /\ q.outList = Listing(d, "out")
             /\ q.maybeList = Listing(d, "maybe") /\ q.waitList = Listing(d, "waitlist")
             /\ q.inListLimit = d.limit
             /\ \A g \in Guests : q.proxy_owners[g] = OwnerIn(d, g)
<1> DEFINE i == Listing(d, "in")
           o == Listing(d, "out")
           m == Listing(d, "maybe")
           w == Listing(d, "waitlist")
           p == [g \in Guests |-> IF HasRow(d, g) THEN d.rows[g].owner ELSE NoOwner]
<1>1. i \in Seq(People) /\ o \in Seq(People) /\ m \in Seq(People) /\ w \in Seq(People)
  BY ListingReads DEF Statuses, Answers
<1>2. p \in [Guests -> Owners] /\ \A g \in Guests : p[g] = OwnerIn(d, g)
  BY OwnerTyped DEF OwnerIn, People
<1>3. d.limit \in Limits \cup {NoLimit}
  BY TableFacts
<1>4. LoadFromDb(d) = [inList |-> i, outList |-> o, maybeList |-> m, waitList |-> w,
                       inListLimit |-> d.limit, proxy_owners |-> p]
  BY DEF LoadFromDb
<1> HIDE DEF i, o, m, w, p
<1> QED  BY <1>1, <1>2, <1>3, <1>4 DEF RollCall, i, o, m, w

\* Reading back what the tables hold leaves them standing for it.
LEMMA LoadKept ==
  ASSUME NEW d, Tidy(d)
  PROVE  Kept(LoadFromDb(d), d)
<1> DEFINE q == LoadFromDb(d)
<1>1. Table(d)
  BY DEF Tidy
<1>2. /\ q \in RollCall
      /\ q.inList = Listing(d, "in") /\ q.outList = Listing(d, "out")
      /\ q.maybeList = Listing(d, "maybe") /\ q.waitList = Listing(d, "waitlist")
      /\ q.inListLimit = d.limit
      /\ \A g \in Guests : q.proxy_owners[g] = OwnerIn(d, g)
  BY <1>1, LoadTyped
<1> HIDE DEF q
<1>3. /\ InOrder(d, "in", Listing(d, "in")) /\ InOrder(d, "out", Listing(d, "out"))
      /\ InOrder(d, "waitlist", Listing(d, "waitlist"))
  BY ListingInOrder DEF Columns
<1>4. IsInjective(Listing(d, "maybe")) /\ ToSet(Listing(d, "maybe")) = RowsWith(d, "maybe")
  BY <1>1, ListingReads DEF Statuses, Answers
<1> QED  BY <1>2, <1>3, <1>4 DEF Kept, KeptBut, q

\* The four statuses, and the row that has one.
LEMMA StatusesApart ==
  ASSUME NEW d, Table(d)
  PROVE  /\ \A c1, c2 \in Statuses : c1 # c2 => RowsWith(d, c1) \cap RowsWith(d, c2) = {}
         /\ UNION {RowsWith(d, c) : c \in Statuses} = Written(d)
<1>1. \A c1, c2 \in Statuses : c1 # c2 => RowsWith(d, c1) \cap RowsWith(d, c2) = {}
  BY DEF RowsWith
<1>2. ASSUME NEW u \in Written(d) PROVE \E c \in Statuses : u \in RowsWith(d, c)
  BY TableFacts DEF RowsWith, Statuses
<1>3. \A c \in Statuses : RowsWith(d, c) \subseteq Written(d)
  BY DEF RowsWith, Written
<1> QED  BY <1>1, <1>2, <1>3

\* The lists of a rollcall that is kept.
LEMMA KeptFacts ==
  ASSUME NEW r, NEW d, NEW X, KeptBut(r, d, X)
  PROVE  /\ r \in RollCall /\ Table(d) /\ Tidy(d)
         /\ r.inList \in Seq(People) /\ r.outList \in Seq(People)
         /\ r.maybeList \in Seq(People) /\ r.waitList \in Seq(People)
         /\ Apart(r.inList, r.outList, r.maybeList, r.waitList)
         /\ r.waitList # << >> => Capped(r)
         /\ In(r) = RowsWith(d, "in") /\ ToSet(r.outList) = RowsWith(d, "out")
         /\ ToSet(r.maybeList) = RowsWith(d, "maybe") /\ Waiting(r) = RowsWith(d, "waitlist")
         /\ Listed(r) = Written(d)
<1>1. Table(d) /\ Tidy(d) /\ r \in RollCall
  BY DEF KeptBut, Tidy
<1>2. /\ r.inList \in Seq(People) /\ r.outList \in Seq(People)
      /\ r.maybeList \in Seq(People) /\ r.waitList \in Seq(People)
  BY <1>1, RollCallFields
<1>3. /\ IsInjective(r.inList) /\ ToSet(r.inList) = RowsWith(d, "in")
      /\ IsInjective(r.outList) /\ ToSet(r.outList) = RowsWith(d, "out")
      /\ IsInjective(r.waitList) /\ ToSet(r.waitList) = RowsWith(d, "waitlist")
  <2>1. "in" \in Columns /\ "out" \in Columns /\ "waitlist" \in Columns
    BY DEF Columns
  <2>2. InOrder(d, "in", r.inList) /\ InOrder(d, "out", r.outList) /\ InOrder(d, "waitlist", r.waitList)
    BY DEF KeptBut
  <2> QED  BY <1>1, <2>1, <2>2, InOrderFacts
<1>4. IsInjective(r.maybeList) /\ ToSet(r.maybeList) = RowsWith(d, "maybe")
  BY DEF KeptBut
<1>5. Apart(r.inList, r.outList, r.maybeList, r.waitList)
  <2>1. \A c1, c2 \in Statuses : c1 # c2 => RowsWith(d, c1) \cap RowsWith(d, c2) = {}
    BY <1>1, StatusesApart
  <2>2. /\ RowsWith(d, "in") \cap RowsWith(d, "out") = {} /\ RowsWith(d, "in") \cap RowsWith(d, "maybe") = {}
        /\ RowsWith(d, "in") \cap RowsWith(d, "waitlist") = {} /\ RowsWith(d, "out") \cap RowsWith(d, "maybe") = {}
        /\ RowsWith(d, "out") \cap RowsWith(d, "waitlist") = {}
        /\ RowsWith(d, "maybe") \cap RowsWith(d, "waitlist") = {}
    BY <2>1 DEF Statuses, Answers
  <2> QED  BY <1>3, <1>4, <2>2 DEF Apart
<1>6. r.waitList # << >> => Capped(r)
  <2>1. ASSUME NEW s \in Seq(People), s # << >> PROVE ToSet(s) # {}
    <3>1. 1 \in 1..Len(s)
      BY <2>1, EmptySeq
    <3> QED  BY <3>1, ToSetElements
  <2>2. r.waitList # << >> => RowsWith(d, "waitlist") # {}
    BY <1>2, <1>3, <2>1
  <2> QED  BY <1>1, <2>2 DEF KeptBut, Tidy, WaitsForCap, Capped
<1>7. Listed(r) = Written(d)
  <2>1. Written(d) = RowsWith(d, "in") \cup RowsWith(d, "out") \cup RowsWith(d, "maybe") \cup RowsWith(d, "waitlist")
    BY <1>1, StatusesApart DEF Statuses, Answers
  <2> QED  BY <1>3, <1>4, <2>1 DEF Listed, In, Waiting
<1> QED  BY <1>1, <1>2, <1>3, <1>4, <1>5, <1>6, <1>7 DEF In, Waiting

LEMMA KeptStatus ==
  ASSUME NEW r, NEW d, NEW X, KeptBut(r, d, X), NEW u \in Listed(r)
  PROVE  StatusOf(r, u) = d.rows[u].status
<1>1. /\ In(r) = RowsWith(d, "in") /\ ToSet(r.outList) = RowsWith(d, "out")
      /\ ToSet(r.maybeList) = RowsWith(d, "maybe") /\ Waiting(r) = RowsWith(d, "waitlist")
      /\ Listed(r) = Written(d)
  BY KeptFacts
<1>2. u \in Written(d)
  BY <1>1
<1>3. d.rows[u].status \in {"in", "out", "maybe", "waitlist"}
  BY <1>2, TableFacts, KeptFacts DEF Answers
<1>4. \A c \in {"in", "out", "maybe", "waitlist"} : u \in RowsWith(d, c) <=> d.rows[u].status = c
  BY <1>2 DEF RowsWith, Written
<1> QED  BY <1>1, <1>3, <1>4 DEF StatusOf

\* Reading back gives the same rollcall, with MAYBE in another order.
LEMMA KeptReloads ==
  ASSUME NEW r, NEW d, Kept(r, d)
  PROVE  /\ LoadFromDb(d) = [r EXCEPT !.maybeList = LoadFromDb(d).maybeList]
         /\ LoadFromDb(d) \in Reloads(r)
<1> DEFINE q == LoadFromDb(d)
<1>1. r \in RollCall /\ Table(d) /\ Tidy(d) /\ Kept(q, d)
  BY KeptFacts, LoadKept DEF Kept
<1>2. q \in RollCall
  BY <1>1, LoadTyped
<1> HIDE DEF q
<1>3. q.inList = r.inList /\ q.outList = r.outList /\ q.waitList = r.waitList
  BY <1>1, InOrderOnce DEF Kept, KeptBut, Columns
<1>4. q.inListLimit = r.inListLimit
  BY <1>1 DEF Kept, KeptBut
<1>5. q.proxy_owners = r.proxy_owners
  <2>1. q.proxy_owners \in [Guests -> Owners] /\ r.proxy_owners \in [Guests -> Owners]
    BY <1>1, <1>2, RollCallFields
  <2>2. \A g \in Guests : q.proxy_owners[g] = r.proxy_owners[g]
    BY <1>1 DEF Kept, KeptBut
  <2> QED  BY <2>1, <2>2
<1>6. q = [r EXCEPT !.maybeList = q.maybeList]
  BY <1>1, <1>2, <1>3, <1>4, <1>5 DEF RollCall
<1>7. q.maybeList \in SetToSeqs(ToSet(r.maybeList))
  <2> DEFINE m == q.maybeList
             T == ToSet(r.maybeList)
  <2>1. m \in Seq(People) /\ IsInjective(m) /\ ToSet(m) = T
    BY <1>1, <1>2, RollCallFields DEF Kept, KeptBut
  <2> HIDE DEF m, T
  <2>2. m \in Seq(T)
    <3>1. DOMAIN m = 1..Len(m) /\ Len(m) \in Nat /\ \A i \in 1..Len(m) : m[i] \in T
      BY <2>1, ToSetElements
    <3> QED  BY <2>1, <3>1
  <2>3. m \in SetToSeqs(T)
    BY <2>1, <2>2, IsListing
  <2> QED  BY <2>3 DEF m, T
<1> QED  BY <1>6, <1>7 DEF Reloads, q

\* The tables after each of the first row writes of a trace.
SavedIn(d, r, us) ==
  CHOOSE after : after = [k \in 0..Len(us) |->
    IF k = 0 THEN d ELSE SaveUserToDb(after[k - 1], r, us[k])]

Filed == {d \in Tables : Table(d)}

\* The status saved for a person is the list that holds them.
LEMMA StatusFacts ==
  ASSUME NEW r \in RollCall, NEW u
  PROVE  StatusOf(r, u) \in Statuses /\ OwnerOf(r, u) \in Owners
BY DEF StatusOf, Statuses, Answers, OwnerOf, Owners, RollCall

LEMMA SaveIsWrite ==
  ASSUME NEW d, NEW r \in RollCall, NEW u
  PROVE  SaveUserToDb(d, r, u) = WriteRow(d, u, StatusOf(r, u), OwnerOf(r, u))
BY DEF SaveUserToDb, AddOrUpdateProxyUser, AddOrUpdateUser, OwnerOf

\* Saving one person more is one row write more.
LEMMA SavedStep ==
  ASSUME NEW d, Table(d), NEW r \in RollCall, NEW us \in Seq(People)
  PROVE  /\ SavedIn(d, r, us)[0] = d
         /\ \A k \in 1..Len(us) :
              SavedIn(d, r, us)[k] = WriteRow(SavedIn(d, r, us)[k - 1], us[k],
                                              StatusOf(r, us[k]), OwnerOf(r, us[k]))
         /\ \A k \in 0..Len(us) : Table(SavedIn(d, r, us)[k])
<1> DEFINE step == [p \in (1..Len(us)) \X Filed |-> SaveUserToDb(p[2], r, us[p[1]])]
           F(after) == [k \in 0..Len(us) |->
             IF k = 0 THEN d ELSE SaveUserToDb(after[k - 1], r, us[k])]
<1>0. Len(us) \in Nat /\ d \in Filed
  BY DEF Filed, Table
<1>1. step \in [(1..Len(us)) \X Filed -> Filed]
  <2>1. ASSUME NEW p \in (1..Len(us)) \X Filed
        PROVE  SaveUserToDb(p[2], r, us[p[1]]) \in Filed
    <3> DEFINE t == p[2]
               u == us[p[1]]
    <3>1. Table(t) /\ u \in People
      BY DEF Filed
    <3> HIDE DEF t, u
    <3>2. Table(WriteRow(t, u, StatusOf(r, u), OwnerOf(r, u)))
      BY <3>1, StatusFacts, WriteRowFacts
    <3>3. SaveUserToDb(t, r, u) \in Filed
      BY <3>2, SaveIsWrite DEF Filed, Table
    <3> QED  BY <3>3 DEF t, u
  <2> QED  BY <2>1
<1>2. PICK f : Stepwise(f, Filed, Len(us), d, step)
  <2> HIDE DEF step
  <2> QED  BY <1>0, <1>1, Recursion
<1>3. /\ f \in [0..Len(us) -> Filed] /\ f[0] = d
      /\ \A k \in 1..Len(us) : f[k] = step[<<k, f[k - 1]>>]
  BY <1>2 DEF Stepwise
<1>4. ASSUME NEW k \in 1..Len(us) PROVE f[k] = SaveUserToDb(f[k - 1], r, us[k])
  <2>1. f[k - 1] \in Filed
    BY <1>0, <1>3
  <2>2. step[<<k, f[k - 1]>>] = SaveUserToDb(f[k - 1], r, us[k])
    BY <2>1
  <2> QED  BY <1>3, <2>2
<1> HIDE DEF step
<1>5. f = F(f)
  <2> DEFINE h == F(f)
  <2>1. ASSUME NEW k \in 0..Len(us) PROVE f[k] = h[k]
    <3>1. k = 0 \/ k \in 1..Len(us)
      BY <1>0
    <3> QED  BY <1>3, <1>4, <3>1
  <2>2. DOMAIN h = 0..Len(us) /\ h = [k \in DOMAIN h |-> h[k]]
    OBVIOUS
  <2>3. f \in [0..Len(us) -> Filed]
    BY <1>3
  <2> HIDE DEF h, F
  <2>4. f = h
    BY <2>1, <2>2, <2>3
  <2> QED  BY <2>4 DEF h
<1> DEFINE c == SavedIn(d, r, us)
<1>6. c = F(c)
  BY <1>5 DEF SavedIn
<1> HIDE DEF c
<1>7. c[0] = d /\ \A k \in 1..Len(us) : c[k] = SaveUserToDb(c[k - 1], r, us[k])
  <2>1. 0 \in 0..Len(us) /\ \A k \in 1..Len(us) : k \in 0..Len(us) /\ k # 0
    BY <1>0
  <2>2. \A k \in 0..Len(us) : c[k] = F(c)[k]
    BY <1>6
  <2> QED  BY <2>1, <2>2
<1>8. \A k \in 1..Len(us) :
        c[k] = WriteRow(c[k - 1], us[k], StatusOf(r, us[k]), OwnerOf(r, us[k]))
  BY <1>7, SaveIsWrite
<1>9. \A k \in 0..Len(us) : Table(c[k])
  <2> DEFINE good == {k \in 0..Len(us) : Table(c[k])}
  <2>1. 0 \in good
    BY <1>0, <1>7
  <2>2. ASSUME NEW k \in 1..Len(us), k - 1 \in good PROVE k \in good
    <3>1. k \in 0..Len(us) /\ us[k] \in People /\ Table(c[k - 1])
      BY <1>0, <2>2
    <3>2. Table(WriteRow(c[k - 1], us[k], StatusOf(r, us[k]), OwnerOf(r, us[k])))
      BY <3>1, StatusFacts, WriteRowFacts
    <3> QED  BY <1>8, <3>1, <3>2
  <2> HIDE DEF good
  <2>3. \A k \in 0..Len(us) : k \in good
    BY <1>0, <2>1, <2>2, Upwards
  <2> QED  BY <2>3 DEF good
<1> QED  BY <1>7, <1>8, <1>9 DEF c

\* The trace of row writes, and the tables at its end.
LEMMA SavesFacts ==
  ASSUME NEW d, Table(d), NEW r \in RollCall, NEW us \in Seq(People)
  PROVE  /\ Saves(d, r, us) = [k \in 1..Len(us) |-> Write(r, r, SavedIn(d, r, us)[k])]
         /\ End(Saves(d, r, us), d) = SavedIn(d, r, us)[Len(us)]
<1> DEFINE t == Saves(d, r, us)
           c == SavedIn(d, r, us)
<1>1. t = [k \in 1..Len(us) |-> Write(r, r, c[k])]
  <2>1. DOMAIN us = 1..Len(us)
    OBVIOUS
  <2> QED  BY <2>1 DEF Saves, SavedIn
<1> HIDE DEF t
<1>2. Len(t) = Len(us) /\ Len(us) \in Nat
  BY <1>1
<1>3. CASE us = << >>
  <2>1. t = << >>
    BY <1>1, <1>3
  <2> QED  BY <1>1, <1>3, <2>1, SavedStep DEF End, t, c
<1>4. CASE us # << >>
  <2>1. Len(us) \in 1..Len(us)
    BY <1>2, <1>4, EmptySeq
  <2>2. t # << >>
    BY <1>2, <1>4, EmptySeq
  <2>3. Last(t) = Write(r, r, c[Len(us)])
    BY <1>1, <1>2, <2>1 DEF Last
  <2>4. Last(t).db = c[Len(us)]
    BY <2>3 DEF Write
  <2> QED  BY <1>1, <2>2, <2>4 DEF End, t, c
<1> QED  BY <1>3, <1>4

\* Who has been written by then.
Upto(us, k) == {us[i] : i \in 1..k}

\* What has been saved when a list is half written.
LEMMA UptoFacts ==
  ASSUME NEW us \in Seq(People)
  PROVE  /\ Upto(us, 0) = {} /\ Upto(us, Len(us)) = ToSet(us)
         /\ \A k \in 1..Len(us) : Upto(us, k) = Upto(us, k - 1) \cup {us[k]} /\ us[k] \in People
         /\ IsInjective(us) => \A k \in 1..Len(us) : us[k] \notin Upto(us, k - 1)
<1>0. Len(us) \in Nat
  OBVIOUS
<1>1. Upto(us, 0) = {}
  BY DEF Upto
<1>2. Upto(us, Len(us)) = ToSet(us)
  BY DEF Upto, ToSet
<1>3. ASSUME NEW k \in 1..Len(us)
      PROVE  Upto(us, k) = Upto(us, k - 1) \cup {us[k]} /\ us[k] \in People
  <2>1. \A j \in 1..k : j = k \/ j \in 1..(k - 1)
    BY <1>0
  <2>2. \A j \in 1..(k - 1) : j \in 1..k
    BY <1>0
  <2>3. k \in 1..k
    BY <1>0
  <2> QED  BY <2>1, <2>2, <2>3 DEF Upto
<1>4. ASSUME IsInjective(us), NEW k \in 1..Len(us), us[k] \in Upto(us, k - 1) PROVE FALSE
  <2>1. PICK j \in 1..(k - 1) : us[j] = us[k]
    BY <1>4 DEF Upto
  <2>2. j \in 1..Len(us) /\ j # k
    BY <1>0
  <2> QED  BY <1>4, <2>1, <2>2, InjectiveElements
<1> QED  BY <1>1, <1>2, <1>3, <1>4

\* The rows after each write.
LEMMA SavedRows ==
  ASSUME NEW d, Table(d), NEW r \in RollCall, NEW us \in Seq(People)
  PROVE  \A k \in 0..Len(us) :
           LET e == SavedIn(d, r, us)[k]
           IN  /\ Table(e) /\ e.limit = d.limit
               /\ Written(e) = Written(d) \cup Upto(us, k)
               /\ \A v \in People \ Upto(us, k) : e.rows[v] = d.rows[v]
               /\ \A v \in Upto(us, k) : /\ e.rows[v].status = StatusOf(r, v)
                                         /\ e.rows[v].owner = OwnerOf(r, v)
<1> DEFINE c == SavedIn(d, r, us)
           Good(k) == LET e == c[k]
                      IN  /\ Table(e) /\ e.limit = d.limit
                          /\ Written(e) = Written(d) \cup Upto(us, k)
                          /\ \A v \in People \ Upto(us, k) : e.rows[v] = d.rows[v]
                          /\ \A v \in Upto(us, k) : /\ e.rows[v].status = StatusOf(r, v)
                                                    /\ e.rows[v].owner = OwnerOf(r, v)
           good == {k \in 0..Len(us) : Good(k)}
<1>0. Len(us) \in Nat
  OBVIOUS
<1>1. /\ c[0] = d
      /\ \A k \in 1..Len(us) :
           c[k] = WriteRow(c[k - 1], us[k], StatusOf(r, us[k]), OwnerOf(r, us[k]))
      /\ \A k \in 0..Len(us) : Table(c[k])
  BY SavedStep
<1> HIDE DEF c
<1>2. Upto(us, 0) = {}
  BY UptoFacts
<1>3. 0 \in good
  BY <1>0, <1>1, <1>2
<1>4. ASSUME NEW k \in 1..Len(us), k - 1 \in good PROVE k \in good
  <2> DEFINE p == c[k - 1]
             e == c[k]
             u == us[k]
             U == Upto(us, k - 1)
             V == Upto(us, k)
  <2>1. /\ Table(p) /\ p.limit = d.limit
        /\ Written(p) = Written(d) \cup U
        /\ \A v \in People \ U : p.rows[v] = d.rows[v]
        /\ \A v \in U : p.rows[v].status = StatusOf(r, v) /\ p.rows[v].owner = OwnerOf(r, v)
    BY <1>4
  <2>2. V = U \cup {u} /\ u \in People /\ k \in 0..Len(us)
    BY <1>0, UptoFacts
  <2>3. e = WriteRow(p, u, StatusOf(r, u), OwnerOf(r, u))
    BY <1>1
  <2>9. U \subseteq People
    BY <1>0, UptoFacts DEF Upto
  <2> HIDE DEF p, e, u, U, V
  <2>4. /\ Table(e) /\ e.limit = p.limit
        /\ Written(e) = Written(p) \cup {u}
        /\ \A v \in People \ {u} : e.rows[v] = p.rows[v]
        /\ e.rows[u].status = StatusOf(r, u) /\ e.rows[u].owner = OwnerOf(r, u)
    BY <2>1, <2>2, <2>3, StatusFacts, WriteRowFacts
  <2>5. Written(e) = Written(d) \cup V
    BY <2>1, <2>2, <2>4
  <2>6. \A v \in People \ V : e.rows[v] = d.rows[v]
    BY <2>1, <2>2, <2>4
  <2>7. ASSUME NEW v \in V
        PROVE  e.rows[v].status = StatusOf(r, v) /\ e.rows[v].owner = OwnerOf(r, v)
    BY <2>1, <2>2, <2>4, <2>9
  <2>8. Good(k)
    BY <2>1, <2>4, <2>5, <2>6, <2>7 DEF e, V
  <2> HIDE DEF Good
  <2> QED  BY <2>2, <2>8
<1> HIDE DEF good
<1>5. \A k \in 0..Len(us) : k \in good
  BY <1>0, <1>3, <1>4, Upwards
<1> QED  BY <1>5 DEF good, c

\* The positions in a bucket after each write: who stays keeps a place, who
\* enters comes behind all who stay and behind all who entered before.
Stays(r, us, c, v) == v \notin ToSet(us) \/ StatusOf(r, v) = c
Enters(d, r, c, v) == At(d, c)[v] = 0 /\ StatusOf(r, v) = c

\* The places of saved people follow the order they were saved in.
LEMMA SavedPlaces ==
  ASSUME NEW d, Table(d), NEW r \in RollCall, NEW us \in Seq(People), IsInjective(us),
         NEW c \in Columns
  PROVE  \A k \in 0..Len(us) :
           LET a == At(SavedIn(d, r, us)[k], c)
           IN  /\ \A v \in People \ Upto(us, k) : a[v] = At(d, c)[v]
               /\ \A v \in Upto(us, k) :
                    At(d, c)[v] # 0 /\ StatusOf(r, v) = c => a[v] = At(d, c)[v]
               /\ \A v \in Upto(us, k) : Enters(d, r, c, v) =>
                    \A x \in People : Stays(r, us, c, x) => At(d, c)[x] < a[v]
               /\ \A j \in 1..k : \A i \in 1..k :
                    i < j /\ Enters(d, r, c, us[i]) /\ Enters(d, r, c, us[j]) => a[us[i]] < a[us[j]]
<1> DEFINE w == SavedIn(d, r, us)
           b == At(d, c)
           Good(k) == LET a == At(w[k], c)
             IN  /\ \A v \in People \ Upto(us, k) : a[v] = b[v]
                 /\ \A v \in Upto(us, k) : b[v] # 0 /\ StatusOf(r, v) = c => a[v] = b[v]
                 /\ \A v \in Upto(us, k) : Enters(d, r, c, v) =>
                      \A x \in People : Stays(r, us, c, x) => b[x] < a[v]
                 /\ \A j \in 1..k : \A i \in 1..k :
                      i < j /\ Enters(d, r, c, us[i]) /\ Enters(d, r, c, us[j]) => a[us[i]] < a[us[j]]
           good == {k \in 0..Len(us) : Good(k)}
<1>0. Len(us) \in Nat /\ b \in [People -> Nat]
  BY AtFacts
<1>1. /\ w[0] = d
      /\ \A k \in 1..Len(us) :
           w[k] = WriteRow(w[k - 1], us[k], StatusOf(r, us[k]), OwnerOf(r, us[k]))
      /\ \A k \in 0..Len(us) : Table(w[k])
  BY SavedStep
<1> HIDE DEF w
<1>2. Upto(us, 0) = {} /\ Upto(us, Len(us)) = ToSet(us)
  BY UptoFacts
<1>3. 0 \in good
  BY <1>0, <1>1, <1>2
<1>4. ASSUME NEW k \in 1..Len(us), k - 1 \in good PROVE k \in good
  <2> DEFINE q == At(w[k - 1], c)
             a == At(w[k], c)
             u == us[k]
             U == Upto(us, k - 1)
             V == Upto(us, k)
             n == NextPos(w[k - 1], c)
  <2>0. k - 1 \in 0..Len(us) /\ k \in 0..Len(us) /\ Table(w[k - 1])
    BY <1>0, <1>1
  <2>1. /\ \A v \in People \ U : q[v] = b[v]
        /\ \A v \in U : b[v] # 0 /\ StatusOf(r, v) = c => q[v] = b[v]
        /\ \A v \in U : Enters(d, r, c, v) => \A x \in People : Stays(r, us, c, x) => b[x] < q[v]
        /\ \A j \in 1..(k - 1) : \A i \in 1..(k - 1) :
             i < j /\ Enters(d, r, c, us[i]) /\ Enters(d, r, c, us[j]) => q[us[i]] < q[us[j]]
    BY <1>4
  <2>2. V = U \cup {u} /\ u \in People /\ u \notin U
    BY UptoFacts
  <2>3. U \subseteq People /\ U \subseteq ToSet(us) /\ \A i \in 1..(k - 1) : us[i] \in U
    BY <1>0, UptoFacts DEF Upto, ToSet
  <2>4. w[k] = WriteRow(w[k - 1], u, StatusOf(r, u), OwnerOf(r, u))
    BY <1>1
  <2>5. /\ \A v \in People \ {u} : a[v] = q[v]
        /\ a[u] = IF c # StatusOf(r, u) THEN 0 ELSE IF q[u] # 0 THEN q[u] ELSE n
    <3> HIDE DEF u
    <3>1. StatusOf(r, u) \in Statuses /\ OwnerOf(r, u) \in Owners
      BY StatusFacts
    <3> QED  BY <2>0, <2>2, <2>4, <3>1, WriteRowFacts
  <2>6. n \in Nat /\ q \in [People -> Nat] /\ \A v \in People : q[v] < n
    BY <2>0, NextPosFacts, AtFacts
  <2>7. \A i \in 1..k : i = k \/ i \in 1..(k - 1)
    BY <1>0
  <2>8. us[k] = u /\ \A i \in 1..(k - 1) : us[i] # u /\ us[i] \in People
    BY <2>2, <2>3
  <2> HIDE DEF q, a, u, U, V, n, b
  <2>9. \A v \in People \ V : a[v] = b[v]
    BY <2>1, <2>2, <2>5
  <2>10. ASSUME NEW v \in V, b[v] # 0, StatusOf(r, v) = c PROVE a[v] = b[v]
    <3>1. CASE v = u
      BY <2>1, <2>2, <2>5, <2>10, <3>1
    <3>2. CASE v # u
      BY <2>1, <2>2, <2>3, <2>5, <2>10, <3>2
    <3> QED  BY <3>1, <3>2
  <2>11. ASSUME Enters(d, r, c, u) PROVE a[u] = n
    BY <2>1, <2>2, <2>5, <2>11 DEF Enters, b
  <2>12. ASSUME NEW v \in V, Enters(d, r, c, v), NEW x \in People, Stays(r, us, c, x) PROVE b[x] < a[v]
    <3>1. CASE v = u
      <4>1. b[x] = q[x] \/ b[x] = 0
        <5>1. CASE x \notin U
          BY <2>1, <5>1
        <5>2. CASE x \in U
          <6>1. StatusOf(r, x) = c
            BY <2>3, <2>12, <5>2 DEF Stays
          <6> QED  BY <2>1, <5>2, <6>1
        <5> QED  BY <5>1, <5>2
      <4>2. q[x] < n /\ n \in Nat /\ q[x] \in Nat
        BY <2>6
      <4>3. b[x] < n
        BY <4>1, <4>2
      <4> QED  BY <2>11, <2>12, <3>1, <4>3
    <3>2. CASE v # u
      BY <2>1, <2>2, <2>3, <2>5, <2>12, <3>2
    <3> QED  BY <3>1, <3>2
  <2>13. ASSUME NEW j \in 1..k, NEW i \in 1..k, i < j,
                Enters(d, r, c, us[i]), Enters(d, r, c, us[j])
         PROVE  a[us[i]] < a[us[j]]
    <3>1. i \in 1..(k - 1)
      BY <1>0, <2>13
    <3>2. a[us[i]] = q[us[i]]
      BY <2>5, <2>8, <3>1
    <3>3. CASE j = k
      <4>1. a[us[j]] = n
        BY <2>8, <2>11, <2>13, <3>3
      <4> QED  BY <2>6, <2>8, <3>1, <3>2, <4>1
    <3>4. CASE j # k
      <4>1. j \in 1..(k - 1)
        BY <2>7, <3>4
      <4>2. a[us[j]] = q[us[j]]
        BY <2>5, <2>8, <4>1
      <4> QED  BY <2>1, <2>13, <3>1, <3>2, <4>1, <4>2
    <3> QED  BY <3>3, <3>4
  <2>14. Good(k)
    BY <2>9, <2>10, <2>12, <2>13 DEF a, V
  <2> HIDE DEF Good
  <2> QED  BY <2>0, <2>14
<1> HIDE DEF good
<1>5. \A k \in 0..Len(us) : k \in good
  BY <1>0, <1>3, <1>4, Upwards
<1> QED  BY <1>5 DEF good, w

\* Whom a list puts before whom.
Places(s) == {<<s[p[1]], s[p[2]]>> : p \in {q \in (1..Len(s)) \X (1..Len(s)) : q[1] < q[2]}}

\* A list after some of its people, and others, were written in the order of
\* us: who was on it keeps the order, newcomers follow in that of us.
Continues(new, old, us) ==
  /\ new \in Seq(People)
  /\ ToSet(new) \ ToSet(us) = ToSet(old) \ ToSet(us)
  /\ \E t \in Seq(People) : \E x \in Seq(People) :
       /\ new = t \o x
       /\ ToSet(t) \subseteq ToSet(old) /\ Ordered(t, Places(old))
       /\ ToSet(x) \subseteq ToSet(us) \ ToSet(old) /\ Ordered(x, Places(us))

\* The people of two lists, one behind the other.
LEMMA JoinedSet ==
  ASSUME NEW S, NEW s \in Seq(S), NEW t \in Seq(S)
  PROVE  ToSet(s \o t) = ToSet(s) \cup ToSet(t)
<1> DEFINE c == s \o t
<1>1. /\ c \in Seq(S) /\ Len(c) = Len(s) + Len(t) /\ Len(s) \in Nat /\ Len(t) \in Nat
      /\ \A i \in 1..(Len(s) + Len(t)) : c[i] = IF i <= Len(s) THEN s[i] ELSE t[i - Len(s)]
  BY ConcatProperties
<1> HIDE DEF c
<1>2. ASSUME NEW i \in 1..Len(s) PROVE i \in 1..Len(c) /\ c[i] = s[i]
  BY <1>1
<1>3. ASSUME NEW i \in 1..Len(t) PROVE i + Len(s) \in 1..Len(c) /\ c[i + Len(s)] = t[i]
  <2>1. i + Len(s) \in 1..Len(c) /\ ~(i + Len(s) <= Len(s)) /\ i + Len(s) - Len(s) = i
    BY <1>1
  <2> QED  BY <1>1, <2>1
<1>4. ASSUME NEW i \in 1..Len(c)
      PROVE  (i \in 1..Len(s) /\ c[i] = s[i]) \/ (i - Len(s) \in 1..Len(t) /\ c[i] = t[i - Len(s)])
  BY <1>1
<1>5. ASSUME NEW x PROVE x \in ToSet(c) <=> x \in ToSet(s) \/ x \in ToSet(t)
  <2>1. x \in ToSet(c) => x \in ToSet(s) \/ x \in ToSet(t)
    BY <1>1, <1>4, ToSetElements
  <2>2. x \in ToSet(s) => x \in ToSet(c)
    BY <1>1, <1>2, ToSetElements
  <2>3. ASSUME x \in ToSet(t) PROVE x \in ToSet(c)
    <3>1. PICK i \in 1..Len(t) : t[i] = x
      BY <2>3, ToSetElements
    <3>2. i + Len(s) \in 1..Len(c) /\ c[i + Len(s)] = x
      BY <1>3, <3>1
    <3> QED  BY <1>1, <3>2, ToSetElements
  <2> QED  BY <2>1, <2>2, <2>3
<1> QED  BY <1>5 DEF c

LEMMA PlacesFacts ==
  ASSUME NEW s
  PROVE  /\ Ordered(s, Places(s))
         /\ \A R : Ordered(s, R) => \A x, y : <<x, y>> \in Places(s) => <<x, y>> \in R
<1>1. ASSUME NEW i \in 1..Len(s), NEW j \in 1..Len(s), i < j PROVE <<s[i], s[j]>> \in Places(s)
  <2>1. <<i, j>> \in {q \in (1..Len(s)) \X (1..Len(s)) : q[1] < q[2]}
    BY <1>1
  <2> QED  BY <2>1 DEF Places
<1>2. ASSUME NEW R, Ordered(s, R), NEW x, NEW y, <<x, y>> \in Places(s) PROVE <<x, y>> \in R
  BY <1>2 DEF Places, Ordered
<1> QED  BY <1>1, <1>2 DEF Ordered

LEMMA InTurn ==
  ASSUME NEW P, NEW s \in Seq(P), NEW t \in Seq(P), NEW R, Ordered(s, R), Ordered(t, Places(s))
  PROVE  Ordered(t, R)
<1>1. \A x, y : <<x, y>> \in Places(s) => <<x, y>> \in R
  BY PlacesFacts
<1> QED  BY <1>1, OrderedSame

\* A bucket's list after the row writes of us.
LEMMA SavesInOrder ==
  ASSUME NEW d, Table(d), NEW r \in RollCall, NEW us \in Seq(People), IsInjective(us),
         NEW c \in Columns, NEW old, InOrder(d, c, old), NEW new, Continues(new, old, us),
         \A v \in ToSet(us) : StatusOf(r, v) = c <=> v \in ToSet(new)
  PROVE  InOrder(SavedIn(d, r, us)[Len(us)], c, new)
<1> DEFINE e == SavedIn(d, r, us)[Len(us)]
           a == At(e, c)
           b == At(d, c)
           U == ToSet(us)
<1>0. Len(us) \in Nat /\ Upto(us, Len(us)) = U /\ Len(us) \in 0..Len(us) /\ DOMAIN us = 1..Len(us)
  BY UptoFacts
<1>1. /\ Table(e) /\ Written(e) = Written(d) \cup U
      /\ \A v \in People \ U : e.rows[v] = d.rows[v]
      /\ \A v \in U : e.rows[v].status = StatusOf(r, v)
  BY <1>0, SavedRows
<1>2. /\ \A v \in People \ U : a[v] = b[v]
      /\ \A v \in U : b[v] # 0 /\ StatusOf(r, v) = c => a[v] = b[v]
      /\ \A v \in U : Enters(d, r, c, v) => \A x \in People : Stays(r, us, c, x) => b[x] < a[v]
      /\ \A j \in 1..Len(us) : \A i \in 1..Len(us) :
           i < j /\ Enters(d, r, c, us[i]) /\ Enters(d, r, c, us[j]) => a[us[i]] < a[us[j]]
  <2> HIDE DEF a, b, U
  <2> QED  BY <1>0, SavedPlaces DEF a, b, U
<1>3. /\ old \in Seq(People) /\ IsInjective(old) /\ ToSet(old) = RowsWith(d, c)
      /\ Ordered(old, Ahead(d, c))
  BY InOrderFacts
<1>4. /\ new \in Seq(People) /\ ToSet(new) \ U = ToSet(old) \ U
  BY DEF Continues
<1>5. PICK t \in Seq(People) : \E x \in Seq(People) :
        /\ new = t \o x
        /\ ToSet(t) \subseteq ToSet(old) /\ Ordered(t, Places(old))
        /\ ToSet(x) \subseteq U \ ToSet(old) /\ Ordered(x, Places(us))
  BY DEF Continues
<1>6. PICK x \in Seq(People) :
        /\ new = t \o x
        /\ ToSet(t) \subseteq ToSet(old) /\ Ordered(t, Places(old))
        /\ ToSet(x) \subseteq U \ ToSet(old) /\ Ordered(x, Places(us))
  BY <1>5
<1>7. U \subseteq People /\ \A v \in U : v \in Written(e)
  BY <1>1, ToSetElements
<1>8. \A v \in People : b[v] # 0 <=> v \in ToSet(old)
  BY <1>3, AtFacts
<1>9. ToSet(t) \subseteq ToSet(new) /\ ToSet(x) \subseteq ToSet(new)
  <2>1. ToSet(t \o x) = ToSet(t) \cup ToSet(x)
    BY JoinedSet
  <2> QED  BY <1>6, <2>1
<1>10. RowsWith(e, c) = ToSet(new)
  <2>1. ASSUME NEW v \in People \ U PROVE v \in RowsWith(e, c) <=> v \in RowsWith(d, c)
    BY <1>1 DEF RowsWith, HasRow
  <2>2. ASSUME NEW v \in U PROVE v \in RowsWith(e, c) <=> v \in ToSet(new)
    BY <1>1, <1>7 DEF RowsWith, Written
  <2>3. RowsWith(e, c) \subseteq People /\ ToSet(new) \subseteq People
    BY <1>4, ToSetElements DEF RowsWith
  <2> QED  BY <1>3, <1>4, <1>7, <2>1, <2>2, <2>3
<1>11. Ordered(t, Ahead(e, c))
  <2>1. Ordered(t, Ahead(d, c))
    BY <1>3, <1>6, InTurn
  <2>2. \A v \in ToSet(t) : a[v] = b[v]
    BY <1>2, <1>6, <1>8, <1>9, ToSetElements
  <2> QED  BY <2>1, <2>2, StillInOrder
<1>12. \A v \in ToSet(x) : v \in U /\ Enters(d, r, c, v) /\ v \in People
  BY <1>6, <1>7, <1>8, <1>9 DEF Enters
<1>13. Ordered(x, Ahead(e, c))
  <2>1. ASSUME NEW y \in ToSet(x), NEW z \in ToSet(x), <<y, z>> \in Places(us)
        PROVE  <<y, z>> \in Ahead(e, c)
    <3>1. PICK i \in 1..Len(us), j \in 1..Len(us) : i < j /\ y = us[i] /\ z = us[j]
      BY <2>1 DEF Places
    <3>2. a[y] < a[z]
      BY <1>2, <1>12, <3>1
    <3> QED  BY <1>12, <3>2 DEF Ahead
  <2> QED  BY <1>6, <2>1, OrderedSame
<1>14. \A y \in ToSet(t), z \in ToSet(x) : <<y, z>> \in Ahead(e, c)
  <2> SUFFICES ASSUME NEW y \in ToSet(t), NEW z \in ToSet(x) PROVE <<y, z>> \in Ahead(e, c)
    OBVIOUS
  <2>1. y \in People /\ Stays(r, us, c, y)
    BY <1>9, ToSetElements DEF Stays
  <2>2. b[y] < a[z]
    BY <1>2, <1>12, <2>1
  <2>3. a[y] = b[y]
    BY <1>2, <1>6, <1>8, <1>9, <2>1
  <2> QED  BY <1>12, <2>1, <2>2, <2>3 DEF Ahead
<1>15. Ordered(new, Ahead(e, c))
  BY <1>6, <1>11, <1>13, <1>14, OrderedConcat
<1> QED  BY <1>4, <1>10, <1>15 DEF InOrder, e

(***************************************************************************)
(* Traces.                                                                 *)
(***************************************************************************)
WritesTo(D) == [try : RollCall, rc : RollCall, db : D]

\* Tables that hold the rows of S, and tables one can rely on.
Keeping(S) == {d \in Tables : Table(d) /\ S \subseteq Written(d)}
Neat       == {d \in Tables : Tidy(d)}

\* How a trace ends.
Ends(t, r, d) == t # << >> /\ Last(t).rc = r /\ Last(t).db = d

LEMMA WriteTyped ==
  ASSUME NEW D, NEW d \in D, NEW r \in RollCall, NEW q \in RollCall
  PROVE  /\ Write(q, r, d) \in WritesTo(D)
         /\ Write(q, r, d).rc = r /\ Write(q, r, d).db = d /\ Write(q, r, d).try = q
BY DEF Write, WritesTo

\* Traces of one write, two traces joined, a trace in a larger set.
LEMMA OneWrite ==
  ASSUME NEW D, NEW d \in D, NEW r \in RollCall, NEW q \in RollCall
  PROVE  /\ <<Write(q, r, d)>> \in Seq(WritesTo(D))
         /\ Ends(<<Write(q, r, d)>>, r, d)
<1> DEFINE w == Write(q, r, d)
<1>1. w \in WritesTo(D) /\ w.rc = r /\ w.db = d
  BY WriteTyped
<1> HIDE DEF w
<1>2. <<w>> \in Seq(WritesTo(D)) /\ <<w>> # << >> /\ Last(<<w>>) = w
  BY <1>1 DEF Last
<1> QED  BY <1>1, <1>2 DEF Ends, w

LEMMA JoinedTrace ==
  ASSUME NEW D, NEW s \in Seq(WritesTo(D)), NEW t \in Seq(WritesTo(D))
  PROVE  /\ s \o t \in Seq(WritesTo(D))
         /\ \A r, d : Ends(t, r, d) => Ends(s \o t, r, d)
<1> DEFINE c == s \o t
<1>1. /\ c \in Seq(WritesTo(D)) /\ Len(c) = Len(s) + Len(t) /\ Len(s) \in Nat /\ Len(t) \in Nat
      /\ \A i \in 1..(Len(s) + Len(t)) : c[i] = IF i <= Len(s) THEN s[i] ELSE t[i - Len(s)]
  BY ConcatProperties
<1> HIDE DEF c
<1>2. ASSUME t # << >> PROVE c # << >> /\ Last(c) = Last(t)
  <2>1. Len(t) # 0
    BY <1>2, EmptySeq
  <2>2. Len(c) \in 1..(Len(s) + Len(t)) /\ ~(Len(c) <= Len(s)) /\ Len(c) - Len(s) = Len(t)
    BY <1>1, <2>1
  <2>3. c[Len(c)] = t[Len(t)]
    BY <1>1, <2>2
  <2>4. c # << >>
    BY <2>2, EmptySeq
  <2> QED  BY <2>3, <2>4 DEF Last
<1> QED  BY <1>1, <1>2 DEF Ends, c

LEMMA LongerTrace ==
  ASSUME NEW D, NEW s \in Seq(WritesTo(D)), NEW d \in D, NEW r \in RollCall, NEW q \in RollCall
  PROVE  /\ Append(s, Write(q, r, d)) \in Seq(WritesTo(D))
         /\ Ends(Append(s, Write(q, r, d)), r, d)
<1> DEFINE w == Write(q, r, d)
<1>1. w \in WritesTo(D) /\ <<w>> \in Seq(WritesTo(D)) /\ Ends(<<w>>, r, d)
  BY WriteTyped, OneWrite
<1> HIDE DEF w
<1>2. s \o <<w>> \in Seq(WritesTo(D)) /\ Ends(s \o <<w>>, r, d)
  BY <1>1, JoinedTrace
<1>3. s \o <<w>> = Append(s, w)
  BY <1>1, AppendIsConcat
<1> QED  BY <1>2, <1>3 DEF w

LEMMA WiderTrace ==
  ASSUME NEW D, NEW E, D \subseteq E, NEW s \in Seq(WritesTo(D))
  PROVE  s \in Seq(WritesTo(E))
<1>1. WritesTo(D) \subseteq WritesTo(E)
  BY DEF WritesTo
<1>2. Len(s) \in Nat /\ s \in [1..Len(s) -> WritesTo(D)]
  OBVIOUS
<1>3. s \in [1..Len(s) -> WritesTo(E)]
  BY <1>1, <1>2
<1> QED  BY <1>2, <1>3

\* The row writes, then the rollcall's own row.
LEMMA ClosedTrace ==
  ASSUME NEW d, Table(d), NEW r \in RollCall, NEW us \in Seq(People), NEW D,
         \A k \in 1..Len(us) : SavedIn(d, r, us)[k] \in D,
         UpdateRollcall(SavedIn(d, r, us)[Len(us)], r) \in D
  PROVE  /\ SavesAndClose(d, r, us) \in Seq(WritesTo(D))
         /\ Ends(SavesAndClose(d, r, us), r, UpdateRollcall(SavedIn(d, r, us)[Len(us)], r))
         /\ Saves(d, r, us) \in Seq(WritesTo(D))
<1> DEFINE s == Saves(d, r, us)
           c == SavedIn(d, r, us)
           e == UpdateRollcall(c[Len(us)], r)
<1>1. s = [k \in 1..Len(us) |-> Write(r, r, c[k])] /\ End(s, d) = c[Len(us)] /\ Len(us) \in Nat
  BY SavesFacts
<1> HIDE DEF c
<1>2. \A k \in 1..Len(us) : Write(r, r, c[k]) \in WritesTo(D)
  BY WriteTyped DEF c
<1> HIDE DEF s
<1>3. s \in Seq(WritesTo(D))
  BY <1>1, <1>2
<1>4. SavesAndClose(d, r, us) = Append(s, Write(r, r, e))
  BY <1>1 DEF SavesAndClose, s
<1>5. e \in D
  BY DEF c
<1> HIDE DEF e
<1>6. Append(s, Write(r, r, e)) \in Seq(WritesTo(D)) /\ Ends(Append(s, Write(r, r, e)), r, e)
  BY <1>3, <1>5, LongerTrace
<1> QED  BY <1>3, <1>4, <1>6 DEF e, s, c

\* Whatever is in memory, row writes leave readable tables and lose no row.
LEMMA CloseTyped ==
  ASSUME NEW d, Table(d), NEW r \in RollCall, NEW us \in Seq(People),
         NEW S, S \subseteq Written(d)
  PROVE  /\ SavesAndClose(d, r, us) \in Seq(WritesTo(Keeping(S)))
         /\ \E e \in Keeping(S) : Ends(SavesAndClose(d, r, us), r, e)
         /\ Saves(d, r, us) \in Seq(WritesTo(Keeping(S)))
         /\ End(Saves(d, r, us), d) \in Keeping(S)
<1> DEFINE c == SavedIn(d, r, us)
           l == c[Len(us)]
           e == UpdateRollcall(l, r)
<1>1. \A k \in 0..Len(us) : Table(c[k]) /\ Written(d) \subseteq Written(c[k])
  BY SavedRows
<1>2. Len(us) \in Nat /\ Len(us) \in 0..Len(us) /\ \A k \in 1..Len(us) : k \in 0..Len(us)
  OBVIOUS
<1> HIDE DEF c
<1>3. \A k \in 0..Len(us) : c[k] \in Keeping(S)
  BY <1>1 DEF Keeping, Table
<1>4. Table(l) /\ S \subseteq Written(l) /\ l \in Keeping(S)
  BY <1>1, <1>2, <1>3
<1> HIDE DEF l
<1>5. r.inListLimit \in Limits \cup {NoLimit}
  BY RollCallFields
<1>6. e \in Keeping(S)
  <2>1. Table(e) /\ Written(e) = Written(l)
    BY <1>4, <1>5, CapRowFacts
  <2> QED  BY <1>4, <2>1 DEF Keeping, Table
<1>7. /\ SavesAndClose(d, r, us) \in Seq(WritesTo(Keeping(S)))
      /\ Ends(SavesAndClose(d, r, us), r, e)
      /\ Saves(d, r, us) \in Seq(WritesTo(Keeping(S)))
  <2>1. \A k \in 1..Len(us) : SavedIn(d, r, us)[k] \in Keeping(S)
    BY <1>2, <1>3 DEF c
  <2>2. UpdateRollcall(SavedIn(d, r, us)[Len(us)], r) \in Keeping(S)
    BY <1>6 DEF e, l, c
  <2>3. /\ SavesAndClose(d, r, us) \in Seq(WritesTo(Keeping(S)))
        /\ Ends(SavesAndClose(d, r, us), r, UpdateRollcall(SavedIn(d, r, us)[Len(us)], r))
        /\ Saves(d, r, us) \in Seq(WritesTo(Keeping(S)))
    <3> HIDE DEF e, l, c
    <3> QED  BY <2>1, <2>2, ClosedTrace
  <2> QED  BY <2>3 DEF e, l, c
<1>8. End(Saves(d, r, us), d) = l
  BY SavesFacts DEF l, c
<1> QED  BY <1>4, <1>6, <1>7, <1>8

\* What an operation did in memory, told by the people it writes: everybody
\* else is where they were, but for the order of the waitlist.
Moves(new, r, us) ==
  /\ new \in RollCall /\ Apart(new.inList, new.outList, new.maybeList, new.waitList)
  /\ new.waitList # << >> => Capped(new)
  /\ us \in Seq(People) /\ IsInjective(us) /\ ToSet(us) \subseteq Listed(new)
  /\ Continues(new.inList, r.inList, us)
  /\ Continues(new.outList, r.outList, us)
  /\ ToSet(new.maybeList) \ ToSet(us) = ToSet(r.maybeList) \ ToSet(us)
  /\ ToSet(new.waitList) \ ToSet(us) = ToSet(r.waitList) \ ToSet(us)
  /\ new.proxy_owners = r.proxy_owners
  /\ ToSet(us) \cap Waiting(new) # {} => Capped(r)

Follows(new, r, us) == Moves(new, r, us) /\ Continues(new.waitList, r.waitList, us)

\* What a status says of the lists.
LEMMA StatusMeans ==
  ASSUME NEW r, Apart(r.inList, r.outList, r.maybeList, r.waitList), NEW u \in Listed(r)
  PROVE  /\ StatusOf(r, u) = "in" <=> u \in ToSet(r.inList)
         /\ StatusOf(r, u) = "out" <=> u \in ToSet(r.outList)
         /\ StatusOf(r, u) = "maybe" <=> u \in ToSet(r.maybeList)
         /\ StatusOf(r, u) = "waitlist" <=> u \in ToSet(r.waitList)
BY DEF Apart, Listed, In, Waiting, StatusOf

\* The tables after the row writes stand for the lists in memory.
LEMMA SavesMove ==
  ASSUME NEW r, NEW d, NEW X, KeptBut(r, d, X), NEW new, NEW us, Moves(new, r, us), X \subseteq ToSet(us)
  PROVE  LET e == SavedIn(d, new, us)[Len(us)]
         IN  /\ \A k \in 0..Len(us) : Tidy(SavedIn(d, new, us)[k])
             /\ Table(d) /\ Tidy(e) /\ e.limit = d.limit
             /\ InOrder(e, "in", new.inList) /\ InOrder(e, "out", new.outList)
             /\ Follows(new, r, us) => InOrder(e, "waitlist", new.waitList)
             /\ IsInjective(new.maybeList) /\ ToSet(new.maybeList) = RowsWith(e, "maybe")
             /\ IsInjective(new.waitList) /\ ToSet(new.waitList) = RowsWith(e, "waitlist")
             /\ \A g \in Guests : new.proxy_owners[g] = OwnerIn(e, g)
<1> DEFINE c == SavedIn(d, new, us)
           e == c[Len(us)]
           U == ToSet(us)
<1>1. /\ Tidy(d) /\ Table(d) /\ r \in RollCall /\ new \in RollCall /\ us \in Seq(People) /\ IsInjective(us)
      /\ InOrder(d, "in", r.inList) /\ InOrder(d, "out", r.outList) /\ InOrder(d, "waitlist", r.waitList)
      /\ ToSet(r.maybeList) = RowsWith(d, "maybe") /\ ToSet(r.waitList) = RowsWith(d, "waitlist")
      /\ r.inListLimit = d.limit
      /\ \A g \in Guests \ X : r.proxy_owners[g] = OwnerIn(d, g)
  BY KeptFacts DEF KeptBut, Moves, Waiting
<1>2. Len(us) \in Nat /\ Len(us) \in 0..Len(us) /\ Upto(us, Len(us)) = U /\ U \subseteq People
  BY <1>1, UptoFacts, ToSetElements
<1>3. \A u \in U : /\ StatusOf(new, u) = "in" <=> u \in ToSet(new.inList)
                   /\ StatusOf(new, u) = "out" <=> u \in ToSet(new.outList)
                   /\ StatusOf(new, u) = "maybe" <=> u \in ToSet(new.maybeList)
                   /\ StatusOf(new, u) = "waitlist" <=> u \in ToSet(new.waitList)
  BY StatusMeans DEF Moves
<1>4. InOrder(e, "in", new.inList) /\ InOrder(e, "out", new.outList)
  <2>1. Continues(new.inList, r.inList, us) /\ Continues(new.outList, r.outList, us)
    BY DEF Moves
  <2>2. "in" \in Columns /\ "out" \in Columns
    BY DEF Columns
  <2> QED  BY <1>1, <1>3, <2>1, <2>2, SavesInOrder
<1>5. Follows(new, r, us) => InOrder(e, "waitlist", new.waitList)
  <2>1. Follows(new, r, us) => Continues(new.waitList, r.waitList, us)
    BY DEF Follows
  <2>2. "waitlist" \in Columns
    BY DEF Columns
  <2> QED  BY <1>1, <1>3, <2>1, <2>2, SavesInOrder
<1>6. /\ Table(e) /\ e.limit = d.limit
      /\ Written(e) = Written(d) \cup U
      /\ \A v \in People \ U : e.rows[v] = d.rows[v]
      /\ \A v \in U : /\ e.rows[v].status = StatusOf(new, v)
                      /\ e.rows[v].owner = OwnerOf(new, v)
  BY <1>1, <1>2, SavedRows
<1>7. ASSUME NEW k \in 0..Len(us) PROVE Tidy(c[k])
  <2> DEFINE good == {i \in 0..Len(us) : Tidy(c[i])}
  <2>1. /\ c[0] = d
        /\ \A i \in 1..Len(us) :
             c[i] = WriteRow(c[i - 1], us[i], StatusOf(new, us[i]), OwnerOf(new, us[i]))
    BY <1>1, SavedStep
  <2>2. \A i \in 0..Len(us) : c[i].limit = d.limit
    BY <1>1, SavedRows
  <2> HIDE DEF c
  <2>3. 0 \in good
    BY <1>1, <1>2, <2>1
  <2>4. ASSUME NEW i \in 1..Len(us), i - 1 \in good PROVE i \in good
    <3> DEFINE p == c[i - 1]
               u == us[i]
    <3>1. i \in 0..Len(us) /\ i - 1 \in 0..Len(us) /\ Tidy(p) /\ p.limit = d.limit
      BY <1>2, <2>2, <2>4
    <3>2. u \in People /\ u \in U
      BY <1>1, ToSetElements
    <3>3. StatusOf(new, u) = "waitlist" => d.limit # NoLimit
      BY <1>1, <1>3, <3>2 DEF Moves, Waiting, Capped
    <3>4. c[i] = WriteRow(p, u, StatusOf(new, u), OwnerOf(new, u))
      BY <2>1
    <3> HIDE DEF p, u
    <3>5. Tidy(c[i])
      BY <1>1, <3>1, <3>2, <3>3, <3>4, StatusFacts, WriteKeepsTidy
    <3> QED  BY <3>1, <3>5
  <2> HIDE DEF good
  <2>5. \A i \in 0..Len(us) : i \in good
    BY <1>2, <2>3, <2>4, Upwards
  <2> QED  BY <2>5 DEF good
<1> HIDE DEF c
<1>8. /\ ToSet(new.maybeList) \ U = RowsWith(d, "maybe") \ U
      /\ ToSet(new.waitList) \ U = RowsWith(d, "waitlist") \ U
  BY <1>1 DEF Moves
<1> HIDE DEF e, U
<1>9. ASSUME NEW s, NEW T \in SUBSET People, T \ U = RowsWith(d, s) \ U,
             \A u \in U : StatusOf(new, u) = s <=> u \in T
      PROVE  T = RowsWith(e, s)
  <2>1. ASSUME NEW v \in People \ U PROVE v \in RowsWith(e, s) <=> v \in RowsWith(d, s)
    BY <1>6 DEF RowsWith, HasRow
  <2>2. ASSUME NEW v \in U PROVE v \in RowsWith(e, s) <=> v \in T
    BY <1>2, <1>6, <1>9 DEF RowsWith, Written
  <2>3. RowsWith(e, s) \subseteq People
    BY DEF RowsWith
  <2> QED  BY <1>2, <1>9, <2>1, <2>2, <2>3
<1>10. ToSet(new.maybeList) = RowsWith(e, "maybe") /\ ToSet(new.waitList) = RowsWith(e, "waitlist")
  <2>1. ToSet(new.maybeList) \in SUBSET People /\ ToSet(new.waitList) \in SUBSET People
    BY <1>1, RollCallFields, ToSetElements
  <2>2. \A u \in U : /\ StatusOf(new, u) = "maybe" <=> u \in ToSet(new.maybeList)
                     /\ StatusOf(new, u) = "waitlist" <=> u \in ToSet(new.waitList)
    BY <1>3 DEF U
  <2>3. ToSet(new.maybeList) = RowsWith(e, "maybe")
    BY <1>8, <1>9, <2>1, <2>2
  <2>4. ToSet(new.waitList) = RowsWith(e, "waitlist")
    BY <1>8, <1>9, <2>1, <2>2
  <2> QED  BY <2>3, <2>4
<1>11. ASSUME NEW g \in Guests PROVE new.proxy_owners[g] = OwnerIn(e, g)
  <2>1. g \in People
    BY DEF People
  <2>2. CASE g \in U
    BY <1>2, <1>6, <2>1, <2>2 DEF OwnerIn, OwnerOf, Written
  <2>3. CASE g \notin U
    <3>1. e.rows[g] = d.rows[g] /\ (HasRow(e, g) <=> HasRow(d, g)) /\ g \notin X
      BY <1>6, <2>1, <2>3 DEF HasRow, U
    <3>2. OwnerIn(e, g) = OwnerIn(d, g)
      BY <3>1 DEF OwnerIn
    <3> QED  BY <1>1, <3>1, <3>2 DEF Moves
  <2> QED  BY <2>2, <2>3
<1>12. IsInjective(new.maybeList) /\ IsInjective(new.waitList)
  BY DEF Moves, Apart
<1>13. Tidy(e)
  BY <1>2, <1>7 DEF e
<1> QED  BY <1>1, <1>4, <1>5, <1>6, <1>7, <1>10, <1>11, <1>12, <1>13 DEF e, c

\* An operation that ends with its row writes and the rollcall's own row.
LEMMA CloseKept ==
  ASSUME NEW r, NEW d, NEW X, KeptBut(r, d, X), NEW new, NEW us, Follows(new, r, us), X \subseteq ToSet(us)
  PROVE  LET t == SavesAndClose(d, new, us)
         IN  t \in Seq(WritesTo(Neat)) /\ \E e : Ends(t, new, e) /\ Kept(new, e)
<1> DEFINE c == SavedIn(d, new, us)
           l == c[Len(us)]
           e == UpdateRollcall(l, new)
<1>1. /\ \A k \in 0..Len(us) : Tidy(c[k])
      /\ Table(d) /\ Tidy(l) /\ l.limit = d.limit
      /\ InOrder(l, "in", new.inList) /\ InOrder(l, "out", new.outList)
      /\ InOrder(l, "waitlist", new.waitList)
      /\ IsInjective(new.maybeList) /\ ToSet(new.maybeList) = RowsWith(l, "maybe")
      /\ IsInjective(new.waitList) /\ ToSet(new.waitList) = RowsWith(l, "waitlist")
      /\ \A g \in Guests : new.proxy_owners[g] = OwnerIn(l, g)
  <2>1. Moves(new, r, us)
    BY DEF Follows
  <2> QED  BY <2>1, SavesMove
<1>2. new \in RollCall /\ us \in Seq(People) /\ Len(us) \in Nat /\ new.inListLimit \in Limits \cup {NoLimit}
      /\ (new.waitList # << >> => Capped(new)) /\ new.waitList \in Seq(People)
  BY RollCallFields DEF Follows, Moves
<1> HIDE DEF c, l
<1>3. /\ Table(e) /\ e.limit = new.inListLimit /\ e.rows = l.rows
      /\ \A b \in Statuses : RowsWith(e, b) = RowsWith(l, b)
      /\ \A b \in Columns : \A s : InOrder(l, b, s) => InOrder(e, b, s)
      /\ Distinct(e)
  BY <1>1, <1>2, CapRowFacts DEF Tidy
<1>4. RowsWith(e, "waitlist") = RowsWith(l, "waitlist") /\ RowsWith(e, "maybe") = RowsWith(l, "maybe")
  BY <1>3 DEF Statuses, Answers
<1>5. WaitsForCap(e)
  <2>1. ASSUME RowsWith(e, "waitlist") # {} PROVE new.waitList # << >>
    <3>1. ToSet(new.waitList) # {}
      BY <1>1, <1>4, <2>1
    <3>2. ToSet(<< >>) = {}
      BY DEF ToSet
    <3> QED  BY <3>1, <3>2
  <2> QED  BY <1>2, <1>3, <2>1 DEF WaitsForCap, Capped
<1>6. Tidy(e)
  BY <1>3, <1>5 DEF Tidy
<1>7. \A g \in Guests : OwnerIn(e, g) = OwnerIn(l, g)
  BY <1>3 DEF OwnerIn, HasRow
<1>8. Kept(new, e)
  <2>1. InOrder(e, "in", new.inList) /\ InOrder(e, "out", new.outList) /\ InOrder(e, "waitlist", new.waitList)
    BY <1>1, <1>3 DEF Columns
  <2> HIDE DEF e
  <2> QED  BY <1>1, <1>2, <1>3, <1>4, <1>6, <1>7, <2>1 DEF Kept, KeptBut
<1>9. /\ SavesAndClose(d, new, us) \in Seq(WritesTo(Neat))
      /\ Ends(SavesAndClose(d, new, us), new, e)
  <2>1. ASSUME NEW k \in 1..Len(us) PROVE SavedIn(d, new, us)[k] \in Neat
    <3>1. k \in 0..Len(us)
      BY <1>2
    <3> QED  BY <1>1, <3>1 DEF Neat, Tidy, Table, c
  <2>2. UpdateRollcall(SavedIn(d, new, us)[Len(us)], new) \in Neat
    BY <1>6 DEF e, l, c, Neat, Tidy, Table
  <2>3. /\ SavesAndClose(d, new, us) \in Seq(WritesTo(Neat))
        /\ Ends(SavesAndClose(d, new, us), new, UpdateRollcall(SavedIn(d, new, us)[Len(us)], new))
    <3> HIDE DEF e, l, c
    <3> QED  BY <1>1, <1>2, <2>1, <2>2, ClosedTrace
  <2> QED  BY <2>3 DEF e, l, c
<1> QED  BY <1>8, <1>9

\* A lowered cap's row writes, then the waitlist's new order.
LEMMA DemotedKept ==
  ASSUME NEW r, NEW d, Kept(r, d), NEW new, NEW us, Moves(new, r, us), new.inListLimit = r.inListLimit
  PROVE  LET s == Saves(d, new, us)
             e == ReorderWaitlist(End(s, d), new.waitList)
         IN  s \in Seq(WritesTo(Neat)) /\ Kept(new, e)
<1> DEFINE c == SavedIn(d, new, us)
           l == c[Len(us)]
           s == Saves(d, new, us)
           e == ReorderWaitlist(l, new.waitList)
<1>1. /\ \A k \in 0..Len(us) : Tidy(c[k])
      /\ Table(d) /\ Tidy(l) /\ l.limit = d.limit
      /\ InOrder(l, "in", new.inList) /\ InOrder(l, "out", new.outList)
      /\ IsInjective(new.maybeList) /\ ToSet(new.maybeList) = RowsWith(l, "maybe")
      /\ IsInjective(new.waitList) /\ ToSet(new.waitList) = RowsWith(l, "waitlist")
      /\ \A g \in Guests : new.proxy_owners[g] = OwnerIn(l, g)
  BY SavesMove DEF Kept
<1>2. /\ new \in RollCall /\ us \in Seq(People) /\ Len(us) \in Nat /\ new.waitList \in Seq(People)
      /\ r.inListLimit = d.limit
  BY RollCallFields DEF Moves, Kept, KeptBut
<1>3. s = [k \in 1..Len(us) |-> Write(new, new, c[k])] /\ End(s, d) = l
  BY <1>1, <1>2, SavesFacts
<1> HIDE DEF c, l, s
<1>4. /\ Tidy(e) /\ InOrder(e, "waitlist", new.waitList)
      /\ \A b \in Columns \ {"waitlist"} : \A q : InOrder(l, b, q) => InOrder(e, b, q)
  BY <1>1, <1>2, ReorderMoves
<1>5. /\ e.limit = l.limit /\ RowsWith(e, "maybe") = RowsWith(l, "maybe")
      /\ Written(e) = Written(l)
      /\ \A u \in Written(l) : e.rows[u].owner = l.rows[u].owner
  BY <1>1, <1>2, ReorderFacts DEF Tidy, Statuses, Answers
<1> HIDE DEF e
<1>6. ASSUME NEW g \in Guests PROVE OwnerIn(e, g) = OwnerIn(l, g)
  <2>1. g \in People /\ (HasRow(e, g) <=> HasRow(l, g))
    BY <1>5 DEF Written, People
  <2> QED  BY <1>5, <2>1 DEF OwnerIn, Written
<1>7. InOrder(e, "in", new.inList) /\ InOrder(e, "out", new.outList)
  BY <1>1, <1>4 DEF Columns
<1>8. Kept(new, e)
  BY <1>1, <1>2, <1>4, <1>5, <1>6, <1>7 DEF Kept, KeptBut
<1>9. s \in Seq(WritesTo(Neat))
  <2>1. ASSUME NEW k \in 1..Len(us) PROVE Write(new, new, c[k]) \in WritesTo(Neat)
    <3>1. k \in 0..Len(us)
      BY <1>2
    <3>2. c[k] \in Neat
      BY <1>1, <3>1 DEF Neat, Tidy, Table
    <3> QED  BY <1>2, <3>2, WriteTyped
  <2> QED  BY <1>2, <1>3, <2>1
<1> QED  BY <1>3, <1>8, <1>9 DEF e, s

(***************************************************************************)
(* The operations in memory, field by field, on any four lists.            *)
(***************************************************************************)
LEMMA RemoveFirstTyped ==
  ASSUME NEW S, NEW s \in Seq(S), NEW u
  PROVE  RemoveFirst(s, u) \in Seq(S)
<1> DEFINE I == {i \in 1..Len(s) : s[i] = u}
<1>1. CASE I = {}
  BY <1>1 DEF RemoveFirst
<1>2. CASE I # {}
  <2>1. PICK m \in I : \A k \in I : m <= k
    <3>1. I \in SUBSET Nat
      OBVIOUS
    <3> HIDE DEF I
    <3> QED  BY <1>2, <3>1, Smallest
  <2>2. Min(I) \in I
    <3>1. \E x \in I : \A y \in I : x <= y
      BY <2>1
    <3> HIDE DEF I
    <3> QED  BY <3>1 DEF Min
  <2>3. SelectInSeq(s, LAMBDA v : v = u) = Min(I)
    BY <1>2 DEF SelectInSeq
  <2>4. RemoveFirst(s, u) = RemoveAt(s, Min(I))
    BY <1>2, <2>3 DEF RemoveFirst
  <2> DEFINE k == Min(I)
  <2>5. k \in 1..Len(s)
    BY <2>2
  <2> HIDE DEF k
  <2>6. RemoveAt(s, k) \in Seq(S)
    BY <2>5, RemoveAtElements
  <2> QED  BY <2>4, <2>6 DEF k
<1> QED  BY <1>1, <1>2

\* The fields of a rollcall after each operator.
LEMMA AddInFields ==
  ASSUME NEW r \in RollCall, NEW u \in People
  PROVE  LET a == AddIn(r, u)
             w == RemoveFirst(r.waitList, u)
             has == u \in In(r) \/ (Capped(r) /\ u \in Waiting(r))
         IN  /\ a \in RollCall /\ a.inListLimit = r.inListLimit /\ a.proxy_owners = r.proxy_owners
             /\ has => a = r
             /\ ~has => /\ a.inList = IF Full(r) THEN r.inList ELSE Append(r.inList, u)
                        /\ a.waitList = IF Full(r) THEN Append(w, u) ELSE w
                        /\ a.outList = RemoveFirst(r.outList, u)
                        /\ a.maybeList = RemoveFirst(r.maybeList, u)
<1> DEFINE o == RemoveFirst(r.outList, u)
           m == RemoveFirst(r.maybeList, u)
           w == RemoveFirst(r.waitList, u)
           left == [r EXCEPT !.outList = o, !.maybeList = m, !.waitList = w]
           a == AddIn(r, u)
           has == u \in In(r) \/ (Capped(r) /\ u \in Waiting(r))
<1>1. /\ r.inList \in Seq(People) /\ r.outList \in Seq(People)
      /\ r.maybeList \in Seq(People) /\ r.waitList \in Seq(People)
  BY RollCallFields
<1>2. o \in Seq(People) /\ m \in Seq(People) /\ w \in Seq(People)
  BY <1>1, RemoveFirstTyped
<1>3. CASE has
  BY <1>3 DEF AddIn
<1>4. CASE ~has
  <2>1. a = IF Full(left) THEN [left EXCEPT !.waitList = Append(w, u)]
                          ELSE [left EXCEPT !.inList   = Append(r.inList, u)]
    <3>1. a = IF Full(left) THEN [left EXCEPT !.waitList = Append(@, u)]
                            ELSE [left EXCEPT !.inList   = Append(@, u)]
      BY <1>4 DEF AddIn
    <3> HIDE DEF a, o, m, w
    <3> QED  BY <3>1 DEF RollCall
  <2> HIDE DEF a, o, m, w, has
  <2>2. left.inList = r.inList /\ left.inListLimit = r.inListLimit
    BY DEF RollCall
  <2>3. Full(left) <=> Full(r)
    BY <2>2 DEF Full, Capped
  <2>4. Append(w, u) \in Seq(People) /\ Append(r.inList, u) \in Seq(People)
    BY <1>1, <1>2
  <2>5. CASE Full(r)
    <3>1. a = [left EXCEPT !.waitList = Append(w, u)]
      BY <2>1, <2>3, <2>5
    <3>2. /\ a \in RollCall /\ a.inListLimit = r.inListLimit /\ a.proxy_owners = r.proxy_owners
          /\ a.inList = r.inList /\ a.waitList = Append(w, u) /\ a.outList = o /\ a.maybeList = m
      BY <1>2, <2>4, <3>1 DEF RollCall
    <3> QED  BY <1>4, <2>5, <3>2 DEF a, o, m, w, has
  <2>6. CASE ~Full(r)
    <3>1. a = [left EXCEPT !.inList = Append(r.inList, u)]
      BY <2>1, <2>3, <2>6
    <3>2. /\ a \in RollCall /\ a.inListLimit = r.inListLimit /\ a.proxy_owners = r.proxy_owners
          /\ a.inList = Append(r.inList, u) /\ a.waitList = w /\ a.outList = o /\ a.maybeList = m
      BY <1>2, <2>4, <3>1 DEF RollCall
    <3> QED  BY <1>4, <2>6, <3>2 DEF a, o, m, w, has
  <2> QED  BY <2>5, <2>6
<1> QED  BY <1>3, <1>4

\* Leaving the line and passing the slot on, for addOut and addMaybe.
Seats(r, u) == RemoveFirst(r.inList, u)
Queue(r, u) == IF Capped(r) THEN RemoveFirst(r.waitList, u) ELSE r.waitList
PassedOn(r, u) == Capped(r) /\ Len(Seats(r, u)) < r.inListLimit /\ Queue(r, u) # << >>

LEMMA LeftFields ==
  ASSUME NEW r \in RollCall, NEW u \in People
  PROVE  LET l == LeaveLine(r, u)
         IN  /\ Seats(r, u) \in Seq(People) /\ Queue(r, u) \in Seq(People)
             /\ l \in RollCall /\ l.inList = Seats(r, u) /\ l.waitList = Queue(r, u)
             /\ l.outList = r.outList /\ l.maybeList = r.maybeList
             /\ l.inListLimit = r.inListLimit /\ l.proxy_owners = r.proxy_owners
<1> DEFINE i == Seats(r, u)
           w == Queue(r, u)
           l == LeaveLine(r, u)
<1>1. r.inList \in Seq(People) /\ r.waitList \in Seq(People)
  BY RollCallFields
<1>2. i \in Seq(People) /\ w \in Seq(People)
  BY <1>1, RemoveFirstTyped DEF Seats, Queue
<1>3. l = [r EXCEPT !.inList = i, !.waitList = w]
  BY DEF LeaveLine, Seats, Queue
<1> HIDE DEF i, w, l
<1>4. /\ l \in RollCall /\ l.inList = i /\ l.waitList = w
      /\ l.outList = r.outList /\ l.maybeList = r.maybeList
      /\ l.inListLimit = r.inListLimit /\ l.proxy_owners = r.proxy_owners
  BY <1>2, <1>3 DEF RollCall
<1> QED  BY <1>2, <1>4 DEF i, w, l

LEMMA PromotedFields ==
  ASSUME NEW r \in RollCall, NEW u \in People, NEW left \in RollCall,
         left.inList = Seats(r, u), left.waitList = Queue(r, u), left.inListLimit = r.inListLimit
  PROVE  LET p == PromoteHead(left)
         IN  /\ p \in RollCall /\ p.outList = left.outList /\ p.maybeList = left.maybeList
             /\ p.inListLimit = r.inListLimit /\ p.proxy_owners = left.proxy_owners
             /\ p.inList = IF PassedOn(r, u) THEN Append(Seats(r, u), Head(Queue(r, u))) ELSE Seats(r, u)
             /\ p.waitList = IF PassedOn(r, u) THEN Tail(Queue(r, u)) ELSE Queue(r, u)
<1> DEFINE i == Seats(r, u)
           w == Queue(r, u)
           p == PromoteHead(left)
<1>1. i \in Seq(People) /\ w \in Seq(People)
  BY LeftFields
<1>2. w # << >> => Head(w) \in People /\ Tail(w) \in Seq(People)
  <2> HIDE DEF w
  <2> QED  BY <1>1, HeadTailProperties
<1>3. (Room(left) /\ left.waitList # << >>) <=> PassedOn(r, u)
  BY DEF Room, Capped, PassedOn
<1>4. p = IF Room(left) /\ left.waitList # << >>
          THEN [left EXCEPT !.inList = Append(@, Head(left.waitList)), !.waitList = Tail(@)] ELSE left
  BY DEF PromoteHead
<1>5. left.inList = i /\ left.waitList = w
  OBVIOUS
<1> HIDE DEF i, w, p
<1>8. CASE PassedOn(r, u)
  <2>1. p = [left EXCEPT !.inList = Append(i, Head(w)), !.waitList = Tail(w)]
    BY <1>3, <1>4, <1>5, <1>8
  <2>2. Append(i, Head(w)) \in Seq(People) /\ Tail(w) \in Seq(People)
    BY <1>1, <1>2, <1>8 DEF PassedOn, w
  <2>3. /\ p \in RollCall /\ p.outList = left.outList /\ p.maybeList = left.maybeList
        /\ p.inListLimit = left.inListLimit /\ p.proxy_owners = left.proxy_owners
        /\ p.inList = Append(i, Head(w)) /\ p.waitList = Tail(w)
    BY <2>1, <2>2 DEF RollCall
  <2> QED  BY <1>8, <2>3 DEF i, w, p
<1>9. CASE ~PassedOn(r, u)
  <2>1. p = left
    BY <1>3, <1>4, <1>9
  <2> QED  BY <1>5, <1>9, <2>1 DEF i, w, p
<1> QED  BY <1>8, <1>9

LEMMA AddOutFields ==
  ASSUME NEW r \in RollCall, NEW u \in People
  PROVE  LET a == AddOut(r, u)
         IN  /\ a \in RollCall /\ a.inListLimit = r.inListLimit /\ a.proxy_owners = r.proxy_owners
             /\ u \in ToSet(r.outList) => a = r
             /\ u \notin ToSet(r.outList) =>
                  /\ a.inList = IF PassedOn(r, u) THEN Append(Seats(r, u), Head(Queue(r, u))) ELSE Seats(r, u)
                  /\ a.waitList = IF PassedOn(r, u) THEN Tail(Queue(r, u)) ELSE Queue(r, u)
                  /\ a.maybeList = RemoveFirst(r.maybeList, u)
                  /\ a.outList = Append(r.outList, u)
<1> DEFINE x == RemoveFirst(r.maybeList, u)
           l == LeaveLine(r, u)
           left == [l EXCEPT !.maybeList = RemoveFirst(@, u)]
           p == PromoteHead(left)
           y == Append(r.outList, u)
           a == AddOut(r, u)
<1>1. x \in Seq(People) /\ y \in Seq(People)
  <2>1. r.maybeList \in Seq(People) /\ r.outList \in Seq(People)
    BY RollCallFields
  <2> QED  BY <2>1, RemoveFirstTyped
<1>2. CASE u \in ToSet(r.outList)
  BY <1>2 DEF AddOut
<1>3. CASE u \notin ToSet(r.outList)
  <2>1. a = [p EXCEPT !.outList = Append(@, u)]
    BY <1>3 DEF AddOut
  <2>2. /\ l \in RollCall /\ l.inList = Seats(r, u) /\ l.waitList = Queue(r, u)
        /\ l.outList = r.outList /\ l.maybeList = r.maybeList
        /\ l.inListLimit = r.inListLimit /\ l.proxy_owners = r.proxy_owners
    BY LeftFields
  <2> HIDE DEF l, p, a
  <2>3. left = [l EXCEPT !.maybeList = x]
    BY <2>2 DEF RollCall
  <2> HIDE DEF x, y, left
  <2>4. /\ left \in RollCall /\ left.inList = Seats(r, u) /\ left.waitList = Queue(r, u)
        /\ left.maybeList = x /\ left.outList = r.outList
        /\ left.inListLimit = r.inListLimit /\ left.proxy_owners = r.proxy_owners
    BY <1>1, <2>2, <2>3 DEF RollCall
  <2>5. /\ p \in RollCall /\ p.maybeList = x /\ p.outList = r.outList
        /\ p.inListLimit = r.inListLimit /\ p.proxy_owners = r.proxy_owners
        /\ p.inList = IF PassedOn(r, u) THEN Append(Seats(r, u), Head(Queue(r, u))) ELSE Seats(r, u)
        /\ p.waitList = IF PassedOn(r, u) THEN Tail(Queue(r, u)) ELSE Queue(r, u)
    BY <2>4, PromotedFields DEF p
  <2>6. a = [p EXCEPT !.outList = y]
    BY <2>1, <2>5 DEF RollCall, y
  <2>7. /\ a \in RollCall /\ a.inListLimit = p.inListLimit /\ a.proxy_owners = p.proxy_owners
        /\ a.inList = p.inList /\ a.waitList = p.waitList /\ a.maybeList = p.maybeList /\ a.outList = y
    BY <1>1, <2>5, <2>6 DEF RollCall
  <2> QED  BY <1>3, <2>5, <2>7 DEF a, x, y
<1> QED  BY <1>2, <1>3

LEMMA AddMaybeFields ==
  ASSUME NEW r \in RollCall, NEW u \in People
  PROVE  LET a == AddMaybe(r, u)
         IN  /\ a \in RollCall /\ a.inListLimit = r.inListLimit /\ a.proxy_owners = r.proxy_owners
             /\ u \in ToSet(r.maybeList) => a = r
             /\ u \notin ToSet(r.maybeList) =>
                  /\ a.inList = IF PassedOn(r, u) THEN Append(Seats(r, u), Head(Queue(r, u))) ELSE Seats(r, u)
                  /\ a.waitList = IF PassedOn(r, u) THEN Tail(Queue(r, u)) ELSE Queue(r, u)
                  /\ a.outList = RemoveFirst(r.outList, u)
                  /\ a.maybeList = Append(r.maybeList, u)
<1> DEFINE x == RemoveFirst(r.outList, u)
           l == LeaveLine(r, u)
           left == [l EXCEPT !.outList = RemoveFirst(@, u)]
           p == PromoteHead(left)
           y == Append(r.maybeList, u)
           a == AddMaybe(r, u)
<1>1. x \in Seq(People) /\ y \in Seq(People)
  <2>1. r.outList \in Seq(People) /\ r.maybeList \in Seq(People)
    BY RollCallFields
  <2> QED  BY <2>1, RemoveFirstTyped
<1>2. CASE u \in ToSet(r.maybeList)
  BY <1>2 DEF AddMaybe
<1>3. CASE u \notin ToSet(r.maybeList)
  <2>1. a = [p EXCEPT !.maybeList = Append(@, u)]
    BY <1>3 DEF AddMaybe
  <2>2. /\ l \in RollCall /\ l.inList = Seats(r, u) /\ l.waitList = Queue(r, u)
        /\ l.outList = r.outList /\ l.maybeList = r.maybeList
        /\ l.inListLimit = r.inListLimit /\ l.proxy_owners = r.proxy_owners
    BY LeftFields
  <2> HIDE DEF l, p, a
  <2>3. left = [l EXCEPT !.outList = x]
    BY <2>2 DEF RollCall
  <2> HIDE DEF x, y, left
  <2>4. /\ left \in RollCall /\ left.inList = Seats(r, u) /\ left.waitList = Queue(r, u)
        /\ left.outList = x /\ left.maybeList = r.maybeList
        /\ left.inListLimit = r.inListLimit /\ left.proxy_owners = r.proxy_owners
    BY <1>1, <2>2, <2>3 DEF RollCall
  <2>5. /\ p \in RollCall /\ p.outList = x /\ p.maybeList = r.maybeList
        /\ p.inListLimit = r.inListLimit /\ p.proxy_owners = r.proxy_owners
        /\ p.inList = IF PassedOn(r, u) THEN Append(Seats(r, u), Head(Queue(r, u))) ELSE Seats(r, u)
        /\ p.waitList = IF PassedOn(r, u) THEN Tail(Queue(r, u)) ELSE Queue(r, u)
    BY <2>4, PromotedFields DEF p
  <2>6. a = [p EXCEPT !.maybeList = y]
    BY <2>1, <2>5 DEF RollCall, y
  <2>7. /\ a \in RollCall /\ a.inListLimit = p.inListLimit /\ a.proxy_owners = p.proxy_owners
        /\ a.inList = p.inList /\ a.waitList = p.waitList /\ a.outList = p.outList /\ a.maybeList = y
    BY <1>1, <2>5, <2>6 DEF RollCall
  <2> QED  BY <1>3, <2>5, <2>7 DEF a, x, y
<1> QED  BY <1>2, <1>3

\* Each operator makes a rollcall of a rollcall.
LEMMA AddTyped ==
  ASSUME NEW r \in RollCall, NEW u \in People, NEW answer \in Answers
  PROVE  Add(r, u, answer) \in RollCall
<1>1. AddIn(r, u) \in RollCall /\ AddOut(r, u) \in RollCall /\ AddMaybe(r, u) \in RollCall
  BY AddInFields, AddOutFields, AddMaybeFields
<1> QED  BY <1>1 DEF Add, Answers

\* The first n who wait move up.
Fills(a, r, n) ==
  /\ n \in 0..Len(r.waitList)
  /\ a.inList = r.inList \o SubSeq(r.waitList, 1, n)
  /\ a.waitList = SubSeq(r.waitList, n + 1, Len(r.waitList))

\* The fields after a promotion, a cap and a new owner.
LEMMA FillFields ==
  ASSUME NEW r \in RollCall
  PROVE  LET a == FillWaitlistSlots(r)
         IN  /\ a \in RollCall /\ a.outList = r.outList /\ a.maybeList = r.maybeList
             /\ a.inListLimit = r.inListLimit /\ a.proxy_owners = r.proxy_owners
             /\ a # r => Capped(r) /\ \E n : Fills(a, r, n)
<1> DEFINE w == r.waitList
           k == r.inListLimit - Len(r.inList)
           n == IF k < Len(w) THEN k ELSE Len(w)
           i == r.inList \o SubSeq(w, 1, n)
           v == SubSeq(w, n + 1, Len(w))
           a == FillWaitlistSlots(r)
<1>1. /\ r.inList \in Seq(People) /\ w \in Seq(People) /\ Len(w) \in Nat /\ Len(r.inList) \in Nat
      /\ r.inListLimit \in Limits \cup {NoLimit}
  BY RollCallFields
<1>2. CASE ~Room(r)
  BY <1>2 DEF FillWaitlistSlots
<1>3. CASE Room(r)
  <2>1. r.inListLimit \in Nat /\ Len(r.inList) < r.inListLimit /\ Capped(r)
    BY <1>1, <1>3, LimitAssumption DEF Room, Capped
  <2>2. n \in 0..Len(w)
    BY <1>1, <2>1
  <2>3. a = PromoteSlots(r, k)
    BY <1>3 DEF FillWaitlistSlots
  <2>4. a = [r EXCEPT !.inList = @ \o SubSeq(w, 1, n), !.waitList = SubSeq(@, n + 1, Len(@))]
    BY <2>3 DEF PromoteSlots
  <2> HIDE DEF a, n
  <2>5. a = [r EXCEPT !.inList = i, !.waitList = v]
    BY <2>4 DEF RollCall
  <2>6. i \in Seq(People) /\ v \in Seq(People)
    <3> HIDE DEF w
    <3>1. SubSeq(w, 1, n) \in Seq(People) /\ SubSeq(w, n + 1, Len(w)) \in Seq(People)
      BY <1>1, <2>2
    <3> QED  BY <1>1, <3>1
  <2> HIDE DEF i, v
  <2>7. /\ a \in RollCall /\ a.outList = r.outList /\ a.maybeList = r.maybeList
        /\ a.inListLimit = r.inListLimit /\ a.proxy_owners = r.proxy_owners
        /\ a.inList = i /\ a.waitList = v
    BY <2>5, <2>6 DEF RollCall
  <2>8. Fills(a, r, n)
    BY <2>2, <2>7 DEF Fills, i, v
  <2> QED  BY <2>1, <2>7, <2>8 DEF a
<1> QED  BY <1>2, <1>3

LEMMA CapFields ==
  ASSUME NEW r \in RollCall, NEW n \in Limits \cup {NoLimit}
  PROVE  LET a == [r EXCEPT !.inListLimit = n]
         IN  /\ a \in RollCall /\ a.inList = r.inList /\ a.outList = r.outList
             /\ a.maybeList = r.maybeList /\ a.waitList = r.waitList
             /\ a.inListLimit = n /\ a.proxy_owners = r.proxy_owners
BY DEF RollCall

LEMMA LimitFields ==
  ASSUME NEW r \in RollCall, NEW n \in Limits
  PROVE  LET a == SetWaitLimit(r, n)
         IN  /\ a \in RollCall
             /\ n = 0 => /\ a.inList = r.inList \o r.waitList /\ a.waitList = << >>
                         /\ a.outList = r.outList /\ a.maybeList = r.maybeList
                         /\ a.inListLimit = NoLimit /\ a.proxy_owners = r.proxy_owners
             /\ n # 0 /\ Len(r.inList) > n =>
                  /\ n \in 0..Len(r.inList)
                  /\ a.inList = SubSeq(r.inList, 1, n)
                  /\ a.waitList = SubSeq(r.inList, n + 1, Len(r.inList)) \o r.waitList
                  /\ a.outList = r.outList /\ a.maybeList = r.maybeList
                  /\ a.inListLimit = n /\ a.proxy_owners = r.proxy_owners
             /\ n # 0 /\ ~(Len(r.inList) > n) => a = FillWaitlistSlots([r EXCEPT !.inListLimit = n])
<1> DEFINE s == r.inList
           w == r.waitList
           a == SetWaitLimit(r, n)
           moved == [r EXCEPT !.inListLimit = n]
<1>1. s \in Seq(People) /\ w \in Seq(People) /\ Len(s) \in Nat /\ Len(w) \in Nat /\ n \in Nat
  BY RollCallFields, LimitAssumption
<1>2. /\ moved \in RollCall /\ moved.inList = s /\ moved.outList = r.outList
      /\ moved.maybeList = r.maybeList /\ moved.waitList = w
      /\ moved.inListLimit = n /\ moved.proxy_owners = r.proxy_owners
  BY CapFields
<1>3. CASE n = 0
  <2> DEFINE i == s \o w
  <2>1. a = [r EXCEPT !.inListLimit = NoLimit, !.inList = @ \o w, !.waitList = << >>]
    BY <1>3 DEF SetWaitLimit
  <2>2. i \in Seq(People) /\ << >> \in Seq(People)
    <3> HIDE DEF s, w
    <3> QED  BY <1>1
  <2> HIDE DEF a
  <2>3. a = [r EXCEPT !.inListLimit = NoLimit, !.inList = i, !.waitList = << >>]
    BY <2>1 DEF RollCall
  <2> HIDE DEF i
  <2>4. /\ a \in RollCall /\ a.inList = i /\ a.waitList = << >>
        /\ a.outList = r.outList /\ a.maybeList = r.maybeList
        /\ a.inListLimit = NoLimit /\ a.proxy_owners = r.proxy_owners
    BY <2>2, <2>3 DEF RollCall
  <2> QED  BY <1>3, <2>4 DEF a, i
<1>4. CASE n # 0 /\ Len(s) > n
  <2> DEFINE i == SubSeq(s, 1, n)
             x == SubSeq(s, n + 1, Len(s))
             v == x \o w
  <2> HIDE DEF moved
  <2>1. a = DemoteExcess(moved)
    BY <1>4 DEF SetWaitLimit, moved
  <2>2. n \in 0..Len(s)
    BY <1>1, <1>4
  <2>3. a = [moved EXCEPT !.inList = i, !.waitList = v]
    <3>1. a = [moved EXCEPT !.inList = SubSeq(@, 1, moved.inListLimit),
                            !.waitList = SubSeq(moved.inList, moved.inListLimit + 1, Len(moved.inList)) \o @]
      BY <2>1 DEF DemoteExcess
    <3> HIDE DEF a
    <3>2. a = [moved EXCEPT !.inList = SubSeq(@, 1, n), !.waitList = SubSeq(s, n + 1, Len(s)) \o @]
      BY <1>2, <3>1
    <3> HIDE DEF s, w
    <3> QED  BY <1>2, <3>2 DEF RollCall
  <2>4. i \in Seq(People) /\ v \in Seq(People)
    <3> HIDE DEF s, w
    <3>1. i \in Seq(People) /\ x \in Seq(People)
      BY <1>1, <2>2
    <3> HIDE DEF x
    <3> QED  BY <1>1, <3>1
  <2> HIDE DEF a, i, v, s, w
  <2>5. /\ a \in RollCall /\ a.inList = i /\ a.waitList = v
        /\ a.outList = r.outList /\ a.maybeList = r.maybeList
        /\ a.inListLimit = n /\ a.proxy_owners = r.proxy_owners
    BY <1>2, <2>3, <2>4 DEF RollCall
  <2> QED  BY <1>1, <1>4, <2>2, <2>5 DEF a, i, v, s, w
<1>5. CASE n # 0 /\ ~(Len(s) > n)
  <2>1. a = FillWaitlistSlots(moved)
    BY <1>5 DEF SetWaitLimit
  <2> HIDE DEF moved
  <2>2. a \in RollCall
    BY <1>2, <2>1, FillFields
  <2> QED  BY <1>5, <2>1, <2>2 DEF moved
<1> QED  BY <1>3, <1>4, <1>5

LEMMA OwnerFields ==
  ASSUME NEW r \in RollCall, NEW u, NEW owner \in Owners
  PROVE  LET a == SetOwner(r, u, owner)
         IN  /\ a \in RollCall /\ a.inList = r.inList /\ a.outList = r.outList
             /\ a.maybeList = r.maybeList /\ a.waitList = r.waitList
             /\ a.inListLimit = r.inListLimit
             /\ \A g \in Guests : a.proxy_owners[g] = IF g = u THEN owner ELSE r.proxy_owners[g]
<1> DEFINE y == [g \in Guests |-> IF g = u THEN owner ELSE r.proxy_owners[g]]
           a == SetOwner(r, u, owner)
<1>1. y \in [Guests -> Owners] /\ a = [r EXCEPT !.proxy_owners = y]
  BY DEF RollCall, SetOwner
<1>2. \A g \in Guests : y[g] = IF g = u THEN owner ELSE r.proxy_owners[g]
  OBVIOUS
<1> HIDE DEF y, a
<1>3. /\ a \in RollCall /\ a.inList = r.inList /\ a.outList = r.outList
      /\ a.maybeList = r.maybeList /\ a.waitList = r.waitList
      /\ a.inListLimit = r.inListLimit /\ a.proxy_owners = y
  BY <1>1 DEF RollCall
<1> QED  BY <1>2, <1>3 DEF a

LEMMA AmongTyped ==
  ASSUME NEW P, NEW s \in Seq(P), NEW S
  PROVE  Among(s, S) \in Seq(P)
<1> DEFINE f == FoundIn(s, S)
           good == {i \in 0..Len(s) : f[i] \in Seq(P)}
<1>0. Len(s) \in Nat /\ \A i \in 1..Len(s) : s[i] \in P
  BY ElementOfSeq
<1>1. Among(s, S) = f[Len(s)]
  BY DEF Among, FoundIn
<1>2. f[0] = << >> /\ \A i \in 1..Len(s) :
        f[i] = IF s[i] \in S THEN Append(f[i - 1], s[i]) ELSE f[i - 1]
  BY FoundStep
<1> HIDE DEF f
<1>3. 0 \in good
  <2>1. 0 \in 0..Len(s) /\ << >> \in Seq(P)
    BY <1>0
  <2>2. f[0] \in Seq(P)
    BY <1>2, <2>1
  <2> QED  BY <2>1, <2>2
<1>4. ASSUME NEW i \in 1..Len(s), i - 1 \in good PROVE i \in good
  <2>1. f[i - 1] \in Seq(P) /\ s[i] \in P /\ i \in 0..Len(s)
    BY <1>0, <1>4
  <2>2. Append(f[i - 1], s[i]) \in Seq(P)
    BY <2>1
  <2> QED  BY <1>2, <2>1, <2>2
<1> HIDE DEF good
<1>5. \A i \in 0..Len(s) : i \in good
  BY <1>0, <1>3, <1>4, Upwards
<1> QED  BY <1>0, <1>1, <1>5 DEF good

\* So do a restart, a fill and a cap.
LEMMA ReloadTyped ==
  ASSUME NEW d, Table(d), NEW r \in RollCall
  PROVE  ReloadUsers(d, r) \in RollCall
<1>1. LoadFromDb(d) \in RollCall /\ r.inListLimit \in Limits \cup {NoLimit}
  BY LoadTyped, RollCallFields
<1> QED  BY <1>1, CapFields DEF ReloadUsers

(***************************************************************************)
(* Traces on any memory and any readable tables.                           *)
(***************************************************************************)
LEMMA VoteTyped ==
  ASSUME NEW r \in RollCall, NEW d, Table(d), NEW S, S \subseteq Written(d),
         NEW u \in People, NEW answer \in Answers, NEW recomment
  PROVE  LET t == VoteTrace(d, r, u, answer, recomment)
         IN  /\ t \in Seq(WritesTo(Keeping(S)))
             /\ \E e \in Keeping(S) : Ends(t, Add(r, u, answer), e)
<1> DEFINE new == Add(r, u, answer)
           us == VoteWrites(r, new, u, recomment)
<1>1. new \in RollCall
  BY AddTyped
<1>2. us \in Seq(People)
  <2>1. Among(r.waitList, In(new) \ {u}) \in Seq(People)
    BY AmongTyped, RollCallFields
  <2>2. << >> \in Seq(People) /\ <<u>> \in Seq(People)
    OBVIOUS
  <2>3. Among(r.waitList, In(new) \ {u}) \o <<u>> \in Seq(People)
    BY <2>1, <2>2
  <2> HIDE DEF new
  <2> QED  BY <2>2, <2>3 DEF VoteWrites
<1>3. VoteTrace(d, r, u, answer, recomment) = SavesAndClose(d, new, us)
  BY DEF VoteTrace
<1> HIDE DEF new, us
<1>4. /\ SavesAndClose(d, new, us) \in Seq(WritesTo(Keeping(S)))
      /\ \E e \in Keeping(S) : Ends(SavesAndClose(d, new, us), new, e)
  BY <1>1, <1>2, CloseTyped
<1> QED  BY <1>3, <1>4 DEF new

LEMMA FillTyped ==
  ASSUME NEW r \in RollCall, NEW d, Table(d), NEW S, S \subseteq Written(d)
  PROVE  LET t == FillTrace(d, r)
         IN  /\ t \in Seq(WritesTo(Keeping(S)))
             /\ \E e \in Keeping(S) : Ends(t, FillWaitlistSlots(r), e)
<1> DEFINE new == FillWaitlistSlots(r)
           us == Among(r.waitList, In(new))
<1>1. new \in RollCall
  BY FillFields
<1>2. us \in Seq(People)
  BY AmongTyped, RollCallFields
<1>3. FillTrace(d, r) = SavesAndClose(d, new, us)
  BY DEF FillTrace
<1> HIDE DEF new, us
<1>4. /\ SavesAndClose(d, new, us) \in Seq(WritesTo(Keeping(S)))
      /\ \E e \in Keeping(S) : Ends(SavesAndClose(d, new, us), new, e)
  BY <1>1, <1>2, CloseTyped
<1> QED  BY <1>3, <1>4 DEF new

LEMMA LimitTyped ==
  ASSUME NEW r \in RollCall, NEW d, Table(d), NEW S, S \subseteq Written(d), NEW n \in Limits
  PROVE  LimitTrace(d, r, n) \in Seq(WritesTo(Keeping(S)))
<1> DEFINE new    == SetWaitLimit(r, n)
           capped == [r EXCEPT !.inListLimit = n]
           d0     == UpdateRollcall(d, capped)
           excess == Among(r.inList, Waiting(new))
           rows   == Saves(d0, new, excess)
           queued == ReorderWaitlist(End(rows, d0), new.waitList)
           W      == Seq(WritesTo(Keeping(S)))
<1>1. /\ new \in RollCall /\ capped \in RollCall /\ capped.inListLimit = n
      /\ excess \in Seq(People) /\ r.waitList \in Seq(People) /\ new.waitList \in Seq(People)
      /\ n \in Limits \cup {NoLimit}
  <2>1. new \in RollCall /\ r.inList \in Seq(People) /\ r.waitList \in Seq(People)
    BY LimitFields, RollCallFields
  <2>2. capped \in RollCall /\ capped.inListLimit = n
    BY CapFields
  <2>3. excess \in Seq(People)
    BY <2>1, AmongTyped
  <2>4. new.waitList \in Seq(People)
    BY <2>1, RollCallFields
  <2> QED  BY <2>1, <2>2, <2>3, <2>4
<1>2. LimitTrace(d, r, n) =
        IF n = 0 THEN SavesAndClose(d, new, r.waitList)
        ELSE << Write(capped, capped, d0) >> \o
             (IF excess # << >>
              THEN rows \o << Write(new, new, queued), Write(new, new, queued) >>
              ELSE IF new = capped THEN << >> ELSE FillTrace(d0, capped))
  BY DEF LimitTrace
<1> HIDE DEF new, capped, excess
<1>3. SavesAndClose(d, new, r.waitList) \in W
  BY <1>1, CloseTyped
<1>4. Table(d0) /\ S \subseteq Written(d0) /\ d0 \in Keeping(S)
  <2>1. Table(d0) /\ Written(d0) = Written(d)
    BY <1>1, CapRowFacts
  <2> QED  BY <2>1 DEF Keeping, Table
<1> HIDE DEF d0
<1>5. << Write(capped, capped, d0) >> \in W /\ << >> \in W /\ FillTrace(d0, capped) \in W
  <2>1. << Write(capped, capped, d0) >> \in W
    BY <1>1, <1>4, OneWrite
  <2>2. FillTrace(d0, capped) \in W
    BY <1>1, <1>4, FillTyped
  <2> QED  BY <2>1, <2>2
<1>6. rows \in W /\ End(rows, d0) \in Keeping(S)
  BY <1>1, <1>4, CloseTyped
<1>7. queued \in Keeping(S)
  <2> DEFINE l == End(rows, d0)
  <2>1. Table(l) /\ S \subseteq Written(l)
    BY <1>6 DEF Keeping
  <2> HIDE DEF l
  <2>2. /\ Table(ReorderWaitlist(l, new.waitList))
        /\ Written(ReorderWaitlist(l, new.waitList)) = Written(l)
    BY <1>1, <2>1, ReorderFacts
  <2> QED  BY <2>1, <2>2 DEF Keeping, Table, l
<1> HIDE DEF rows, queued
<1>8. << Write(new, new, queued), Write(new, new, queued) >> \in W
  <2>1. Write(new, new, queued) \in WritesTo(Keeping(S))
    BY <1>1, <1>7, WriteTyped
  <2> QED  BY <2>1
<1>9. rows \o << Write(new, new, queued), Write(new, new, queued) >> \in W
  BY <1>6, <1>8, JoinedTrace
<1> DEFINE rest == IF excess # << >>
              THEN rows \o << Write(new, new, queued), Write(new, new, queued) >>
              ELSE IF new = capped THEN << >> ELSE FillTrace(d0, capped)
           first == << Write(capped, capped, d0) >>
<1>10. rest \in W /\ first \in W
  BY <1>5, <1>9
<1>11. LimitTrace(d, r, n) = IF n = 0 THEN SavesAndClose(d, new, r.waitList) ELSE first \o rest
  BY <1>2
<1> HIDE DEF rest, first
<1>12. first \o rest \in W
  BY <1>10, JoinedTrace
<1> QED  BY <1>3, <1>11, <1>12

\* The writes of each operation are writes to tables.
LEMMA DeleteTyped ==
  ASSUME NEW r \in RollCall, NEW d, Table(d), NEW u \in People, NEW owner \in Owners,
         NEW S, S \subseteq Written(d) \ {u}
  PROVE  LET w == DeleteWrite(d, r, u, owner)
         IN  /\ << w >> \in Seq(WritesTo(Keeping(S)))
             /\ w.rc \in RollCall /\ Table(w.db) /\ S \subseteq Written(w.db)
<1> DEFINE gone == DeleteUserById(d, u)
           q == SetOwner(ReloadUsers(gone, r), u, owner)
<1>1. Table(gone) /\ S \subseteq Written(gone)
  BY DeleteFacts
<1>2. q \in RollCall
  <2>1. ReloadUsers(gone, r) \in RollCall
    BY <1>1, ReloadTyped
  <2> QED  BY <2>1, OwnerFields
<1>3. gone \in Keeping(S)
  BY <1>1 DEF Keeping, Table
<1>4. DeleteWrite(d, r, u, owner) = Write(r, q, gone)
  BY DEF DeleteWrite
<1> HIDE DEF gone, q
<1>5. Write(r, q, gone).rc = q /\ Write(r, q, gone).db = gone
  BY <1>2, <1>3, WriteTyped
<1>6. << Write(r, q, gone) >> \in Seq(WritesTo(Keeping(S)))
  BY <1>2, <1>3, OneWrite
<1> QED  BY <1>1, <1>2, <1>4, <1>5, <1>6

LEMMA ChainsTyped ==
  ASSUME NEW r \in RollCall, NEW d, Table(d), NEW u \in People, NEW answer \in Answers,
         NEW S, S \subseteq Written(d) \ {u}
  PROVE  /\ DeleteTrace(d, r, u) \in Seq(WritesTo(Keeping(S)))
         /\ StatusTrace(d, r, u, answer) \in Seq(WritesTo(Keeping(S)))
         /\ \A m \in Members, c \in BOOLEAN :
              WebTrace(d, r, m, u, answer, c) \in Seq(WritesTo(Keeping(S)))
<1> DEFINE W == Seq(WritesTo(Keeping(S)))
<1>0. NoOwner \in Owners /\ OwnerOf(r, u) \in Owners
  BY StatusFacts DEF Owners
<1>1. DeleteTrace(d, r, u) \in W
  <2> DEFINE w == DeleteWrite(d, r, u, NoOwner)
  <2>1. << w >> \in W /\ w.rc \in RollCall /\ Table(w.db) /\ S \subseteq Written(w.db)
    BY <1>0, DeleteTyped
  <2> HIDE DEF w
  <2>2. FillTrace(w.db, w.rc) \in W
    BY <2>1, FillTyped
  <2>3. << w >> \o FillTrace(w.db, w.rc) \in W
    BY <2>1, <2>2, JoinedTrace
  <2> QED  BY <2>3 DEF DeleteTrace, w
<1>2. StatusTrace(d, r, u, answer) \in W
  <2> DEFINE w == DeleteWrite(d, r, u, OwnerOf(r, u))
  <2>1. << w >> \in W /\ w.rc \in RollCall /\ Table(w.db) /\ S \subseteq Written(w.db)
    BY <1>0, DeleteTyped
  <2> HIDE DEF w
  <2>2. VoteTrace(w.db, w.rc, u, answer, FALSE) \in W
    BY <2>1, VoteTyped
  <2>3. << w >> \o VoteTrace(w.db, w.rc, u, answer, FALSE) \in W
    BY <2>1, <2>2, JoinedTrace
  <2> QED  BY <2>3 DEF StatusTrace, w
<1>3. ASSUME NEW m \in Members, NEW c \in BOOLEAN
      PROVE  WebTrace(d, r, m, u, answer, c) \in W
  <2> DEFINE w == DeleteWrite(d, r, u, NoOwner)
             v == VoteTrace(w.db, w.rc, m, answer, c)
             f == FillTrace(Last(v).db, Last(v).rc)
  <2>0. m \in People
    BY DEF People
  <2>1. << w >> \in W /\ w.rc \in RollCall /\ Table(w.db) /\ S \subseteq Written(w.db)
    BY <1>0, DeleteTyped
  <2>7. WebTrace(d, r, m, u, answer, c) = << w >> \o v \o f
    BY DEF WebTrace
  <2> HIDE DEF w
  <2>2. v \in W /\ \E e \in Keeping(S) : Ends(v, Add(w.rc, m, answer), e)
    BY <2>0, <2>1, VoteTyped
  <2>3. Add(w.rc, m, answer) \in RollCall
    BY <2>0, <2>1, AddTyped
  <2> HIDE DEF v
  <2>4. Last(v).rc \in RollCall /\ Table(Last(v).db) /\ S \subseteq Written(Last(v).db)
    BY <2>2, <2>3 DEF Ends, Keeping
  <2>5. f \in W
    BY <2>4, FillTyped
  <2> HIDE DEF f
  <2>6. << w >> \o v \o f \in W
    BY <2>1, <2>2, <2>5, JoinedTrace
  <2> QED  BY <2>6, <2>7
<1> QED  BY <1>1, <1>2, <1>3

\* Lists of one person and of nobody.
LEMMA SingletonFacts ==
  ASSUME NEW P, NEW u \in P
  PROVE  /\ <<u>> \in Seq(P) /\ ToSet(<<u>>) = {u} /\ IsInjective(<<u>>)
         /\ \A R : Ordered(<<u>>, R)
BY DEF ToSet, IsInjective, Ordered

LEMMA EmptyFacts ==
  ASSUME NEW P
  PROVE  /\ << >> \in Seq(P) /\ ToSet(<< >>) = {} /\ IsInjective(<< >>)
         /\ \A R : Ordered(<< >>, R)
         /\ \A s \in Seq(P) : ToSet(s) = {} => s = << >>
<1>1. ASSUME NEW s \in Seq(P), s # << >> PROVE ToSet(s) # {}
  <2>1. 1 \in 1..Len(s)
    BY <1>1, EmptySeq
  <2> QED  BY <2>1, ToSetElements
<1>2. /\ << >> \in Seq(P) /\ ToSet(<< >>) = {} /\ IsInjective(<< >>)
      /\ \A R : Ordered(<< >>, R)
  BY DEF ToSet, IsInjective, Ordered
<1> QED  BY <1>1, <1>2

\* A list that continues another keeps its order.
LEMMA ContinuesIntro ==
  ASSUME NEW old \in Seq(People), NEW us, NEW t \in Seq(People), NEW x \in Seq(People),
         ToSet(t) \subseteq ToSet(old), Ordered(t, Places(old)),
         ToSet(x) \subseteq ToSet(us) \ ToSet(old), Ordered(x, Places(us)),
         ToSet(old) \ ToSet(t) \subseteq ToSet(us)
  PROVE  Continues(t \o x, old, us)
<1>1. t \o x \in Seq(People) /\ ToSet(t \o x) = ToSet(t) \cup ToSet(x)
  BY JoinedSet, ConcatProperties
<1>2. ToSet(t \o x) \ ToSet(us) = ToSet(old) \ ToSet(us)
  BY <1>1
<1>3. \E s \in Seq(People) : \E y \in Seq(People) :
        /\ t \o x = s \o y
        /\ ToSet(s) \subseteq ToSet(old) /\ Ordered(s, Places(old))
        /\ ToSet(y) \subseteq ToSet(us) \ ToSet(old) /\ Ordered(y, Places(us))
  OBVIOUS
<1> QED  BY <1>1, <1>2, <1>3 DEF Continues

\* Nobody enters.
LEMMA ContinuesLeft ==
  ASSUME NEW old \in Seq(People), NEW us, NEW t \in Seq(People),
         ToSet(t) \subseteq ToSet(old), Ordered(t, Places(old)),
         ToSet(old) \ ToSet(t) \subseteq ToSet(us)
  PROVE  Continues(t, old, us)
<1>1. << >> \in Seq(People) /\ ToSet(<< >>) = {} /\ Ordered(<< >>, Places(us))
  BY EmptyFacts
<1>2. Continues(t \o << >>, old, us)
  BY <1>1, ContinuesIntro
<1>3. t \o << >> = t
  OBVIOUS
<1> QED  BY <1>2, <1>3

\* A list as it was, without somebody, and with somebody at its end.
LEMMA ContinuesSame ==
  ASSUME NEW old \in Seq(People), NEW us
  PROVE  Continues(old, old, us)
BY ContinuesLeft, PlacesFacts

LEMMA ContinuesWithout ==
  ASSUME NEW old \in Seq(People), IsInjective(old), NEW us, NEW u \in ToSet(us)
  PROVE  Continues(RemoveFirst(old, u), old, us)
<1> DEFINE t == RemoveFirst(old, u)
<1>1. t \in Seq(People) /\ ToSet(t) = ToSet(old) \ {u}
  BY RemoveFirstFacts
<1>2. Ordered(t, Places(old))
  BY PlacesFacts, OrderedRemove
<1> HIDE DEF t
<1>3. Continues(t, old, us)
  BY <1>1, <1>2, ContinuesLeft
<1> QED  BY <1>3 DEF t

LEMMA ContinuesWith ==
  ASSUME NEW old \in Seq(People), NEW us, NEW t \in Seq(People),
         ToSet(t) \subseteq ToSet(old), Ordered(t, Places(old)),
         ToSet(old) \ ToSet(t) \subseteq ToSet(us),
         NEW h \in ToSet(us), h \in People, h \notin ToSet(old)
  PROVE  Continues(Append(t, h), old, us)
<1>1. <<h>> \in Seq(People) /\ ToSet(<<h>>) = {h} /\ Ordered(<<h>>, Places(us))
  BY SingletonFacts
<1>2. Continues(t \o <<h>>, old, us)
  BY <1>1, ContinuesIntro
<1>3. t \o <<h>> = Append(t, h)
  BY AppendIsConcat
<1> QED  BY <1>2, <1>3

\* Nothing moves.
LEMMA SameFollows ==
  ASSUME NEW r \in RollCall, Apart(r.inList, r.outList, r.maybeList, r.waitList),
         r.waitList # << >> => Capped(r),
         NEW us \in Seq(People), IsInjective(us), ToSet(us) \subseteq Listed(r)
  PROVE  Follows(r, r, us)
<1>1. /\ r.inList \in Seq(People) /\ r.outList \in Seq(People)
      /\ r.maybeList \in Seq(People) /\ r.waitList \in Seq(People)
  BY RollCallFields
<1>2. /\ Continues(r.inList, r.inList, us) /\ Continues(r.outList, r.outList, us)
      /\ Continues(r.waitList, r.waitList, us)
  BY <1>1, ContinuesSame
<1>3. Waiting(r) # {} => Capped(r)
  BY <1>1, EmptyFacts DEF Waiting
<1> QED  BY <1>2, <1>3 DEF Follows, Moves

\* Whom a vote writes: those it promotes, and the voter.
LEMMA VoteWritesFacts ==
  ASSUME NEW old \in RollCall, IsInjective(old.waitList), NEW new, NEW u \in People, NEW recomment,
         new # old
  PROVE  LET us == VoteWrites(old, new, u, recomment)
         IN  us \in Seq(People) /\ IsInjective(us) /\ ToSet(us) = (Waiting(old) \cap In(new)) \cup {u}
<1> DEFINE S == In(new) \ {u}
           a == Among(old.waitList, S)
<1>1. old.waitList \in Seq(People)
  BY RollCallFields
<1>2. a \in Seq(People) /\ IsInjective(a) /\ ToSet(a) = Waiting(old) \cap S
  <2> DEFINE w == old.waitList
  <2>1. w \in Seq(People) /\ IsInjective(w)
    BY <1>1
  <2> HIDE DEF w, S
  <2>2. Among(w, S) \in Seq(People) /\ IsInjective(Among(w, S)) /\ ToSet(Among(w, S)) = ToSet(w) \cap S
    BY <2>1, AmongFacts
  <2> QED  BY <2>2 DEF Waiting, w
<1>3. VoteWrites(old, new, u, recomment) = a \o <<u>>
  BY DEF VoteWrites
<1> HIDE DEF a
<1>4. <<u>> \in Seq(People) /\ ToSet(<<u>>) = {u} /\ IsInjective(<<u>>)
  BY SingletonFacts
<1>5. a \o <<u>> \in Seq(People) /\ IsInjective(a \o <<u>>) /\ ToSet(a \o <<u>>) = ToSet(a) \cup {u}
  <2> DEFINE v == <<u>>
  <2>1. v \in Seq(People) /\ ToSet(v) = {u} /\ IsInjective(v) /\ ToSet(a) \cap ToSet(v) = {}
    BY <1>2, <1>4
  <2> HIDE DEF v, S
  <2>2. a \in Seq(People) /\ IsInjective(a)
    BY <1>2
  <2>3. a \o v \in Seq(People) /\ IsInjective(a \o v) /\ ToSet(a \o v) = ToSet(a) \cup ToSet(v)
    BY <2>1, <2>2, ConcatFacts
  <2> QED  BY <2>1, <2>3 DEF v
<1> QED  BY <1>2, <1>3, <1>5

\* addIn, for somebody who is neither IN nor waiting.
LEMMA AddInFollows ==
  ASSUME NEW r \in RollCall, Apart(r.inList, r.outList, r.maybeList, r.waitList),
         r.waitList # << >> => Capped(r), NEW u \in People, NEW us \in Seq(People), IsInjective(us),
         u \notin In(r) \cup Waiting(r), AddIn(r, u) # r =>
            ToSet(us) = (Waiting(r) \cap In(AddIn(r, u))) \cup {u}
  PROVE  AddIn(r, u) # r /\ Follows(AddIn(r, u), r, us)
<1> DEFINE i == r.inList
           o == r.outList
           m == r.maybeList
           w == r.waitList
           a == AddIn(r, u)
<1>1. /\ i \in Seq(People) /\ o \in Seq(People) /\ m \in Seq(People) /\ w \in Seq(People)
      /\ IsInjective(i) /\ IsInjective(o) /\ IsInjective(m) /\ IsInjective(w)
      /\ u \notin ToSet(i) /\ u \notin ToSet(w)
  BY RollCallFields DEF Apart, In, Waiting
<1>2. Apart(i, o, m, w) /\ (w # << >> => Capped(r))
  OBVIOUS
<1> DEFINE oo == RemoveFirst(o, u)
           mm == RemoveFirst(m, u)
           full == Full(r)
<1>3. /\ a \in RollCall /\ a.inListLimit = r.inListLimit /\ a.proxy_owners = r.proxy_owners
      /\ a.inList = IF full THEN i ELSE Append(i, u)
      /\ a.waitList = IF full THEN Append(w, u) ELSE w
      /\ a.outList = oo /\ a.maybeList = mm
  <2>1. RemoveFirst(w, u) = w
    <3> HIDE DEF w
    <3> QED  BY <1>1, RemoveFirstAbsent
  <2>2. ~(u \in In(r) \/ (Capped(r) /\ u \in Waiting(r)))
    OBVIOUS
  <2> QED  BY <2>1, <2>2, AddInFields
<1>4. full => Capped(r)
  BY DEF Full
<1>5. ToSet(a.inList) = In(a) /\ ToSet(w) = Waiting(r) /\ ToSet(a.waitList) = Waiting(a)
      /\ (Capped(a) <=> Capped(r))
  BY <1>3 DEF In, Waiting, Capped
<1>a. /\ r.inList = i /\ r.outList = o /\ r.maybeList = m /\ r.waitList = w
      /\ Listed(a) = ToSet(a.inList) \cup ToSet(oo) \cup ToSet(mm) \cup ToSet(a.waitList)
  BY <1>3 DEF Listed, In, Waiting
<1> HIDE DEF i, o, m, w, a, full
<1>6. /\ Append(i, u) \in Seq(People) /\ IsInjective(Append(i, u)) /\ ToSet(Append(i, u)) = ToSet(i) \cup {u}
      /\ Append(w, u) \in Seq(People) /\ IsInjective(Append(w, u)) /\ ToSet(Append(w, u)) = ToSet(w) \cup {u}
      /\ oo \in Seq(People) /\ IsInjective(oo) /\ ToSet(oo) = ToSet(o) \ {u}
      /\ mm \in Seq(People) /\ IsInjective(mm) /\ ToSet(mm) = ToSet(m) \ {u}
  BY <1>1, AppendFacts, RemoveFirstFacts
<1>7. a # r
  <2>1. u \in ToSet(a.inList) \/ u \in ToSet(a.waitList)
    BY <1>3, <1>6
  <2> QED  BY <1>1, <1>a, <2>1
<1>8. ToSet(us) = {u}
  <2>1. ToSet(us) = (ToSet(w) \cap ToSet(a.inList)) \cup {u}
    BY <1>5, <1>7 DEF a
  <2>2. ToSet(w) \cap ToSet(a.inList) = {}
    BY <1>1, <1>2, <1>3, <1>6 DEF Apart
  <2> QED  BY <2>1, <2>2
<1>9. Continues(i, i, us) /\ Continues(w, w, us) /\ Continues(oo, o, us)
  BY <1>1, <1>8, ContinuesSame, ContinuesWithout
<1>10. Continues(Append(i, u), i, us) /\ Continues(Append(w, u), w, us)
  BY <1>1, <1>8, ContinuesWith, PlacesFacts
<1>11. Continues(a.inList, i, us) /\ Continues(a.waitList, w, us) /\ Continues(a.outList, o, us)
  BY <1>3, <1>9, <1>10
<1> HIDE DEF oo, mm
<1>12. Apart(a.inList, a.outList, a.maybeList, a.waitList)
  <2>1. CASE full
    BY <1>1, <1>2, <1>3, <1>6, <2>1 DEF Apart
  <2>2. CASE ~full
    BY <1>1, <1>2, <1>3, <1>6, <2>2 DEF Apart
  <2> QED  BY <2>1, <2>2
<1>13. a.waitList # << >> => Capped(a)
  BY <1>2, <1>3, <1>4, <1>5
<1>14. ToSet(us) \cap Waiting(a) # {} => Capped(r)
  <2>1. CASE full
    BY <1>4, <2>1
  <2>2. CASE ~full
    BY <1>1, <1>3, <1>5, <1>8, <2>2
  <2> QED  BY <2>1, <2>2
<1>15. u \in Listed(a)
  BY <1>a, <1>3, <1>6
<1>16. /\ ToSet(a.maybeList) \ ToSet(us) = ToSet(m) \ ToSet(us)
       /\ ToSet(a.waitList) \ ToSet(us) = ToSet(w) \ ToSet(us)
  BY <1>3, <1>6, <1>8
<1>17. Follows(a, r, us)
  BY <1>a, <1>3, <1>8, <1>11, <1>12, <1>13, <1>14, <1>15, <1>16 DEF Follows, Moves
<1> QED  BY <1>7, <1>17 DEF a

\* The line after somebody left it and passed the slot on.
AfterLeaving(r, u, i, w) ==
  /\ i = (IF PassedOn(r, u) THEN Append(Seats(r, u), Head(Queue(r, u))) ELSE Seats(r, u))
  /\ w = (IF PassedOn(r, u) THEN Tail(Queue(r, u)) ELSE Queue(r, u))

\* IN and WAITING without somebody continue what they were.
LEMMA LineFollows ==
  ASSUME NEW r \in RollCall, Apart(r.inList, r.outList, r.maybeList, r.waitList),
         r.waitList # << >> => Capped(r), NEW u \in People, NEW us, u \in ToSet(us),
         NEW i, NEW w, AfterLeaving(r, u, i, w),
         Waiting(r) \cap ToSet(i) \subseteq ToSet(us)
  PROVE  /\ i \in Seq(People) /\ w \in Seq(People) /\ IsInjective(i) /\ IsInjective(w)
         /\ ToSet(i) \cap ToSet(w) = {} /\ u \notin ToSet(i) /\ u \notin ToSet(w)
         /\ ToSet(i) \cup ToSet(w) = (In(r) \cup Waiting(r)) \ {u}
         /\ ToSet(w) \subseteq Waiting(r)
         /\ Continues(i, r.inList, us) /\ Continues(w, r.waitList, us)
<1> DEFINE s == r.inList
           q == r.waitList
           a == Seats(r, u)
           b == Queue(r, u)
           pass == PassedOn(r, u)
<1>1. /\ s \in Seq(People) /\ q \in Seq(People) /\ IsInjective(s) /\ IsInjective(q)
      /\ ToSet(s) \cap ToSet(q) = {}
  BY RollCallFields DEF Apart
<1>2. a = RemoveFirst(s, u)
  BY DEF Seats
<1>3. b = RemoveFirst(q, u)
  <2>1. CASE Capped(r)
    BY <2>1 DEF Queue
  <2>2. CASE ~Capped(r)
    BY <2>2, EmptyQueue DEF Queue
  <2> QED  BY <2>1, <2>2
<1>4. pass => b # << >>
  BY DEF PassedOn
<1>5. /\ i = (IF pass THEN Append(a, Head(b)) ELSE a)
      /\ w = (IF pass THEN Tail(b) ELSE b)
      /\ ToSet(q) \cap ToSet(i) \subseteq ToSet(us) /\ In(r) = ToSet(s) /\ Waiting(r) = ToSet(q)
      /\ r.inList = s /\ r.waitList = q
  BY DEF Waiting, In, AfterLeaving
<1> HIDE DEF s, q, a, b, pass
<1>6. /\ a \in Seq(People) /\ IsInjective(a) /\ ToSet(a) = ToSet(s) \ {u}
      /\ b \in Seq(People) /\ IsInjective(b) /\ ToSet(b) = ToSet(q) \ {u}
  BY <1>1, <1>2, <1>3, RemoveFirstFacts
<1>7. /\ Ordered(a, Places(s)) /\ Ordered(b, Places(q))
  BY <1>1, <1>2, <1>3, PlacesFacts, OrderedRemove
<1>8. CASE ~pass
  <2>1. Continues(a, s, us) /\ Continues(b, q, us)
    BY <1>1, <1>6, <1>7, ContinuesLeft
  <2>2. i = a /\ w = b
    BY <1>5, <1>8
  <2>3. /\ ToSet(a) \cap ToSet(b) = {} /\ u \notin ToSet(a) /\ u \notin ToSet(b)
        /\ ToSet(a) \cup ToSet(b) = (ToSet(s) \cup ToSet(q)) \ {u}
        /\ ToSet(b) \subseteq ToSet(q)
    BY <1>1, <1>6
  <2> QED  BY <1>5, <1>6, <2>1, <2>2, <2>3
<1>9. CASE pass
  <2> DEFINE h == Head(b)
             t == Tail(b)
             j == Append(a, h)
  <2>1. h \in ToSet(b) /\ t \in Seq(People) /\ IsInjective(t) /\ ToSet(t) = ToSet(b) \ {h}
    BY <1>4, <1>6, <1>9, HeadTailFacts
  <2>2. Ordered(t, Places(q))
    BY <1>4, <1>6, <1>7, <1>9, OrderedTail
  <2>3. i = j /\ w = t
    BY <1>5, <1>9
  <2> HIDE DEF h, t
  <2>4. h \in People /\ h \notin ToSet(a) /\ h \notin ToSet(s) /\ h \in ToSet(q)
    BY <1>1, <1>6, <2>1, ToSetElements
  <2>5. j \in Seq(People) /\ IsInjective(j) /\ ToSet(j) = ToSet(a) \cup {h}
    BY <1>6, <2>4, AppendFacts
  <2>6. h \in ToSet(us)
    BY <1>5, <2>3, <2>4, <2>5
  <2>7. Continues(j, s, us)
    BY <1>1, <1>6, <1>7, <2>4, <2>6, ContinuesWith
  <2>8. Continues(t, q, us)
    BY <1>1, <1>6, <2>1, <2>2, <2>6, ContinuesLeft
  <2>9. /\ ToSet(j) \cap ToSet(t) = {} /\ u \notin ToSet(j) /\ u \notin ToSet(t)
        /\ ToSet(j) \cup ToSet(t) = (ToSet(s) \cup ToSet(q)) \ {u}
        /\ ToSet(t) \subseteq ToSet(q)
    BY <1>1, <1>6, <2>1, <2>5
  <2> QED  BY <1>5, <2>1, <2>3, <2>5, <2>7, <2>8, <2>9
<1> QED  BY <1>8, <1>9

\* addOut, for somebody who is not OUT.
LEMMA AddOutFollows ==
  ASSUME NEW r \in RollCall, Apart(r.inList, r.outList, r.maybeList, r.waitList),
         r.waitList # << >> => Capped(r), NEW u \in People, NEW us \in Seq(People), IsInjective(us),
         u \notin ToSet(r.outList), AddOut(r, u) # r =>
            ToSet(us) = (Waiting(r) \cap In(AddOut(r, u))) \cup {u}
  PROVE  AddOut(r, u) # r /\ Follows(AddOut(r, u), r, us)
<1> DEFINE o == r.outList
           m == r.maybeList
           a == AddOut(r, u)
           mm == RemoveFirst(m, u)
           oo == Append(o, u)
           i == a.inList
           w == a.waitList
<1>1. /\ o \in Seq(People) /\ m \in Seq(People) /\ IsInjective(o) /\ IsInjective(m)
      /\ ToSet(o) \cap ToSet(m) = {} /\ u \notin ToSet(o)
      /\ r.inList \in Seq(People) /\ r.waitList \in Seq(People)
  BY RollCallFields DEF Apart
<1>2. /\ a \in RollCall /\ a.inListLimit = r.inListLimit /\ a.proxy_owners = r.proxy_owners
      /\ AfterLeaving(r, u, i, w)
      /\ a.maybeList = mm /\ a.outList = oo
  BY AddOutFields DEF AfterLeaving
<1>3. /\ r.outList = o /\ r.maybeList = m /\ a.inList = i /\ a.waitList = w
      /\ In(a) = ToSet(i) /\ Waiting(a) = ToSet(w)
      /\ Listed(a) = ToSet(i) \cup ToSet(oo) \cup ToSet(mm) \cup ToSet(w)
      /\ (Capped(a) <=> Capped(r))
  BY <1>2 DEF Listed, In, Waiting, Capped
<1>4. (In(r) \cup Waiting(r)) \cap (ToSet(o) \cup ToSet(m)) = {}
  BY DEF Apart, In, Waiting
<1> HIDE DEF o, m, a, i, w
<1>5. /\ oo \in Seq(People) /\ IsInjective(oo) /\ ToSet(oo) = ToSet(o) \cup {u}
      /\ mm \in Seq(People) /\ IsInjective(mm) /\ ToSet(mm) = ToSet(m) \ {u}
  BY <1>1, AppendFacts, RemoveFirstFacts
<1> HIDE DEF oo, mm
<1>6. a # r
  <2>1. u \in ToSet(oo)
    BY <1>5
  <2> QED  BY <1>1, <1>2, <1>3, <2>1
<1>7. ToSet(us) = (Waiting(r) \cap ToSet(i)) \cup {u}
  BY <1>3, <1>6 DEF a
<1>8. /\ i \in Seq(People) /\ w \in Seq(People) /\ IsInjective(i) /\ IsInjective(w)
      /\ ToSet(i) \cap ToSet(w) = {} /\ u \notin ToSet(i) /\ u \notin ToSet(w)
      /\ ToSet(i) \cup ToSet(w) = (In(r) \cup Waiting(r)) \ {u}
      /\ ToSet(w) \subseteq Waiting(r)
      /\ Continues(i, r.inList, us) /\ Continues(w, r.waitList, us)
  BY <1>2, <1>7, LineFollows
<1>9. Continues(oo, o, us)
  BY <1>1, <1>7, ContinuesWith, PlacesFacts DEF oo
<1>10. Apart(i, oo, mm, w)
  BY <1>1, <1>4, <1>5, <1>8 DEF Apart
<1>11. w # << >> => Capped(a)
  <2>1. w # << >> => ToSet(w) # {}
    BY <1>8, EmptyFacts
  <2>2. Waiting(r) # {} => r.waitList # << >>
    BY EmptyFacts DEF Waiting
  <2> QED  BY <1>3, <1>8, <2>1, <2>2
<1>12. ToSet(us) \cap Waiting(a) = {}
  BY <1>3, <1>7, <1>8
<1>13. ToSet(us) \subseteq Listed(a)
  BY <1>3, <1>5, <1>7
<1>14. /\ ToSet(mm) \ ToSet(us) = ToSet(m) \ ToSet(us)
       /\ ToSet(w) \ ToSet(us) = Waiting(r) \ ToSet(us)
  BY <1>4, <1>5, <1>7, <1>8 DEF Continues, Waiting
<1>15. Follows(a, r, us)
  BY <1>2, <1>3, <1>8, <1>9, <1>10, <1>11, <1>12, <1>13, <1>14 DEF Follows, Moves, Waiting
<1> QED  BY <1>6, <1>15 DEF a

\* addMaybe, for somebody who is not MAYBE.
LEMMA AddMaybeFollows ==
  ASSUME NEW r \in RollCall, Apart(r.inList, r.outList, r.maybeList, r.waitList),
         r.waitList # << >> => Capped(r), NEW u \in People, NEW us \in Seq(People), IsInjective(us),
         u \notin ToSet(r.maybeList), AddMaybe(r, u) # r =>
            ToSet(us) = (Waiting(r) \cap In(AddMaybe(r, u))) \cup {u}
  PROVE  AddMaybe(r, u) # r /\ Follows(AddMaybe(r, u), r, us)
<1> DEFINE o == r.outList
           m == r.maybeList
           a == AddMaybe(r, u)
           oo == RemoveFirst(o, u)
           mm == Append(m, u)
           i == a.inList
           w == a.waitList
<1>1. /\ o \in Seq(People) /\ m \in Seq(People) /\ IsInjective(o) /\ IsInjective(m)
      /\ ToSet(o) \cap ToSet(m) = {} /\ u \notin ToSet(m)
      /\ r.inList \in Seq(People) /\ r.waitList \in Seq(People)
  BY RollCallFields DEF Apart
<1>2. /\ a \in RollCall /\ a.inListLimit = r.inListLimit /\ a.proxy_owners = r.proxy_owners
      /\ AfterLeaving(r, u, i, w)
      /\ a.outList = oo /\ a.maybeList = mm
  BY AddMaybeFields DEF AfterLeaving
<1>3. /\ r.outList = o /\ r.maybeList = m /\ a.inList = i /\ a.waitList = w
      /\ In(a) = ToSet(i) /\ Waiting(a) = ToSet(w)
      /\ Listed(a) = ToSet(i) \cup ToSet(oo) \cup ToSet(mm) \cup ToSet(w)
      /\ (Capped(a) <=> Capped(r))
  BY <1>2 DEF Listed, In, Waiting, Capped
<1>4. (In(r) \cup Waiting(r)) \cap (ToSet(o) \cup ToSet(m)) = {}
  BY DEF Apart, In, Waiting
<1> HIDE DEF o, m, a, i, w
<1>5. /\ mm \in Seq(People) /\ IsInjective(mm) /\ ToSet(mm) = ToSet(m) \cup {u}
      /\ oo \in Seq(People) /\ IsInjective(oo) /\ ToSet(oo) = ToSet(o) \ {u}
  BY <1>1, AppendFacts, RemoveFirstFacts
<1> HIDE DEF mm
<1>6. a # r
  <2>1. u \in ToSet(mm)
    BY <1>5
  <2> QED  BY <1>1, <1>2, <1>3, <2>1
<1>7. ToSet(us) = (Waiting(r) \cap ToSet(i)) \cup {u}
  BY <1>3, <1>6 DEF a
<1>8. /\ i \in Seq(People) /\ w \in Seq(People) /\ IsInjective(i) /\ IsInjective(w)
      /\ ToSet(i) \cap ToSet(w) = {} /\ u \notin ToSet(i) /\ u \notin ToSet(w)
      /\ ToSet(i) \cup ToSet(w) = (In(r) \cup Waiting(r)) \ {u}
      /\ ToSet(w) \subseteq Waiting(r)
      /\ Continues(i, r.inList, us) /\ Continues(w, r.waitList, us)
  BY <1>2, <1>7, LineFollows
<1>9. Continues(oo, o, us)
  BY <1>1, <1>7, ContinuesWithout
<1> HIDE DEF oo
<1>10. Apart(i, oo, mm, w)
  BY <1>1, <1>4, <1>5, <1>8 DEF Apart
<1>11. w # << >> => Capped(a)
  <2>1. w # << >> => ToSet(w) # {}
    BY <1>8, EmptyFacts
  <2>2. Waiting(r) # {} => r.waitList # << >>
    BY EmptyFacts DEF Waiting
  <2> QED  BY <1>3, <1>8, <2>1, <2>2
<1>12. ToSet(us) \cap Waiting(a) = {}
  BY <1>3, <1>7, <1>8
<1>13. ToSet(us) \subseteq Listed(a)
  BY <1>3, <1>5, <1>7
<1>14. /\ ToSet(mm) \ ToSet(us) = ToSet(m) \ ToSet(us)
       /\ ToSet(w) \ ToSet(us) = Waiting(r) \ ToSet(us)
  BY <1>4, <1>5, <1>7, <1>8 DEF Continues, Waiting
<1>15. Follows(a, r, us)
  BY <1>2, <1>3, <1>8, <1>9, <1>10, <1>11, <1>12, <1>13, <1>14 DEF Follows, Moves, Waiting
<1> QED  BY <1>6, <1>15 DEF a

\* Somebody new to the rollcall, or to the line.
Joins(r, u, answer) == u \notin Listed(r) \/ (answer = "in" /\ u \notin In(r) \cup Waiting(r))

\* Whatever a vote does in memory is told by the people it writes.
LEMMA VoteFollows ==
  ASSUME NEW r \in RollCall, Apart(r.inList, r.outList, r.maybeList, r.waitList),
         r.waitList # << >> => Capped(r), NEW u \in People, NEW answer \in Answers, NEW recomment
  PROVE  LET new == Add(r, u, answer)
             us == VoteWrites(r, new, u, recomment)
         IN  Follows(new, r, us) /\ (Joins(r, u, answer) => u \in ToSet(us))
<1> DEFINE new == Add(r, u, answer)
           us == VoteWrites(r, new, u, recomment)
<1>1. IsInjective(r.waitList)
  BY DEF Apart
<1>2. ASSUME new # r
      PROVE  us \in Seq(People) /\ IsInjective(us) /\ ToSet(us) = (Waiting(r) \cap In(new)) \cup {u}
  <2> HIDE DEF new
  <2>1. us = VoteWrites(r, new, u, recomment)
    OBVIOUS
  <2> HIDE DEF us
  <2> QED  BY <1>1, <1>2, <2>1, VoteWritesFacts
<1>3. new = r => us \in Seq(People) /\ IsInjective(us) /\ ToSet(us) \subseteq {u}
  <2>1. ASSUME new = r PROVE us = << >> \/ us = <<u>>
    BY <2>1 DEF VoteWrites
  <2>2. << >> \in Seq(People) /\ IsInjective(<< >>) /\ ToSet(<< >>) = {}
    BY EmptyFacts
  <2>3. <<u>> \in Seq(People) /\ IsInjective(<<u>>) /\ ToSet(<<u>>) = {u}
    BY SingletonFacts
  <2> HIDE DEF us, new
  <2> QED  BY <2>1, <2>2, <2>3
<1> HIDE DEF us
<1>4. us \in Seq(People) /\ IsInjective(us)
  BY <1>2, <1>3
<1>5. ASSUME (new # r => Follows(new, r, us)) /\ (new = r => u \in Listed(r) /\ ~Joins(r, u, answer))
      PROVE  Follows(new, r, us) /\ (Joins(r, u, answer) => u \in ToSet(us))
  <2>1. CASE new = r
    <3>1. ToSet(us) \subseteq Listed(r)
      BY <1>3, <1>5, <2>1
    <3>2. Follows(r, r, us)
      BY <1>4, <3>1, SameFollows
    <3> QED  BY <1>5, <2>1, <3>2
  <2>2. CASE new # r
    BY <1>2, <1>5, <2>2
  <2> QED  BY <2>1, <2>2
<1>6. ASSUME answer = "in" PROVE (new # r => Follows(new, r, us)) /\ (new = r => u \in Listed(r) /\ ~Joins(r, u, answer))
  <2>1. new = AddIn(r, u)
    BY <1>6 DEF Add
  <2>2. CASE u \in In(r) \cup Waiting(r)
    <3>1. u \in In(r) \/ (Capped(r) /\ u \in Waiting(r))
      <4>1. u \in Waiting(r) => r.waitList # << >>
        BY EmptyQueue DEF Waiting
      <4> QED  BY <2>2, <4>1
    <3>2. new = r
      BY <2>1, <3>1 DEF AddIn
    <3>3. u \in Listed(r) /\ ~Joins(r, u, answer)
      BY <2>2 DEF Listed, Joins
    <3> HIDE DEF new
    <3> QED  BY <3>2, <3>3 DEF new
  <2>3. CASE u \notin In(r) \cup Waiting(r)
    <3>1. AddIn(r, u) # r => ToSet(us) = (Waiting(r) \cap In(AddIn(r, u))) \cup {u}
      BY <1>2, <2>1
    <3>2. AddIn(r, u) # r /\ Follows(AddIn(r, u), r, us)
      BY <1>4, <2>3, <3>1, AddInFollows
    <3> QED  BY <2>1, <3>2
  <2> QED  BY <2>2, <2>3
<1>7. ASSUME answer = "out" PROVE (new # r => Follows(new, r, us)) /\ (new = r => u \in Listed(r) /\ ~Joins(r, u, answer))
  <2>1. new = AddOut(r, u)
    BY <1>7 DEF Add
  <2>2. CASE u \in ToSet(r.outList)
    <3>1. new = r /\ u \in Listed(r) /\ ~Joins(r, u, answer)
      BY <1>7, <2>1, <2>2 DEF AddOut, Listed, Joins
    <3> QED  BY <3>1
  <2>3. CASE u \notin ToSet(r.outList)
    <3>1. AddOut(r, u) # r => ToSet(us) = (Waiting(r) \cap In(AddOut(r, u))) \cup {u}
      BY <1>2, <2>1
    <3>2. AddOut(r, u) # r /\ Follows(AddOut(r, u), r, us)
      BY <1>4, <2>3, <3>1, AddOutFollows
    <3> QED  BY <2>1, <3>2
  <2> QED  BY <2>2, <2>3
<1>8. ASSUME answer = "maybe" PROVE (new # r => Follows(new, r, us)) /\ (new = r => u \in Listed(r) /\ ~Joins(r, u, answer))
  <2>1. new = AddMaybe(r, u)
    BY <1>8 DEF Add
  <2>2. CASE u \in ToSet(r.maybeList)
    <3>1. new = r /\ u \in Listed(r) /\ ~Joins(r, u, answer)
      BY <1>8, <2>1, <2>2 DEF AddMaybe, Listed, Joins
    <3> QED  BY <3>1
  <2>3. CASE u \notin ToSet(r.maybeList)
    <3>1. AddMaybe(r, u) # r => ToSet(us) = (Waiting(r) \cap In(AddMaybe(r, u))) \cup {u}
      BY <1>2, <2>1
    <3>2. AddMaybe(r, u) # r /\ Follows(AddMaybe(r, u), r, us)
      BY <1>4, <2>3, <3>1, AddMaybeFollows
    <3> QED  BY <2>1, <3>2
  <2> QED  BY <2>2, <2>3
<1> QED  BY <1>5, <1>6, <1>7, <1>8 DEF Answers, us

\* Nobody comes both before and after somebody.
LEMMA PlacesOneWay ==
  ASSUME NEW P, NEW s \in Seq(P), IsInjective(s)
  PROVE  OneWay(Places(s))
<1>1. ASSUME NEW x, NEW y, <<x, y>> \in Places(s), <<y, x>> \in Places(s) PROVE FALSE
  <2>1. PICK p \in {q \in (1..Len(s)) \X (1..Len(s)) : q[1] < q[2]} : <<x, y>> = <<s[p[1]], s[p[2]]>>
    BY <1>1 DEF Places
  <2>2. PICK r \in {q \in (1..Len(s)) \X (1..Len(s)) : q[1] < q[2]} : <<y, x>> = <<s[r[1]], s[r[2]]>>
    BY <1>1 DEF Places
  <2>3. p[1] = r[2] /\ p[2] = r[1]
    BY <2>1, <2>2, InjectiveElements
  <2> QED  BY <2>1, <2>2, <2>3
<1> QED  BY <1>1 DEF OneWay

\* Filling the free slots is told by the people it moves up.
LEMMA FillFollows ==
  ASSUME NEW r \in RollCall, Apart(r.inList, r.outList, r.maybeList, r.waitList),
         r.waitList # << >> => Capped(r)
  PROVE  LET new == FillWaitlistSlots(r)
         IN  Follows(new, r, Among(r.waitList, In(new)))
<1> DEFINE s == r.inList
           w == r.waitList
           o == r.outList
           m == r.maybeList
           new == FillWaitlistSlots(r)
           us == Among(w, In(new))
<1>1. /\ s \in Seq(People) /\ w \in Seq(People) /\ o \in Seq(People)
      /\ IsInjective(s) /\ IsInjective(w) /\ Apart(s, o, m, w)
  BY RollCallFields DEF Apart
<1>2. /\ new \in RollCall /\ new.outList = o /\ new.maybeList = m
      /\ new.inListLimit = r.inListLimit /\ new.proxy_owners = r.proxy_owners
      /\ new # r => Capped(r) /\ \E n : Fills(new, r, n)
  BY FillFields
<1>3. /\ r.inList = s /\ r.waitList = w /\ r.outList = o /\ r.maybeList = m
      /\ In(r) = ToSet(s) /\ Waiting(r) = ToSet(w) /\ ToSet(s) \cap ToSet(w) = {}
      /\ In(new) = ToSet(new.inList) /\ Waiting(new) = ToSet(new.waitList)
      /\ Listed(new) = ToSet(new.inList) \cup ToSet(o) \cup ToSet(m) \cup ToSet(new.waitList)
      /\ (Capped(new) <=> Capped(r))
  BY <1>2 DEF In, Waiting, Listed, Capped, Apart
<1> HIDE DEF s, w, o, m, new
<1>4. us \in Seq(People) /\ IsInjective(us) /\ ToSet(us) = ToSet(w) \cap In(new) /\ Ordered(us, Places(w))
  <2> DEFINE S == In(new)
  <2> HIDE DEF S
  <2>1. Ordered(w, Places(w))
    BY PlacesFacts
  <2>2. /\ Among(w, S) \in Seq(People) /\ IsInjective(Among(w, S)) /\ ToSet(Among(w, S)) = ToSet(w) \cap S
        /\ \A R : Ordered(w, R) => Ordered(Among(w, S), R)
    BY <1>1, AmongFacts
  <2> QED  BY <2>1, <2>2 DEF S
<1> HIDE DEF us
<1>5. CASE new = r
  <2>1. ToSet(us) \subseteq Listed(r)
    BY <1>3, <1>4, <1>5
  <2>2. Follows(r, r, us)
    BY <1>4, <2>1, SameFollows
  <2> QED  BY <1>3, <1>5, <2>2 DEF us, new
<1>6. CASE new # r
  <2>1. PICK n : Fills(new, r, n)
    BY <1>2, <1>6
  <2> DEFINE a == SubSeq(w, 1, n)
             b == SubSeq(w, n + 1, Len(w))
             i == s \o a
  <2>2. n \in 0..Len(w) /\ new.inList = i /\ new.waitList = b
    BY <1>3, <2>1 DEF Fills
  <2>3. /\ a \in Seq(People) /\ b \in Seq(People) /\ IsInjective(a) /\ IsInjective(b)
        /\ ToSet(a) \cap ToSet(b) = {} /\ ToSet(a) \cup ToSet(b) = ToSet(w) /\ a \o b = w
    BY <1>1, <2>2, SplitFacts
  <2> HIDE DEF a, b
  <2>4. Ordered(a, Places(w)) /\ Ordered(b, Places(w))
    <3>1. Ordered(a \o b, Places(w))
      BY <2>3, PlacesFacts
    <3> QED  BY <2>3, <3>1, OrderedParts
  <2>5. ToSet(s) \cap ToSet(a) = {}
    BY <1>3, <2>3
  <2>6. i \in Seq(People) /\ IsInjective(i) /\ ToSet(i) = ToSet(s) \cup ToSet(a)
    BY <1>1, <2>3, <2>5, ConcatFacts
  <2>7. ToSet(us) = ToSet(a)
    BY <1>3, <1>4, <2>2, <2>3, <2>6
  <2>8. us = a
    BY <1>1, <1>4, <2>3, <2>4, <2>7, PlacesOneWay, OrderedUnique
  <2>9. Continues(i, s, us)
    <3>1. Ordered(a, Places(us)) /\ Ordered(s, Places(s))
      BY <2>8, PlacesFacts
    <3>2. ToSet(a) \subseteq ToSet(us) \ ToSet(s)
      BY <2>5, <2>7
    <3> QED  BY <1>1, <2>3, <3>1, <3>2, ContinuesIntro
  <2>10. Continues(b, w, us)
    <3>1. ToSet(b) \subseteq ToSet(w) /\ ToSet(w) \ ToSet(b) \subseteq ToSet(us)
      BY <2>3, <2>7
    <3> QED  BY <1>1, <2>3, <2>4, <3>1, ContinuesLeft
  <2>11. Continues(o, o, us)
    BY <1>1, ContinuesSame
  <2> HIDE DEF i
  <2>12. Apart(i, o, m, b)
    BY <1>1, <2>3, <2>6 DEF Apart
  <2>13. /\ ToSet(b) \ ToSet(us) = ToSet(w) \ ToSet(us)
         /\ ToSet(us) \subseteq Listed(new) /\ Capped(new) /\ Capped(r)
    BY <1>2, <1>3, <1>6, <2>2, <2>3, <2>6, <2>7
  <2>14. Follows(new, r, us)
    BY <1>2, <1>3, <1>4, <2>2, <2>9, <2>10, <2>11, <2>12, <2>13 DEF Follows, Moves
  <2> QED  BY <1>3, <2>14 DEF us, new
<1> QED  BY <1>5, <1>6

\* Without a cap everybody who waited moves up.
LEMMA ClearFollows ==
  ASSUME NEW r \in RollCall, Apart(r.inList, r.outList, r.maybeList, r.waitList), NEW n \in Limits, n = 0
  PROVE  Follows(SetWaitLimit(r, n), r, r.waitList)
<1> DEFINE s == r.inList
           w == r.waitList
           o == r.outList
           m == r.maybeList
           new == SetWaitLimit(r, n)
           i == s \o w
<1>1. /\ s \in Seq(People) /\ w \in Seq(People) /\ o \in Seq(People)
      /\ IsInjective(s) /\ IsInjective(w) /\ Apart(s, o, m, w) /\ ToSet(s) \cap ToSet(w) = {}
  BY RollCallFields DEF Apart
<1>2. /\ new \in RollCall /\ new.inList = i /\ new.waitList = << >>
      /\ new.outList = o /\ new.maybeList = m /\ new.proxy_owners = r.proxy_owners
  BY LimitFields
<1>3. /\ r.inList = s /\ r.waitList = w /\ r.outList = o /\ r.maybeList = m
      /\ Waiting(new) = ToSet(<< >>)
      /\ Listed(new) = ToSet(i) \cup ToSet(o) \cup ToSet(m) \cup ToSet(<< >>)
  BY <1>2 DEF In, Waiting, Listed
<1> DEFINE e == << >>
<1>4. e \in Seq(People) /\ ToSet(e) = {} /\ IsInjective(e) /\ Ordered(e, Places(w))
  BY EmptyFacts
<1>a. new.waitList = e /\ Waiting(new) = {} /\ Listed(new) = ToSet(i) \cup ToSet(o) \cup ToSet(m)
  BY <1>2, <1>3, <1>4
<1>b. new.waitList # << >> => Capped(new)
  BY <1>2
<1> HIDE DEF s, w, o, m, new, e
<1>5. i \in Seq(People) /\ IsInjective(i) /\ ToSet(i) = ToSet(s) \cup ToSet(w)
  BY <1>1, ConcatFacts
<1>6. Continues(i, s, w)
  <2>1. Ordered(s, Places(s)) /\ Ordered(w, Places(w))
    BY PlacesFacts
  <2>2. ToSet(w) \subseteq ToSet(w) \ ToSet(s)
    BY <1>1
  <2> QED  BY <1>1, <2>1, <2>2, ContinuesIntro
<1>7. Continues(e, w, w)
  BY <1>1, <1>4, ContinuesLeft
<1>8. Continues(o, o, w)
  BY <1>1, ContinuesSame
<1> HIDE DEF i
<1>9. Apart(i, o, m, e)
  BY <1>1, <1>4, <1>5 DEF Apart
<1>10. ToSet(w) \subseteq Listed(new) /\ ToSet(e) \ ToSet(w) = ToSet(w) \ ToSet(w) /\ ToSet(w) \cap Waiting(new) = {}
  BY <1>4, <1>5, <1>a
<1>11. Follows(new, r, w)
  BY <1>1, <1>2, <1>3, <1>6, <1>7, <1>8, <1>9, <1>10, <1>a, <1>b DEF Follows, Moves
<1> QED  BY <1>3, <1>11 DEF new

\* The parts of an ordered list are ordered.
LEMMA OrderedSplit ==
  ASSUME NEW S, NEW s \in Seq(S), NEW R, Ordered(s, R), NEW n \in 0..Len(s)
  PROVE  Ordered(SubSeq(s, 1, n), R) /\ Ordered(SubSeq(s, n + 1, Len(s)), R)
<1> DEFINE a == SubSeq(s, 1, n)
           b == SubSeq(s, n + 1, Len(s))
<1>1. Len(s) \in Nat /\ n \in Nat /\ n <= Len(s)
  OBVIOUS
<1>2. Len(a) = n /\ \A i \in 1..n : a[i] = s[i]
  BY <1>1
<1>3. Len(b) = Len(s) - n /\ \A i \in 1..(Len(s) - n) : b[i] = s[n + i]
  BY <1>1
<1> HIDE DEF a, b
<1>4. Ordered(a, R)
  <2>1. \A i \in 1..n : i \in 1..Len(s)
    BY <1>1
  <2> QED  BY <1>2, <2>1 DEF Ordered
<1>5. Ordered(b, R)
  <2>1. \A i, j \in 1..(Len(s) - n) : n + i \in 1..Len(s) /\ (i < j => n + i < n + j)
    BY <1>1
  <2> QED  BY <1>3, <2>1 DEF Ordered
<1> QED  BY <1>4, <1>5 DEF a, b

\* A trace that leaves readable tables at every write, and at its end the
\* rollcall `new` and tables that stand for it.
Lands(t, new) ==
  t \in Seq(WritesTo(Neat)) /\ \E e : Ends(t, new, e) /\ Kept(new, e)

\* A lowered cap is told by the people it sends to the waitlist.
LEMMA DemoteMoves ==
  ASSUME NEW r \in RollCall, Apart(r.inList, r.outList, r.maybeList, r.waitList),
         NEW n \in Limits, n # 0, Len(r.inList) > n,
         NEW q \in RollCall, q.inList = r.inList, q.outList = r.outList, q.maybeList = r.maybeList,
         q.waitList = r.waitList, q.inListLimit = n, q.proxy_owners = r.proxy_owners
  PROVE  LET new == SetWaitLimit(r, n)
             us == Among(r.inList, Waiting(new))
         IN  Moves(new, q, us) /\ us # << >> /\ new.inListLimit = n
<1> DEFINE s == r.inList
           w == r.waitList
           o == r.outList
           m == r.maybeList
           new == SetWaitLimit(r, n)
           us == Among(s, Waiting(new))
           a == SubSeq(s, 1, n)
           b == SubSeq(s, n + 1, Len(s))
           v == b \o w
<1>1. /\ s \in Seq(People) /\ w \in Seq(People) /\ o \in Seq(People)
      /\ IsInjective(s) /\ IsInjective(w) /\ Apart(s, o, m, w) /\ ToSet(s) \cap ToSet(w) = {}
  BY RollCallFields DEF Apart
<1>2. /\ new \in RollCall /\ n \in 0..Len(s) /\ new.inList = a /\ new.waitList = v
      /\ new.outList = o /\ new.maybeList = m
      /\ new.inListLimit = n /\ new.proxy_owners = r.proxy_owners
  BY LimitFields
<1>3. /\ q.inList = s /\ q.waitList = w /\ q.outList = o /\ q.maybeList = m /\ r.inList = s
      /\ q.proxy_owners = new.proxy_owners
      /\ Waiting(new) = ToSet(v) /\ n # NoLimit /\ Len(s) > n /\ n \in Nat
      /\ Listed(new) = ToSet(a) \cup ToSet(o) \cup ToSet(m) \cup ToSet(v)
  BY <1>2, LimitAssumption DEF Waiting, Listed, In
<1>4. Capped(q) /\ Capped(new)
  BY <1>2, <1>3 DEF Capped
<1> HIDE DEF s, w, o, m, new
<1>5. /\ a \in Seq(People) /\ b \in Seq(People) /\ IsInjective(a) /\ IsInjective(b)
      /\ ToSet(a) \cap ToSet(b) = {} /\ ToSet(a) \cup ToSet(b) = ToSet(s) /\ Ordered(a, Places(s))
      /\ Len(b) = Len(s) - n
  <2>1. PICK k \in 0..Len(s) : k = n
    BY <1>2
  <2> DEFINE x == SubSeq(s, 1, k)
             y == SubSeq(s, k + 1, Len(s))
  <2>2. /\ x \in Seq(People) /\ y \in Seq(People) /\ IsInjective(x) /\ IsInjective(y)
        /\ ToSet(x) \cap ToSet(y) = {} /\ ToSet(x) \cup ToSet(y) = ToSet(s)
        /\ Len(y) = Len(s) - k
    <3>1. s \in Seq(People) /\ IsInjective(s) /\ k \in 0..Len(s)
      BY <1>1
    <3>2. x \in Seq(People) /\ y \in Seq(People) /\ IsInjective(x) /\ IsInjective(y)
      BY <3>1, SplitFacts
    <3>3. ToSet(x) \cap ToSet(y) = {}
      BY <3>1, SplitFacts
    <3>4. ToSet(x) \cup ToSet(y) = ToSet(s)
      BY <3>1, SplitFacts
    <3>6. Len(y) = Len(s) - k
      BY <3>1, SplitFacts
    <3> QED  BY <3>2, <3>3, <3>4, <3>6
  <2>3. a = x /\ b = y
    BY <2>1
  <2> HIDE DEF a, b, x, y
  <2>4. Ordered(x, Places(s))
    <3> DEFINE R == Places(s)
    <3>1. Ordered(s, R)
      BY PlacesFacts
    <3> HIDE DEF R
    <3>2. Ordered(x, R)
      BY <1>1, <3>1, OrderedSplit DEF x
    <3> QED  BY <3>2 DEF R
  <2> QED  BY <2>1, <2>2, <2>3, <2>4
<1> HIDE DEF a, b
<1>6. v \in Seq(People) /\ IsInjective(v) /\ ToSet(v) = ToSet(b) \cup ToSet(w)
  <2>1. ToSet(b) \cap ToSet(w) = {}
    BY <1>1, <1>5
  <2> QED  BY <1>1, <1>5, <2>1, ConcatFacts
<1> HIDE DEF v
<1>7. us \in Seq(People) /\ IsInjective(us) /\ ToSet(us) = ToSet(b)
  <2> DEFINE S == Waiting(new)
  <2> HIDE DEF S
  <2>1. Among(s, S) \in Seq(People) /\ IsInjective(Among(s, S)) /\ ToSet(Among(s, S)) = ToSet(s) \cap S
    BY <1>1, AmongFacts
  <2>2. S = ToSet(b) \cup ToSet(w)
    BY <1>3, <1>6 DEF S
  <2> QED  BY <1>1, <1>5, <2>1, <2>2 DEF S
<1> HIDE DEF us
<1>8. us # << >>
  <2>1. Len(b) # 0
    BY <1>1, <1>3, <1>5
  <2>2. b # << >>
    BY <2>1
  <2>3. ToSet(b) # {}
    BY <1>5, <2>2, EmptyFacts
  <2> QED  BY <1>7, <2>3, EmptyQueue
<1>9. Continues(a, s, us)
  <2>1. Ordered(a, Places(s))
    BY <1>5
  <2>2. ToSet(a) \subseteq ToSet(s) /\ ToSet(s) \ ToSet(a) \subseteq ToSet(us)
    BY <1>5, <1>7
  <2> QED  BY <1>1, <1>5, <2>1, <2>2, ContinuesLeft
<1>10. Continues(o, o, us)
  BY <1>1, ContinuesSame
<1>11. Apart(a, o, m, v)
  BY <1>1, <1>5, <1>6 DEF Apart
<1>12. ToSet(us) \subseteq Listed(new) /\ ToSet(v) \ ToSet(us) = ToSet(w) \ ToSet(us)
  BY <1>3, <1>6, <1>7
<1>13. Moves(new, q, us)
  BY <1>2, <1>3, <1>4, <1>7, <1>9, <1>10, <1>11, <1>12 DEF Moves
<1> QED  BY <1>2, <1>3, <1>8, <1>13 DEF new, us

\* Within the cap nobody is sent to the waitlist.
LEMMA RoomDemotesNobody ==
  ASSUME NEW r \in RollCall, Apart(r.inList, r.outList, r.maybeList, r.waitList),
         NEW n \in Limits, n # 0, ~(Len(r.inList) > n),
         NEW q \in RollCall, q = [r EXCEPT !.inListLimit = n]
  PROVE  LET new == SetWaitLimit(r, n)
         IN  new = FillWaitlistSlots(q) /\ Among(r.inList, Waiting(new)) = << >>
<1> DEFINE s == r.inList
           w == r.waitList
           new == SetWaitLimit(r, n)
           us == Among(s, Waiting(new))
<1>1. s \in Seq(People) /\ w \in Seq(People) /\ IsInjective(s) /\ IsInjective(w) /\ ToSet(s) \cap ToSet(w) = {}
  BY RollCallFields DEF Apart
<1>2. new = FillWaitlistSlots(q)
  BY LimitFields
<1>3. q.waitList = w
  BY CapFields DEF RollCall
<1>4. Waiting(new) \subseteq ToSet(w)
  <2>1. new # q => \E k : Fills(new, q, k)
    BY <1>2, FillFields
  <2>2. new = q => Waiting(new) = ToSet(w)
    BY <1>3 DEF Waiting
  <2>3. ASSUME new # q PROVE Waiting(new) \subseteq ToSet(w)
    <3>1. PICK k : Fills(new, q, k)
      BY <2>1, <2>3
    <3>2. k \in 0..Len(w) /\ new.waitList = SubSeq(w, k + 1, Len(w))
      BY <1>3, <3>1 DEF Fills
    <3> HIDE DEF w, new
    <3>3. ToSet(SubSeq(w, k + 1, Len(w))) \subseteq ToSet(w)
      BY <1>1, <3>2, SplitFacts
    <3> QED  BY <3>2, <3>3 DEF Waiting
  <2> QED  BY <2>2, <2>3
<1>5. us \in Seq(People) /\ ToSet(us) = {}
  <2> DEFINE S == Waiting(new)
  <2>0. S \subseteq ToSet(w)
    BY <1>4
  <2> HIDE DEF S, s, w
  <2>1. Among(s, S) \in Seq(People) /\ IsInjective(Among(s, S)) /\ ToSet(Among(s, S)) = ToSet(s) \cap S
    BY <1>1, AmongFacts
  <2> QED  BY <1>1, <2>0, <2>1 DEF S
<1>6. us = << >>
  <2> HIDE DEF us
  <2> QED  BY <1>5, EmptyFacts
<1> QED  BY <1>2, <1>6

\* The rollcall's own row, with a cap.
LEMMA CapKept ==
  ASSUME NEW r, NEW d, Kept(r, d), NEW n \in Limits, NEW q \in RollCall,
         q.inList = r.inList, q.outList = r.outList, q.maybeList = r.maybeList,
         q.waitList = r.waitList, q.inListLimit = n, q.proxy_owners = r.proxy_owners
  PROVE  Kept(q, UpdateRollcall(d, q))
<1> DEFINE e == UpdateRollcall(d, q)
<1>1. Tidy(d) /\ Table(d) /\ n # NoLimit /\ q.inListLimit \in Limits \cup {NoLimit}
  BY KeptFacts, LimitAssumption DEF Kept
<1>2. /\ Table(e) /\ e.limit = q.inListLimit /\ e.rows = d.rows
      /\ \A c \in Statuses : RowsWith(e, c) = RowsWith(d, c)
      /\ \A c \in Columns : \A s : InOrder(d, c, s) => InOrder(e, c, s)
      /\ Distinct(e)
  BY <1>1, CapRowFacts DEF Tidy
<1> HIDE DEF e
<1>3. Tidy(e)
  BY <1>1, <1>2 DEF Tidy, WaitsForCap
<1>4. \A g \in Guests : OwnerIn(e, g) = OwnerIn(d, g)
  BY <1>2 DEF OwnerIn, HasRow
<1>5. RowsWith(e, "maybe") = RowsWith(d, "maybe")
  BY <1>2 DEF Statuses, Answers
<1>6. InOrder(e, "in", q.inList) /\ InOrder(e, "out", q.outList) /\ InOrder(e, "waitlist", q.waitList)
  BY <1>2 DEF Kept, KeptBut, Columns
<1> QED  BY <1>2, <1>3, <1>4, <1>5, <1>6 DEF Kept, KeptBut, e

(***************************************************************************)
(* Traces on a rollcall the tables stand for: every write leaves tables to *)
(* rely on, and the last one tables that stand for the new rollcall.       *)
(***************************************************************************)
LEMMA VoteKept ==
  ASSUME NEW r, NEW d, NEW u \in People, NEW X \in SUBSET {u}, KeptBut(r, d, X),
         NEW answer \in Answers, X # {} => Joins(r, u, answer), NEW recomment
  PROVE  Lands(VoteTrace(d, r, u, answer, recomment), Add(r, u, answer))
<1> DEFINE new == Add(r, u, answer)
           us == VoteWrites(r, new, u, recomment)
<1>1. /\ r \in RollCall /\ Apart(r.inList, r.outList, r.maybeList, r.waitList)
      /\ r.waitList # << >> => Capped(r)
  BY KeptFacts
<1>2. Follows(new, r, us) /\ (Joins(r, u, answer) => u \in ToSet(us))
  BY <1>1, VoteFollows
<1>3. VoteTrace(d, r, u, answer, recomment) = SavesAndClose(d, new, us)
  BY DEF VoteTrace
<1> HIDE DEF new, us
<1>4. X \subseteq ToSet(us)
  BY <1>2
<1>5. /\ SavesAndClose(d, new, us) \in Seq(WritesTo(Neat))
      /\ \E e : Ends(SavesAndClose(d, new, us), new, e) /\ Kept(new, e)
  BY <1>2, <1>4, CloseKept
<1> QED  BY <1>3, <1>5 DEF new, Lands

\* The fill and the cap leave the tables standing for the lists.
LEMMA FillKept ==
  ASSUME NEW r, NEW d, Kept(r, d)
  PROVE  Lands(FillTrace(d, r), FillWaitlistSlots(r))
<1> DEFINE new == FillWaitlistSlots(r)
           us == Among(r.waitList, In(new))
           X == {}
<1>0. KeptBut(r, d, X) /\ X \subseteq ToSet(us)
  BY DEF Kept
<1>1. /\ r \in RollCall /\ Apart(r.inList, r.outList, r.maybeList, r.waitList)
      /\ r.waitList # << >> => Capped(r)
  BY <1>0, KeptFacts
<1>2. Follows(new, r, us)
  BY <1>1, FillFollows
<1>3. FillTrace(d, r) = SavesAndClose(d, new, us)
  BY DEF FillTrace
<1> HIDE DEF new, us, X
<1>5. /\ SavesAndClose(d, new, us) \in Seq(WritesTo(Neat))
      /\ \E e : Ends(SavesAndClose(d, new, us), new, e) /\ Kept(new, e)
  BY <1>0, <1>2, CloseKept
<1> QED  BY <1>3, <1>5 DEF new, Lands

LEMMA LimitKept ==
  ASSUME NEW r, NEW d, Kept(r, d), NEW n \in Limits
  PROVE  Lands(LimitTrace(d, r, n), SetWaitLimit(r, n))
<1> DEFINE new    == SetWaitLimit(r, n)
           capped == [r EXCEPT !.inListLimit = n]
           d0     == UpdateRollcall(d, capped)
           excess == Among(r.inList, Waiting(new))
           rows   == Saves(d0, new, excess)
           queued == ReorderWaitlist(End(rows, d0), new.waitList)
           t      == LimitTrace(d, r, n)
<1>1. /\ r \in RollCall /\ Apart(r.inList, r.outList, r.maybeList, r.waitList)
      /\ (r.waitList # << >> => Capped(r)) /\ r.waitList \in Seq(People) /\ KeptBut(r, d, {})
  BY KeptFacts DEF Kept
<1>2. /\ capped \in RollCall /\ capped.inList = r.inList /\ capped.outList = r.outList
      /\ capped.maybeList = r.maybeList /\ capped.waitList = r.waitList
      /\ capped.inListLimit = n /\ capped.proxy_owners = r.proxy_owners
  BY <1>1, CapFields
<1>3. t = IF n = 0 THEN SavesAndClose(d, new, r.waitList)
          ELSE << Write(capped, capped, d0) >> \o
               (IF excess # << >>
                THEN rows \o << Write(new, new, queued), Write(new, new, queued) >>
                ELSE IF new = capped THEN << >> ELSE FillTrace(d0, capped))
  BY DEF LimitTrace
<1> DEFINE first == << Write(capped, capped, d0) >>
<1>4. Kept(capped, d0)
  <2> HIDE DEF capped
  <2> QED  BY <1>2, CapKept
<1>5. d0 \in Neat
  BY <1>4, KeptFacts DEF Kept, Neat, Table
<1>6. first \in Seq(WritesTo(Neat)) /\ Ends(first, capped, d0)
  <2> HIDE DEF capped, d0
  <2> QED  BY <1>2, <1>5, OneWrite
<1>7. CASE n = 0
  <2>1. Follows(new, r, r.waitList)
    BY <1>1, <1>7, ClearFollows
  <2>2. t = SavesAndClose(d, new, r.waitList)
    BY <1>3, <1>7
  <2> DEFINE us == r.waitList
             X == {}
  <2>3. X \subseteq ToSet(us) /\ Follows(new, r, us) /\ KeptBut(r, d, X)
    BY <1>1, <2>1
  <2> HIDE DEF new, us, X, t
  <2>4. Lands(SavesAndClose(d, new, us), new)
    BY <2>3, CloseKept DEF Lands
  <2> QED  BY <2>2, <2>4 DEF new, us, t
<1>8. CASE n # 0 /\ Len(r.inList) > n
  <2>1. Moves(new, capped, excess) /\ excess # << >> /\ new.inListLimit = n
    <3> HIDE DEF capped
    <3> QED  BY <1>1, <1>2, <1>8, DemoteMoves
  <2> DEFINE two == << Write(new, new, queued), Write(new, new, queued) >>
  <2>2. t = first \o (rows \o two)
    BY <1>3, <1>8, <2>1
  <2>3. rows \in Seq(WritesTo(Neat)) /\ Kept(new, queued)
    <3> HIDE DEF new, excess, capped, d0
    <3> QED  BY <1>2, <1>4, <2>1, DemotedKept
  <2>4. queued \in Neat /\ new \in RollCall
    BY <2>3, KeptFacts DEF Kept, Neat, Table
  <2> HIDE DEF t, first, rows, queued, new
  <2> DEFINE one == Write(new, new, queued)
  <2>5. <<one>> \in Seq(WritesTo(Neat)) /\ Ends(<<one>>, new, queued) /\ two = <<one>> \o <<one>>
    BY <2>4, OneWrite
  <2> HIDE DEF two, one
  <2>6. two \in Seq(WritesTo(Neat)) /\ Ends(two, new, queued)
    BY <2>5, JoinedTrace
  <2>7. rows \o two \in Seq(WritesTo(Neat)) /\ Ends(rows \o two, new, queued)
    BY <2>3, <2>6, JoinedTrace
  <2>8. first \o (rows \o two) \in Seq(WritesTo(Neat)) /\ Ends(first \o (rows \o two), new, queued)
    BY <1>6, <2>7, JoinedTrace
  <2> QED  BY <2>2, <2>3, <2>8 DEF t, new, Lands
<1>9. CASE n # 0 /\ ~(Len(r.inList) > n)
  <2>1. new = FillWaitlistSlots(capped) /\ excess = << >>
    BY <1>1, <1>2, <1>9, RoomDemotesNobody
  <2>2. CASE new = capped
    <3>1. t = first
      <4>1. t = first \o << >>
        BY <1>3, <1>9, <2>1, <2>2
      <4> QED  BY <4>1
    <3>2. Lands(first, new)
      BY <1>4, <1>6, <2>2 DEF Lands
    <3> QED  BY <3>1, <3>2
  <2>3. CASE new # capped
    <3> DEFINE f == FillTrace(d0, capped)
    <3>1. t = first \o f
      BY <1>3, <1>9, <2>1, <2>3
    <3> HIDE DEF t, first, new, capped, d0
    <3>2. f \in Seq(WritesTo(Neat)) /\ \E e : Ends(f, new, e) /\ Kept(new, e)
      BY <1>4, <2>1, FillKept DEF Lands
    <3> HIDE DEF f
    <3>3. Lands(first \o f, new)
      BY <1>6, <3>2, JoinedTrace DEF Lands
    <3> QED  BY <3>1, <3>3 DEF t, new
  <2> QED  BY <2>2, <2>3
<1> QED  BY <1>7, <1>8, <1>9

\* A rollcall without somebody.
LEMMA WithoutFields ==
  ASSUME NEW r \in RollCall, NEW u \in People
  PROVE  LET a == Without(r, u)
         IN  /\ a \in RollCall /\ a.inListLimit = r.inListLimit
             /\ a.inList = RemoveFirst(r.inList, u) /\ a.outList = RemoveFirst(r.outList, u)
             /\ a.maybeList = RemoveFirst(r.maybeList, u) /\ a.waitList = RemoveFirst(r.waitList, u)
             /\ \A g \in Guests : a.proxy_owners[g] = IF g = u THEN NoOwner ELSE r.proxy_owners[g]
<1> DEFINE p == SetOwner(r, u, NoOwner)
           i == RemoveFirst(r.inList, u)
           o == RemoveFirst(r.outList, u)
           m == RemoveFirst(r.maybeList, u)
           w == RemoveFirst(r.waitList, u)
           a == Without(r, u)
<1>1. NoOwner \in Owners
  BY DEF Owners
<1>2. /\ p \in RollCall /\ p.inList = r.inList /\ p.outList = r.outList
      /\ p.maybeList = r.maybeList /\ p.waitList = r.waitList
      /\ p.inListLimit = r.inListLimit
      /\ \A g \in Guests : p.proxy_owners[g] = IF g = u THEN NoOwner ELSE r.proxy_owners[g]
  BY <1>1, OwnerFields
<1>3. i \in Seq(People) /\ o \in Seq(People) /\ m \in Seq(People) /\ w \in Seq(People)
  BY RollCallFields, RemoveFirstTyped
<1>4. a = [p EXCEPT !.inList = RemoveFirst(@, u), !.outList = RemoveFirst(@, u),
                    !.maybeList = RemoveFirst(@, u), !.waitList = RemoveFirst(@, u)]
  BY DEF Without
<1> HIDE DEF a, p
<1>5. a = [p EXCEPT !.inList = i, !.outList = o, !.maybeList = m, !.waitList = w]
  BY <1>2, <1>4 DEF RollCall
<1> HIDE DEF i, o, m, w
<1>6. /\ a \in RollCall /\ a.inList = i /\ a.outList = o /\ a.maybeList = m /\ a.waitList = w
      /\ a.inListLimit = p.inListLimit /\ a.proxy_owners = p.proxy_owners
  BY <1>2, <1>3, <1>5 DEF RollCall
<1> QED  BY <1>2, <1>6 DEF a, i, o, m, w

\* A deleted row, and the lists without it.
LEMMA GoneKept ==
  ASSUME NEW r, NEW d, Kept(r, d), NEW u \in People
  PROVE  LET gone == DeleteUserById(d, u)
         IN  Kept(Without(r, u), gone) /\ gone \in Neat /\ u \notin Written(gone)
<1> DEFINE gone == DeleteUserById(d, u)
           q == Without(r, u)
<1>1. /\ r \in RollCall /\ Table(d) /\ Tidy(d) /\ r.maybeList \in Seq(People)
      /\ IsInjective(r.maybeList) /\ ToSet(r.maybeList) = RowsWith(d, "maybe")
      /\ r.inListLimit = d.limit
      /\ InOrder(d, "in", r.inList) /\ InOrder(d, "out", r.outList) /\ InOrder(d, "waitlist", r.waitList)
      /\ \A g \in Guests : r.proxy_owners[g] = OwnerIn(d, g)
  BY KeptFacts DEF Kept, KeptBut, Apart
<1>2. /\ q \in RollCall /\ q.inListLimit = r.inListLimit
      /\ q.inList = RemoveFirst(r.inList, u) /\ q.outList = RemoveFirst(r.outList, u)
      /\ q.maybeList = RemoveFirst(r.maybeList, u) /\ q.waitList = RemoveFirst(r.waitList, u)
      /\ \A g \in Guests : q.proxy_owners[g] = IF g = u THEN NoOwner ELSE r.proxy_owners[g]
  BY <1>1, WithoutFields
<1>3. Tidy(gone)
  BY <1>1, DeleteKeepsTidy
<1>4. /\ Table(gone) /\ gone.limit = d.limit
      /\ Written(gone) = Written(d) \ {u}
      /\ \A v \in People \ {u} : gone.rows[v] = d.rows[v]
      /\ \A c \in Statuses : RowsWith(gone, c) = RowsWith(d, c) \ {u}
  BY <1>1, DeleteFacts
<1>5. /\ InOrder(gone, "in", RemoveFirst(r.inList, u))
      /\ InOrder(gone, "out", RemoveFirst(r.outList, u))
      /\ InOrder(gone, "waitlist", RemoveFirst(r.waitList, u))
  BY <1>1, DeleteMoves DEF Columns
<1> HIDE DEF gone, q
<1>6. IsInjective(q.maybeList) /\ ToSet(q.maybeList) = RowsWith(gone, "maybe")
  <2> DEFINE m == r.maybeList
  <2>1. m \in Seq(People) /\ IsInjective(m) /\ ToSet(m) = RowsWith(d, "maybe")
    BY <1>1
  <2> HIDE DEF m
  <2>2. IsInjective(RemoveFirst(m, u)) /\ ToSet(RemoveFirst(m, u)) = ToSet(m) \ {u}
    BY <2>1, RemoveFirstFacts
  <2>3. RowsWith(gone, "maybe") = RowsWith(d, "maybe") \ {u}
    BY <1>4 DEF Statuses, Answers
  <2>4. q.maybeList = RemoveFirst(m, u)
    BY <1>2 DEF m
  <2> QED  BY <2>1, <2>2, <2>3, <2>4
<1>7. ASSUME NEW g \in Guests PROVE q.proxy_owners[g] = OwnerIn(gone, g)
  <2>1. g \in People
    BY DEF People
  <2>2. CASE g = u
    BY <1>2, <1>4, <2>1, <2>2 DEF OwnerIn, Written
  <2>3. CASE g # u
    BY <1>1, <1>2, <1>4, <2>1, <2>3 DEF OwnerIn, HasRow
  <2> QED  BY <2>2, <2>3
<1>8. Kept(q, gone)
  BY <1>1, <1>2, <1>3, <1>4, <1>5, <1>6, <1>7 DEF Kept, KeptBut
<1>9. gone \in Neat
  BY <1>3 DEF Neat, Tidy, Table
<1> QED  BY <1>4, <1>8, <1>9 DEF gone, q

\* The write that deletes a row and reads the lists back.
LEMMA DeleteKept ==
  ASSUME NEW r, NEW d, Kept(r, d), NEW u \in People, NEW owner \in Owners
  PROVE  LET w == DeleteWrite(d, r, u, owner)
         IN  /\ << w >> \in Seq(WritesTo(Neat)) /\ Ends(<< w >>, w.rc, w.db)
             /\ \E q \in Reloads(Without(r, u)) :
                  Kept(q, w.db) /\ w.rc = SetOwner(q, u, owner) /\ u \notin Listed(q)
<1> DEFINE gone == DeleteUserById(d, u)
           q == ReloadUsers(gone, r)
           p == SetOwner(q, u, owner)
           w == DeleteWrite(d, r, u, owner)
<1>1. Kept(Without(r, u), gone) /\ gone \in Neat /\ u \notin Written(gone)
  BY GoneKept
<1>2. r \in RollCall /\ Tidy(gone) /\ Table(gone)
  BY <1>1 DEF Kept, KeptBut, Tidy
<1>3. w = Write(r, p, gone)
  BY DEF DeleteWrite
<1> HIDE DEF gone, w
<1>4. LoadFromDb(gone) \in Reloads(Without(r, u)) /\ Kept(LoadFromDb(gone), gone)
  <2> DEFINE x == Without(r, u)
  <2> HIDE DEF x
  <2>1. Kept(x, gone)
    BY <1>1 DEF x
  <2>2. LoadFromDb(gone) \in Reloads(x)
    BY <2>1, KeptReloads
  <2>3. Kept(LoadFromDb(gone), gone)
    BY <1>2, LoadKept
  <2> QED  BY <2>2, <2>3 DEF x
<1>5. q = LoadFromDb(gone)
  <2> DEFINE l == LoadFromDb(gone)
  <2>1. l \in RollCall /\ l.inListLimit = gone.limit
    BY <1>4 DEF Kept, KeptBut
  <2>2. r.inListLimit = gone.limit
    <3>1. Without(r, u).inListLimit = r.inListLimit
      BY <1>2, WithoutFields
    <3>2. Without(r, u).inListLimit = gone.limit
      BY <1>1 DEF Kept, KeptBut
    <3> QED  BY <3>1, <3>2
  <2>3. q = [l EXCEPT !.inListLimit = r.inListLimit]
    BY DEF ReloadUsers
  <2> HIDE DEF l, q
  <2> QED  BY <2>1, <2>2, <2>3 DEF RollCall, l
<1> HIDE DEF q
<1>6. Kept(q, gone) /\ q \in Reloads(Without(r, u)) /\ q \in RollCall
  BY <1>4, <1>5 DEF Kept, KeptBut
<1>7. u \notin Listed(q)
  <2>1. Listed(q) = Written(gone)
    BY <1>6, KeptFacts DEF Kept
  <2> QED  BY <1>1, <2>1
<1>8. p \in RollCall
  BY <1>6, OwnerFields
<1>p. p = SetOwner(q, u, owner)
  OBVIOUS
<1> HIDE DEF p
<1>9. w.rc = p /\ w.db = gone /\ << w >> \in Seq(WritesTo(Neat)) /\ Ends(<< w >>, p, gone)
  <2>1. Write(r, p, gone).rc = p /\ Write(r, p, gone).db = gone
    BY <1>1, <1>2, <1>8, WriteTyped
  <2>2. << Write(r, p, gone) >> \in Seq(WritesTo(Neat)) /\ Ends(<< Write(r, p, gone) >>, p, gone)
    BY <1>1, <1>2, <1>8, OneWrite
  <2> QED  BY <1>3, <2>1, <2>2
<1> QED  BY <1>6, <1>7, <1>9, <1>p DEF w

\* An owner given to somebody without a row.
LEMMA OwnerKept ==
  ASSUME NEW r, NEW d, Kept(r, d), NEW u \in People, NEW owner \in Owners
  PROVE  LET q == SetOwner(r, u, owner)
         IN  /\ KeptBut(q, d, {u}) /\ Listed(q) = Listed(r)
             /\ owner = NoOwner /\ u \notin Listed(r) => q = r
             /\ u \notin Guests => q = r
<1> DEFINE q == SetOwner(r, u, owner)
<1>1. /\ r \in RollCall /\ Tidy(d)
      /\ InOrder(d, "in", r.inList) /\ InOrder(d, "out", r.outList) /\ InOrder(d, "waitlist", r.waitList)
      /\ IsInjective(r.maybeList) /\ ToSet(r.maybeList) = RowsWith(d, "maybe")
      /\ r.inListLimit = d.limit
      /\ \A g \in Guests : r.proxy_owners[g] = OwnerIn(d, g)
      /\ Listed(r) = Written(d)
  BY KeptFacts DEF Kept, KeptBut
<1>2. /\ q \in RollCall /\ q.inList = r.inList /\ q.outList = r.outList
      /\ q.maybeList = r.maybeList /\ q.waitList = r.waitList
      /\ q.inListLimit = r.inListLimit
      /\ \A g \in Guests : q.proxy_owners[g] = IF g = u THEN owner ELSE r.proxy_owners[g]
  BY <1>1, OwnerFields
<1> HIDE DEF q
<1>3. KeptBut(q, d, {u})
  BY <1>1, <1>2 DEF KeptBut
<1>4. Listed(q) = Listed(r)
  BY <1>2 DEF Listed, In, Waiting
<1>5. ASSUME \A g \in Guests : q.proxy_owners[g] = r.proxy_owners[g] PROVE q = r
  <2>1. q.proxy_owners \in [Guests -> Owners] /\ r.proxy_owners \in [Guests -> Owners]
    BY <1>1, <1>2, RollCallFields
  <2>2. q.proxy_owners = r.proxy_owners
    BY <1>5, <2>1
  <2> QED  BY <1>1, <1>2, <2>2 DEF RollCall
<1>6. ASSUME owner = NoOwner, u \notin Listed(r) PROVE q = r
  <2>1. u \in Guests => r.proxy_owners[u] = NoOwner
    BY <1>1, <1>6 DEF OwnerIn, Written, People
  <2> QED  BY <1>2, <1>5, <1>6, <2>1
<1>7. ASSUME u \notin Guests PROVE q = r
  BY <1>2, <1>5, <1>7
<1> QED  BY <1>3, <1>4, <1>6, <1>7 DEF q

\* One trace after another.
LEMMA LandsAfter ==
  ASSUME NEW s \in Seq(WritesTo(Neat)), NEW t, NEW new, Lands(t, new)
  PROVE  Lands(s \o t, new)
BY JoinedTrace DEF Lands

\* What a deletion, a forced status and a web answer end with.
LEMMA DeleteLands ==
  ASSUME NEW r, NEW d, Kept(r, d), NEW u \in People
  PROVE  \E q \in Reloads(Without(r, u)) : Lands(DeleteTrace(d, r, u), FillWaitlistSlots(q))
<1> DEFINE w == DeleteWrite(d, r, u, NoOwner)
<1>0. NoOwner \in Owners
  BY DEF Owners
<1>1. /\ << w >> \in Seq(WritesTo(Neat))
      /\ \E q \in Reloads(Without(r, u)) :
           Kept(q, w.db) /\ w.rc = SetOwner(q, u, NoOwner) /\ u \notin Listed(q)
  BY <1>0, DeleteKept
<1>2. DeleteTrace(d, r, u) = << w >> \o FillTrace(w.db, w.rc)
  BY DEF DeleteTrace
<1> HIDE DEF w
<1>3. PICK q \in Reloads(Without(r, u)) :
        Kept(q, w.db) /\ w.rc = SetOwner(q, u, NoOwner) /\ u \notin Listed(q)
  BY <1>1
<1>4. w.rc = q
  BY <1>0, <1>3, OwnerKept
<1>5. Lands(FillTrace(w.db, w.rc), FillWaitlistSlots(q))
  BY <1>3, <1>4, FillKept
<1>6. Lands(<< w >> \o FillTrace(w.db, w.rc), FillWaitlistSlots(q))
  <2> DEFINE f == FillTrace(w.db, w.rc)
             v == << w >>
  <2>1. v \in Seq(WritesTo(Neat)) /\ Lands(f, FillWaitlistSlots(q))
    BY <1>1, <1>5
  <2> HIDE DEF f, v
  <2>2. Lands(v \o f, FillWaitlistSlots(q))
    BY <2>1, LandsAfter
  <2> QED  BY <2>2 DEF f, v
<1> QED  BY <1>2, <1>6

LEMMA StatusLands ==
  ASSUME NEW r, NEW d, Kept(r, d), NEW u \in People, NEW answer \in Answers
  PROVE  \E q \in Reloads(Without(r, u)) :
           Lands(StatusTrace(d, r, u, answer), Add(SetOwner(q, u, OwnerOf(r, u)), u, answer))
<1> DEFINE o == OwnerOf(r, u)
           w == DeleteWrite(d, r, u, o)
<1>0. o \in Owners
  BY StatusFacts DEF Kept, KeptBut
<1>2. StatusTrace(d, r, u, answer) = << w >> \o VoteTrace(w.db, w.rc, u, answer, FALSE)
  BY DEF StatusTrace
<1> HIDE DEF o
<1>1. /\ << w >> \in Seq(WritesTo(Neat))
      /\ \E q \in Reloads(Without(r, u)) :
           Kept(q, w.db) /\ w.rc = SetOwner(q, u, o) /\ u \notin Listed(q)
  BY <1>0, DeleteKept
<1> HIDE DEF w
<1>3. PICK q \in Reloads(Without(r, u)) :
        Kept(q, w.db) /\ w.rc = SetOwner(q, u, o) /\ u \notin Listed(q)
  BY <1>1
<1> DEFINE X == {u}
<1>4. KeptBut(w.rc, w.db, X) /\ u \notin Listed(w.rc) /\ X \in SUBSET {u}
  BY <1>0, <1>3, OwnerKept
<1>a. Joins(w.rc, u, answer)
  BY <1>4 DEF Joins
<1> HIDE DEF X
<1>5. Lands(VoteTrace(w.db, w.rc, u, answer, FALSE), Add(w.rc, u, answer))
  BY <1>4, <1>a, VoteKept
<1>6. Lands(<< w >> \o VoteTrace(w.db, w.rc, u, answer, FALSE), Add(w.rc, u, answer))
  <2> DEFINE f == VoteTrace(w.db, w.rc, u, answer, FALSE)
             v == << w >>
             new == Add(w.rc, u, answer)
  <2>1. v \in Seq(WritesTo(Neat)) /\ Lands(f, new)
    BY <1>1, <1>5
  <2> HIDE DEF f, v, new
  <2>2. Lands(v \o f, new)
    BY <2>1, LandsAfter
  <2> QED  BY <2>2 DEF f, v, new
<1> QED  BY <1>2, <1>3, <1>6 DEF o

LEMMA WebLands ==
  ASSUME NEW r, NEW d, Kept(r, d), NEW m \in Members, NEW g \in Guests, NEW answer \in Answers,
         NEW recomment
  PROVE  \E q \in Reloads(Without(r, g)) :
           Lands(WebTrace(d, r, m, g, answer, recomment), FillWaitlistSlots(Add(q, m, answer)))
<1> DEFINE w == DeleteWrite(d, r, g, NoOwner)
           v == VoteTrace(w.db, w.rc, m, answer, recomment)
           f == FillTrace(Last(v).db, Last(v).rc)
<1>0. NoOwner \in Owners /\ g \in People /\ m \in People
  BY DEF Owners, People
<1>1. /\ << w >> \in Seq(WritesTo(Neat))
      /\ \E q \in Reloads(Without(r, g)) :
           Kept(q, w.db) /\ w.rc = SetOwner(q, g, NoOwner) /\ g \notin Listed(q)
  BY <1>0, DeleteKept
<1>2. WebTrace(d, r, m, g, answer, recomment) = << w >> \o v \o f
  BY DEF WebTrace
<1> HIDE DEF w
<1>3. PICK q \in Reloads(Without(r, g)) :
        Kept(q, w.db) /\ w.rc = SetOwner(q, g, NoOwner) /\ g \notin Listed(q)
  BY <1>1
<1>4. w.rc = q
  BY <1>0, <1>3, OwnerKept
<1> DEFINE new == Add(q, m, answer)
<1>5. Lands(v, new)
  <2> DEFINE X == {}
  <2>1. KeptBut(q, w.db, X) /\ X \in SUBSET {m} /\ X = {}
    BY <1>3 DEF Kept
  <2> HIDE DEF X
  <2>2. Lands(VoteTrace(w.db, q, m, answer, recomment), Add(q, m, answer))
    BY <1>0, <2>1, VoteKept
  <2> QED  BY <1>4, <2>2
<1> HIDE DEF v, new
<1>6. v \in Seq(WritesTo(Neat)) /\ Last(v).rc = new /\ Kept(new, Last(v).db)
  BY <1>5 DEF Lands, Ends
<1>7. Lands(f, FillWaitlistSlots(new))
  BY <1>6, FillKept
<1> HIDE DEF f
<1>8. Lands(<< w >> \o v \o f, FillWaitlistSlots(new))
  <2> DEFINE x == << w >>
             a == x \o v
  <2>0. x \in Seq(WritesTo(Neat))
    BY <1>1
  <2> HIDE DEF x
  <2>1. a \in Seq(WritesTo(Neat))
    BY <1>6, <2>0, JoinedTrace
  <2> HIDE DEF a
  <2>2. Lands(a \o f, FillWaitlistSlots(new))
    BY <1>7, <2>1, LandsAfter
  <2> QED  BY <2>2 DEF a, x
<1> QED  BY <1>2, <1>8 DEF new

\* A guest who comes, entered by an admin or on the web page.
LEMMA GuestLands ==
  ASSUME NEW r, NEW d, Kept(r, d), NEW g \in Guests, NEW owner \in Owners,
         g \notin In(r) \cup Waiting(r)
  PROVE  Lands(VoteTrace(d, SetOwner(r, g, owner), g, "in", FALSE), AddIn(SetOwner(r, g, owner), g))
<1> DEFINE q == SetOwner(r, g, owner)
           X == {g}
<1>0. g \in People /\ r \in RollCall /\ "in" \in Answers
  BY DEF People, Kept, KeptBut, Answers
<1>1. KeptBut(q, d, X)
  BY <1>0, OwnerKept
<1>2. In(q) = In(r) /\ Waiting(q) = Waiting(r)
  BY <1>0, OwnerFields DEF In, Waiting
<1> HIDE DEF q, X
<1>3. Joins(q, g, "in")
  BY <1>2 DEF Joins
<1>4. X \in SUBSET {g}
  BY DEF X
<1>5. Lands(VoteTrace(d, q, g, "in", FALSE), Add(q, g, "in"))
  BY <1>0, <1>1, <1>3, <1>4, VoteKept
<1>6. Add(q, g, "in") = AddIn(q, g)
  BY DEF Add
<1> QED  BY <1>5, <1>6 DEF q

(***************************************************************************)
(* Every operation, run to its end, leaves the tables standing for the     *)
(* lists, and does to the lists what the operation over lists alone does.  *)
(***************************************************************************)
\* The inductive invariant: a sound rollcall, and tables that stand for it.
StoreInv == Inv /\ Kept(rc, db)

\* Empty tables stand for a new rollcall.
LEMMA EmptyKept ==
  ASSUME NEW limit \in Limits \cup {NoLimit}
  PROVE  Kept(NewRollCall(limit), EmptyTable(limit))
<1> DEFINE d == EmptyTable(limit)
           r == NewRollCall(limit)
           e == << >>
<1>1. /\ d.rows = [u \in People |-> NoRow] /\ d.born = e /\ d.limit = limit /\ d \in Tables
      /\ d.born \in Seq(People)
  BY DEF EmptyTable, Tables
<1>2. /\ r.inList = e /\ r.outList = e /\ r.maybeList = e /\ r.waitList = e
      /\ r.inListLimit = limit /\ r.proxy_owners = [g \in Guests |-> NoOwner]
      /\ r \in RollCall
  BY DEF NewRollCall, RollCall, Owners
<1>3. e \in Seq(People) /\ ToSet(e) = {} /\ IsInjective(e) /\ \A R : Ordered(e, R)
  BY EmptyFacts
<1> HIDE DEF d, r, e
<1>4. Written(d) = {} /\ (\A c : RowsWith(d, c) = {}) /\ \A g \in Guests : OwnerIn(d, g) = NoOwner
  BY <1>1 DEF Written, RowsWith, HasRow, OwnerIn, People
<1>5. Table(d)
  BY <1>1, <1>3, <1>4 DEF Table
<1>6. Tidy(d)
  <2>1. ASSUME NEW c \in Columns, NEW u \in People PROVE At(d, c)[u] = 0
    <3>1. ~HasRow(d, u)
      BY <1>4 DEF Written
    <3> QED  BY <3>1 DEF At
  <2>2. Distinct(d)
    BY <2>1 DEF Distinct
  <2> QED  BY <1>4, <1>5, <2>2 DEF Tidy, WaitsForCap
<1>7. \A c \in Columns : InOrder(d, c, e)
  BY <1>3, <1>4 DEF InOrder
<1>8. \A g \in Guests : r.proxy_owners[g] = OwnerIn(d, g)
  BY <1>2, <1>4
<1> QED  BY <1>1, <1>2, <1>3, <1>4, <1>6, <1>7, <1>8 DEF Kept, KeptBut, Columns, d, r

\* The first state: a new rollcall and its empty tables.
LEMMA StoreInitInv == StoreInit => StoreInv /\ Init
<1> SUFFICES ASSUME StoreInit PROVE StoreInv /\ Init
  OBVIOUS
<1>1. PICK limit \in Limits \cup {NoLimit} : rc = NewRollCall(limit) /\ db = EmptyTable(limit)
  BY DEF StoreInit
<1>2. Init
  BY <1>1 DEF Init
<1> QED  BY <1>1, <1>2, InitInv, EmptyKept DEF StoreInv

\* Tables of one row per person, one position set, can be read back.
LEMMA TablesReadable ==
  ASSUME rc \in RollCall, Table(db)
  PROVE  StoreTypeOK
<1>1. ASSUME NEW u \in People, HasRow(db, u)
      PROVE  /\ db.rows[u].status \in Answers \cup {"waitlist"}
             /\ {c \in Columns : db.rows[u].pos[c] # 0} = {db.rows[u].status} \cap Columns
  <2>1. u \in Written(db)
    BY <1>1 DEF Written
  <2>2. db.rows[u].status \in Answers \cup {"waitlist"}
    BY <2>1, TableFacts
  <2>3. \A c \in Columns : db.rows[u].pos[c] # 0 <=> db.rows[u].status = c
    BY <2>1 DEF Table
  <2> QED  BY <2>2, <2>3
<1>2. ToSet(db.born) = {u \in People : HasRow(db, u)}
  BY DEF Table, Written
<1> QED  BY <1>1, <1>2 DEF StoreTypeOK, TypeOK

\* Tables that stand for the rollcall read back as it, MAYBE's order apart.
LEMMA KeptMatches ==
  ASSUME Kept(rc, db)
  PROVE  CacheMatchesStore
<1> DEFINE q == LoadFromDb(db)
           e == << >>
<1>1. Table(db) /\ rc \in RollCall /\ ToSet(rc.maybeList) = RowsWith(db, "maybe")
  BY KeptFacts DEF Kept
<1>2. q = [rc EXCEPT !.maybeList = q.maybeList]
  BY KeptReloads
<1>3. q \in RollCall
  BY <1>1, LoadTyped
<1> HIDE DEF q, e
<1>4. [rc EXCEPT !.maybeList = e] = [q EXCEPT !.maybeList = e]
  BY <1>1, <1>2, <1>3 DEF RollCall
<1> QED  BY <1>1, <1>4 DEF CacheMatchesStore, q, e

\* What the invariant says of the tables.
LEMMA StoreInvOK == StoreInv => StoreOK
<1> SUFFICES ASSUME Inv, Kept(rc, db) PROVE StoreOK
  BY DEF StoreInv
<1>1. Table(db) /\ Tidy(db) /\ rc \in RollCall
  BY KeptFacts DEF Kept
<1>2. PositionsDistinct
  <2>1. ASSUME NEW c \in Columns, NEW u \in RowsWith(db, c)
        PROVE  u \in People /\ At(db, c)[u] = db.rows[u].pos[c] /\ db.rows[u].pos[c] # 0
    <3>1. u \in Written(db) /\ HasRow(db, u) /\ db.rows[u].status = c
      BY DEF RowsWith, Written
    <3> QED  BY <1>1, <3>1 DEF At, Table, Written
  <2>2. \A c \in Columns, u, v \in People :
          At(db, c)[u] = At(db, c)[v] /\ At(db, c)[u] # 0 => u = v
    BY <1>1 DEF Tidy, Distinct
  <2> QED  BY <2>1, <2>2 DEF PositionsDistinct
<1> QED  BY <1>1, <1>2, TablesReadable, KeptMatches DEF StoreOK

\* A call that runs to its end leaves its last write.
LEMMA FinishLands ==
  ASSUME NEW u, NEW t, Finish(Call(u, t)), NEW new, Lands(t, new)
  PROVE  rc' = new /\ Kept(rc', db')
<1>1. Call(u, t).trace = t
  BY DEF Call
<1>2. rc' = Last(t).rc /\ db' = Last(t).db
  BY <1>1 DEF Finish
<1> QED  BY <1>2 DEF Lands, Ends

\* An answer's writes leave the tables standing for the lists after it.
LEMMA VoteLands ==
  ASSUME NEW r, NEW d, Kept(r, d), NEW u \in People, NEW a \in Answers, NEW c
  PROVE  Lands(VoteTrace(d, r, u, a, c), Add(r, u, a))
<1> DEFINE X == {}
<1>1. KeptBut(r, d, X) /\ X \in SUBSET {u} /\ X = {}
  BY DEF Kept
<1> HIDE DEF X
<1> QED  BY <1>1, VoteKept

\* What each operation, run to its end, does to the lists.
LEMMA AnswerMoves ==
  ASSUME Kept(rc, db), NEW u \in People, NEW a \in Answers, NEW c, Finish(Call(u, VoteTrace(db, rc, u, a, c)))
  PROVE  rc' = Add(rc, u, a) /\ Kept(rc', db')
<1>1. Lands(VoteTrace(db, rc, u, a, c), Add(rc, u, a))
  BY VoteLands
<1> QED  BY <1>1, FinishLands

LEMMA VotesMoves ==
  ASSUME Kept(rc, db), NEW m \in Members, NEW a \in Answers, Votes(m, a)
  PROVE  rc' = Add(rc, m, a) /\ Kept(rc', db')
<1>1. PICK c \in BOOLEAN : Finish(Call(m, VoteTrace(db, rc, m, a, c)))
  BY DEF Votes, MemberAnswers
<1> QED  BY <1>1, AnswerMoves DEF People

LEMMA GuestMoves ==
  ASSUME Kept(rc, db), NEW g \in Guests, GuestVotes(g)
  PROVE  /\ Kept(rc', db')
         /\ \/ /\ g \notin In(rc) \cup Waiting(rc) /\ bumped' = << >>
               /\ \E o \in {Admin, Web} : rc' = AddIn(SetOwner(rc, g, o), g)
            \/ \E a \in StaysAway : rc' = Add(rc, g, a) /\ bumped' = CountAnswer(rc, g, a)
<1>0. g \in People
  BY DEF People
<1>1. CASE g \in NewGuests /\ bumped' = << >> /\ \E o \in {Admin, Web} : Finish(GuestComes(g, o))
  <2>1. PICK o \in {Admin, Web} : Finish(Call(g, VoteTrace(db, SetOwner(rc, g, o), g, "in", FALSE)))
    BY <1>1 DEF GuestComes
  <2>2. o \in Owners /\ g \notin In(rc) \cup Waiting(rc)
    BY <1>1 DEF Owners, NewGuests
  <2>3. Lands(VoteTrace(db, SetOwner(rc, g, o), g, "in", FALSE), AddIn(SetOwner(rc, g, o), g))
    BY <2>2, GuestLands
  <2>4. rc' = AddIn(SetOwner(rc, g, o), g) /\ Kept(rc', db')
    BY <2>1, <2>3, FinishLands
  <2> QED  BY <1>1, <2>2, <2>4
<1>2. ASSUME NEW a \in StaysAway, NEW c \in BOOLEAN, Finish(GuestAnswers(g, a, c))
      PROVE  rc' = Add(rc, g, a) /\ Kept(rc', db')
  <2>1. Finish(Call(g, VoteTrace(db, rc, g, a, c))) /\ a \in Answers
    BY <1>2 DEF GuestAnswers, StaysAway
  <2> QED  BY <1>0, <2>1, AnswerMoves
<1>3. \/ g \in NewGuests /\ bumped' = << >> /\ \E o \in {Admin, Web} : Finish(GuestComes(g, o))
      \/ \E a \in StaysAway :
           (\E c \in BOOLEAN : Finish(GuestAnswers(g, a, c))) /\ bumped' = CountAnswer(rc, g, a)
  BY DEF GuestVotes
<1> QED  BY <1>1, <1>2, <1>3

\* Whom a name deletes: somebody with a row, of that name themselves or a
\* member it means, no guest of that name having one.
Stands(d, n, u) ==
  /\ n \in Guests => ~HasRow(d, n)
  /\ u \in Username[n] \/ WithRow(d, FirstName[n]) = {u}

LEMMA NamedFacts ==
  ASSUME NEW d, NEW n \in Names, NEW u \in Named(d, n)
  PROVE  u \in People /\ HasRow(d, u) /\ (u = n \/ Stands(d, n, u))
<1> DEFINE guests == WithRow(d, {n} \cap Guests)
           users  == WithRow(d, Username[n])
           firsts == WithRow(d, FirstName[n])
<1>1. Username[n] \subseteq Members /\ FirstName[n] \subseteq Members
  BY NameAssumption
<1>2. CASE guests # {}
  <2>1. u \in guests
    BY <1>2 DEF Named
  <2> QED  BY <2>1 DEF WithRow, People
<1>3. CASE guests = {}
  <2>1. u \in users \/ (u \in firsts /\ firsts = {u})
    BY <1>3 DEF Named
  <2>2. n \in Guests => ~HasRow(d, n)
    BY <1>3 DEF WithRow
  <2>3. u \in Members /\ HasRow(d, u)
    BY <1>1, <2>1 DEF WithRow
  <2>4. u \in Username[n] \/ WithRow(d, FirstName[n]) = {u}
    BY <2>1 DEF WithRow
  <2> QED  BY <2>2, <2>3, <2>4 DEF Stands, People
<1> QED  BY <1>2, <1>3

\* The same of the administrator's operations, the web page and a restart.
LEMMA CapStep ==
  ASSUME Kept(rc, db), NEW n \in Limits, MovesCap(n)
  PROVE  rc' = SetWaitLimit(rc, n) /\ Kept(rc', db')
<1>1. Finish(Call(NoRow, LimitTrace(db, rc, n)))
  BY DEF MovesCap, CapMoves
<1> QED  BY <1>1, LimitKept, FinishLands

LEMMA DeletesMoves ==
  ASSUME Kept(rc, db), NEW u \in People, Deletes(u)
  PROVE  /\ Kept(rc', db') /\ u \in Listed(rc)
         /\ \E q \in Reloads(Without(rc, u)) : rc' = FillWaitlistSlots(q)
<1>0. Written(db) = Listed(rc)
  BY KeptFacts DEF Kept
<1>1. u \in Listed(rc) /\ \E who : Finish(Call(who, DeleteTrace(db, rc, u)))
  <2>1. CASE u \in ById /\ Finish(IdDeleted(u))
    BY <2>1 DEF ById, WithRow, IdDeleted
  <2>2. CASE \E n \in Names : u \in Named(db, n) /\ Finish(NameDeleted(n, u))
    BY <1>0, <2>2, NamedFacts DEF NameDeleted, Written
  <2> QED  BY <2>1, <2>2 DEF Deletes
<1>2. PICK q \in Reloads(Without(rc, u)) : Lands(DeleteTrace(db, rc, u), FillWaitlistSlots(q))
  BY DeleteLands
<1>3. rc' = FillWaitlistSlots(q) /\ Kept(rc', db')
  <2>1. PICK who : Finish(Call(who, DeleteTrace(db, rc, u)))
    BY <1>1
  <2> QED  BY <1>2, <2>1, FinishLands
<1> QED  BY <1>1, <1>3

LEMMA UserMoves ==
  ASSUME Kept(rc, db), NEW u \in People, MovesUser(u)
  PROVE  Kept(rc', db') /\ \E a \in Answers : SetUserStatus(u, a)
<1>1. PICK a \in MayBecome(u) : Finish(Call(u, StatusTrace(db, rc, u, a)))
  BY DEF MovesUser, PersonMoved
<1>2. u \in Listed(rc) /\ a \in Answers /\ StatusOf(rc, u) # a /\ (a = "in" => ~Full(rc))
  BY DEF MayBecome, MovesUser
<1>3. PICK q \in Reloads(Without(rc, u)) :
        Lands(StatusTrace(db, rc, u, a), Add(SetOwner(q, u, OwnerOf(rc, u)), u, a))
  BY <1>2, StatusLands
<1>4. rc' = Add(SetOwner(q, u, OwnerOf(rc, u)), u, a) /\ Kept(rc', db')
  BY <1>1, <1>3, FinishLands
<1> QED  BY <1>2, <1>4 DEF SetUserStatus

LEMMA WebMoves ==
  ASSUME Kept(rc, db), NEW m \in Members, NEW g \in Guests, NEW a \in Answers, WebVotes(m, g, a)
  PROVE  /\ Kept(rc', db') /\ g \in Listed(rc) /\ rc.proxy_owners[g] = Web
         /\ \E q \in Reloads(Without(rc, g)) : rc' = FillWaitlistSlots(Add(q, m, a))
<1>1. PICK c \in BOOLEAN : Finish(Call(m, WebTrace(db, rc, m, g, a, c)))
  BY DEF WebVotes, WebAnswers
<1>2. g \in Listed(rc) /\ rc.proxy_owners[g] = Web
  BY DEF WebVotes, WebGuests, WithRow
<1>3. PICK q \in Reloads(Without(rc, g)) :
        Lands(WebTrace(db, rc, m, g, a, c), FillWaitlistSlots(Add(q, m, a)))
  BY WebLands
<1>4. rc' = FillWaitlistSlots(Add(q, m, a)) /\ Kept(rc', db')
  BY <1>1, <1>3, FinishLands
<1> QED  BY <1>2, <1>4

LEMMA ReopenMoves ==
  ASSUME Kept(rc, db), Reopen
  PROVE  rc' \in Reloads(rc) /\ Kept(rc', db')
<1>1. rc' = LoadFromDb(db) /\ db' = db
  BY DEF Reopen
<1>2. rc' \in Reloads(rc)
  BY <1>1, KeptReloads
<1>3. Kept(rc', db')
  BY <1>1, LoadKept DEF Kept, KeptBut
<1> QED  BY <1>2, <1>3

\* Every operation, run to its end, is one of the list operations.
LEMMA StoreStep == StoreInv /\ [HistoryNext]_hvars => [Next]_rc /\ Kept(rc, db)'
<1> SUFFICES ASSUME StoreInv, [HistoryNext]_hvars PROVE [Next]_rc /\ Kept(rc', db')
  OBVIOUS
<1>0. Kept(rc, db)
  BY DEF StoreInv
<1>1. CASE \E m \in Members, a \in Answers : Votes(m, a)
  <2>1. PICK m \in Members, a \in Answers : Votes(m, a)
    BY <1>1
  <2>2. rc' = Add(rc, m, a) /\ Kept(rc', db')
    BY <1>0, <2>1, VotesMoves
  <2>3. VoteIn(m) \/ VoteOut(m) \/ VoteMaybe(m)
    BY <2>2 DEF Add, Answers, VoteIn, VoteOut, VoteMaybe
  <2> QED  BY <2>2, <2>3 DEF Next
<1>2. CASE \E g \in Guests : GuestVotes(g)
  <2>1. PICK g \in Guests : GuestVotes(g)
    BY <1>2
  <2>2. /\ Kept(rc', db')
        /\ \/ /\ g \notin In(rc) \cup Waiting(rc)
              /\ \E o \in {Admin, Web} : rc' = AddIn(SetOwner(rc, g, o), g)
           \/ \E a \in StaysAway : rc' = Add(rc, g, a)
    BY <1>0, <2>1, GuestMoves
  <2>3. (\E o \in {Admin, Web} : GuestIn(g, o)) \/ GuestOut(g) \/ GuestMaybe(g)
    BY <2>2 DEF GuestIn, GuestOut, GuestMaybe, Add, StaysAway, Answers
  <2> QED  BY <2>2, <2>3 DEF Next
<1>3. CASE \E n \in Limits : MovesCap(n)
  BY <1>0, <1>3, CapStep DEF Next, SetLimit
<1>4. CASE \E u \in People : Deletes(u)
  BY <1>0, <1>4, DeletesMoves DEF Next, DeleteUser
<1>5. CASE \E u \in People : MovesUser(u)
  BY <1>0, <1>5, UserMoves DEF Next
<1>6. CASE \E m \in Members, g \in Guests, a \in Answers : WebVotes(m, g, a)
  BY <1>0, <1>6, WebMoves DEF Next, WebVote
<1>7. CASE Reopen
  BY <1>0, <1>7, ReopenMoves DEF Next, Restart
<1>8. CASE UNCHANGED hvars
  BY <1>0, <1>8 DEF hvars
<1> QED  BY <1>1, <1>2, <1>3, <1>4, <1>5, <1>6, <1>7, <1>8 DEF HistoryNext

\* The inductive invariant holds of every behaviour over the tables.
LEMMA StoreInvariance == HistorySpec => []StoreInv
<1>1. HistoryInit => StoreInv
  BY StoreInitInv DEF HistoryInit
<1>2. StoreInv /\ [HistoryNext]_hvars => StoreInv'
  <2> SUFFICES ASSUME StoreInv, [HistoryNext]_hvars PROVE StoreInv'
    OBVIOUS
  <2>1. [Next]_rc /\ Kept(rc, db)'
    BY StoreStep
  <2>2. Inv'
    BY <2>1, NextInv DEF StoreInv
  <2> QED  BY <2>1, <2>2 DEF StoreInv
<1> QED  BY <1>1, <1>2, PTL DEF HistorySpec

\* For any members, guests and caps, whatever operations follow each other: the
\* rows, their positions and the saved cap are the lists in memory, one
\* position per person, so a restart brings back the rollcall there was
\* (models.save, db.add_or_update_user, rollcall_manager._load_from_db).
THEOREM StoreCorrect == HistorySpec => []StoreOK
BY StoreInvariance, StoreInvOK, PTL

\* The operations over memory and tables, restarts included, implement the
\* operations over the lists alone.
THEOREM StoreImplementsLists == HistorySpec => ImplementsLists
<1>1. HistoryInit => Init
  BY StoreInitInv DEF HistoryInit
<1>2. StoreInv /\ [HistoryNext]_hvars => [Next]_rc
  BY StoreStep
<1>3. HistorySpec => Spec
  BY <1>1, <1>2, StoreInvariance, PTL DEF HistorySpec, Spec
<1> QED  BY <1>3 DEF ImplementsLists

\* So what the lists promise, the bot over its tables keeps: nobody in two
\* places or over the cap, no slot idle, no vote or restart takes a slot away,
\* and one line is never reordered.
THEOREM StoreKeepsPromises == HistorySpec => []ListsOK /\ NoUnaskedDemotion /\ FairLine
BY StoreImplementsLists, ListsCorrect, NoDemotion, ImplementsSheet, PTL DEF ImplementsLists

(***************************************************************************)
(* The attendance counters follow the lists.                               *)
(***************************************************************************)
\* What an operation that takes the rollcall from r to new may count: members,
\* each once, who come IN by it, and every one it moved up from the waitlist.
Counts(r, new, b) ==
  /\ b \in Seq(People) /\ IsInjective(b)
  /\ ToSet(b) \subseteq In(new) \ In(r) /\ ToSet(b) \subseteq Members
  /\ Waiting(r) \cap In(new) \cap Members \subseteq ToSet(b)

\* Whoever is taken out of a sound rollcall's waitlist was not IN.
LEMMA WaitersAreNotIn ==
  ASSUME NEW r, Sound(r)
  PROVE  /\ r.waitList \in Seq(People) /\ IsInjective(r.waitList)
         /\ In(r) \cap Waiting(r) = {} /\ In(r) \cup Waiting(r) \subseteq People
<1>1. /\ r.inList \in Seq(People) /\ r.waitList \in Seq(People)
      /\ Apart(r.inList, r.outList, r.maybeList, r.waitList)
  BY SoundFields
<1>2. ToSet(r.inList) \subseteq People
  BY <1>1, ToSetElements
<1>3. ToSet(r.waitList) \subseteq People
  BY <1>1, ToSetElements
<1> QED  BY <1>1, <1>2, <1>3 DEF Apart, In, Waiting

\* The members of a list of people, in its order.
LEMMA MembersOfFacts ==
  ASSUME NEW s \in Seq(People), IsInjective(s)
  PROVE  /\ MembersOf(s) \in Seq(People) /\ IsInjective(MembersOf(s))
         /\ ToSet(MembersOf(s)) = ToSet(s) \cap Members
BY AmongFacts DEF MembersOf

\* record_promotion_stats, given everybody a waitlist lost to IN.
LEMMA FilledCounts ==
  ASSUME NEW r, Sound(r), NEW new
  PROVE  Counts(r, new, CountFilled(r, new))
<1> DEFINE up == Among(r.waitList, In(new))
<1>1. /\ r.waitList \in Seq(People) /\ IsInjective(r.waitList) /\ In(r) \cap Waiting(r) = {}
  BY WaitersAreNotIn
<1>2. up \in Seq(People) /\ IsInjective(up) /\ ToSet(up) = Waiting(r) \cap In(new)
  BY <1>1, AmongFacts DEF Waiting
<1> HIDE DEF up
<1>3. /\ MembersOf(up) \in Seq(People) /\ IsInjective(MembersOf(up))
      /\ ToSet(MembersOf(up)) = ToSet(up) \cap Members
  BY <1>2, MembersOfFacts
<1>4. CountFilled(r, new) = MembersOf(up)
  BY DEF CountFilled, up
<1> QED  BY <1>1, <1>2, <1>3, <1>4 DEF Counts

\* The head a vote promotes is somebody else than the voter, who is not IN
\* when the vote is done.
LEMMA PromotedCounts ==
  ASSUME NEW r, Sound(r), NEW new, NEW u, u \notin In(new)
  PROVE  Counts(r, new, CountPromoted(r, new, u))
<1>1. In(new) \ {u} = In(new)
  OBVIOUS
<1>2. CountPromoted(r, new, u) = CountFilled(r, new)
  BY <1>1 DEF CountPromoted, CountFilled
<1> QED  BY <1>2, FilledCounts

\* Nothing is counted, and nobody left the waitlist for IN.
LEMMA NothingCounts ==
  ASSUME NEW r, NEW new, Waiting(r) \cap In(new) \cap Members = {}
  PROVE  Counts(r, new, << >>)
BY EmptyFacts DEF Counts

\* addIn seats nobody but the voter.
LEMMA AddInSeats ==
  ASSUME NEW r, Sound(r), NEW u \in People
  PROVE  In(AddIn(r, u)) \subseteq In(r) \cup {u} /\ Waiting(r) \cap In(AddIn(r, u)) = {}
<1> DEFINE a == AddIn(r, u)
<1>0. Sound(a)
  BY AddInSound
<1>1. In(r) \cap Waiting(r) = {} /\ In(a) \cap Waiting(a) = {}
  BY <1>0, WaitersAreNotIn
<1>2. /\ r \in RollCall /\ r.inList \in Seq(People) /\ r.waitList \in Seq(People)
      /\ Apart(r.inList, r.outList, r.maybeList, r.waitList)
      /\ (~Capped(r) => r.waitList = << >>)
  BY SoundFields
<1>3. ToSet(LineOf(r)) = In(r) \cup Waiting(r)
  BY LineFacts
<1>4. CASE u \in In(r) \/ (Capped(r) /\ u \in Waiting(r))
  <2>1. a = r
    BY <1>4 DEF AddIn
  <2> QED  BY <1>1, <2>1
<1>5. CASE ~(u \in In(r) \/ (Capped(r) /\ u \in Waiting(r)))
  <2>1. u \notin In(r) \cup Waiting(r)
    BY <1>2, <1>5, EmptyFacts DEF Waiting
  <2>2. CASE Full(r)
    <3>1. LineOf(a) = Append(LineOf(r), u)
      BY <1>3, <2>1, <2>2, AddInLine
    <3>2. a.inList = r.inList
      <4> DEFINE left == [r EXCEPT !.outList   = RemoveFirst(@, u),
                                   !.maybeList = RemoveFirst(@, u),
                                   !.waitList  = RemoveFirst(@, u)]
      <4>1. a = IF Full(left) THEN [left EXCEPT !.waitList = Append(@, u)]
                              ELSE [left EXCEPT !.inList   = Append(@, u)]
        BY <1>5 DEF AddIn
      <4>2. left \in [inList : {r.inList}, outList : {left.outList}, maybeList : {left.maybeList},
                      waitList : {left.waitList}, inListLimit : {r.inListLimit},
                      proxy_owners : {r.proxy_owners}]
        BY <1>2 DEF RollCall
      <4>3. left.inList = r.inList /\ left.inListLimit = r.inListLimit
        BY <4>2
      <4>4. Full(left)
        BY <2>2, <4>3 DEF Full, Capped
      <4> HIDE DEF left
      <4>5. a = [left EXCEPT !.waitList = Append(@, u)]
        BY <4>1, <4>4
      <4> QED  BY <4>2, <4>3, <4>5
    <3> QED  BY <1>1, <3>2 DEF In
  <2>3. CASE ~Full(r)
    <3>1. a.inList = Append(r.inList, u)
      BY <1>3, <2>1, <2>3, AddInLine
    <3>2. In(a) = In(r) \cup {u}
      BY <1>2, <2>1, <3>1, AppendFacts DEF Apart, In
    <3> QED  BY <1>1, <2>1, <3>2
  <2> QED  BY <2>2, <2>3
<1> QED  BY <1>4, <1>5

\* A voter who answers OUT or MAYBE leaves the line; nobody else does.
LEMMA AddLeavesLine ==
  ASSUME NEW r, Sound(r), NEW u \in People, NEW answer \in StaysAway
  PROVE  u \notin In(Add(r, u, answer))
<1> DEFINE a == Add(r, u, answer)
<1>1. Sound(a)
  BY AddSound DEF StaysAway
<1>2. LineOf(a) = RemoveFirst(LineOf(r), u)
  BY AddOutLine, AddMaybeLine DEF Add, StaysAway, Answers
<1>3. LineOf(r) \in Seq(People) /\ IsInjective(LineOf(r))
  BY LineFacts
<1>4. ToSet(LineOf(a)) = In(a) \cup Waiting(a)
  BY <1>1, LineFacts
<1>5. ToSet(RemoveFirst(LineOf(r), u)) = ToSet(LineOf(r)) \ {u}
  BY <1>3, RemoveFirstFacts
<1> QED  BY <1>2, <1>4, <1>5

\* services/voting counts a vote exactly when it is one.
LEMMA AnswerCounts ==
  ASSUME NEW r, Sound(r), NEW u \in People, NEW answer \in Answers
  PROVE  Counts(r, Add(r, u, answer), CountAnswer(r, u, answer))
<1>1. CASE answer = "in"
  <2> DEFINE a == AddIn(r, u)
             b == CountVote(r, u)
  <2>0. Add(r, u, answer) = a /\ CountAnswer(r, u, answer) = b
    BY <1>1 DEF Add, CountAnswer
  <2>1. In(a) \subseteq In(r) \cup {u} /\ Waiting(r) \cap In(a) = {}
    BY AddInSeats
  <2>2. CASE u \notin In(r) /\ u \in In(a)
    <3>1. b = MembersOf(<< u >>)
      BY <2>2 DEF CountVote
    <3>2. << u >> \in Seq(People) /\ ToSet(<< u >>) = {u} /\ IsInjective(<< u >>)
      BY SingletonFacts
    <3>3. /\ b \in Seq(People) /\ IsInjective(b) /\ ToSet(b) = {u} \cap Members
      BY <3>1, <3>2, MembersOfFacts
    <3>4. Counts(r, a, b)
      BY <2>1, <2>2, <3>3 DEF Counts
    <3> QED  BY <2>0, <3>4
  <2>3. CASE ~(u \notin In(r) /\ u \in In(a))
    <3>1. b = << >>
      BY <2>3 DEF CountVote
    <3>2. Counts(r, a, b)
      BY <2>1, <3>1, NothingCounts
    <3> QED  BY <2>0, <3>2
  <2> QED  BY <2>2, <2>3
<1>2. CASE answer # "in"
  <2>1. u \notin In(Add(r, u, answer))
    BY <1>2, AddLeavesLine DEF StaysAway
  <2>2. CountAnswer(r, u, answer) = CountPromoted(r, Add(r, u, answer), u)
    BY <1>2 DEF CountAnswer
  <2> QED  BY <2>1, <2>2, PromotedCounts
<1> QED  BY <1>1, <1>2

\* The same line under the same cap.
SameLineAs(r, q) == LineOf(q) = LineOf(r) /\ q.inListLimit = r.inListLimit

\* Filling the slots seats the same people whatever lists the line was cut in.
LEMMA FillSeats ==
  ASSUME NEW r, Sound(r), NEW q, Sound(q), SameLineAs(r, q)
  PROVE  In(FillWaitlistSlots(q)) = In(FillWaitlistSlots(r))
<1> DEFINE f == FillWaitlistSlots(r)
           g == FillWaitlistSlots(q)
<1>1. Sound(f) /\ NoIdleSlot(f) /\ Sound(g) /\ NoIdleSlot(g)
  BY FillSound
<1>2. LineOf(f) = LineOf(r) /\ f.inListLimit = r.inListLimit
  BY FillLine
<1>3. LineOf(g) = LineOf(q) /\ g.inListLimit = q.inListLimit
  BY FillLine
<1> HIDE DEF f, g
<1>4. LineOf(g) = LineOf(f) /\ g.inListLimit = f.inListLimit
  BY <1>2, <1>3 DEF SameLineAs
<1>5. f.inList = SubSeq(LineOf(f), 1, Sheet!Places(LineOf(f), f.inListLimit))
  BY <1>1, SeatedByLine
<1>6. g.inList = SubSeq(LineOf(g), 1, Sheet!Places(LineOf(g), g.inListLimit))
  BY <1>1, SeatedByLine
<1>7. g.inList = f.inList
  BY <1>4, <1>5, <1>6
<1> QED  BY <1>7 DEF In, f, g

\* Reading the rows back moves nobody on the line.
LEMMA ReloadSameLine ==
  ASSUME NEW r, Sound(r), NEW q \in Reloads(r)
  PROVE  /\ Sound(q) /\ SameLineAs(r, q) /\ In(q) = In(r) /\ Waiting(q) = Waiting(r)
         /\ q.inList = r.inList /\ q.waitList = r.waitList
BY ReloadSound, ReloadLine DEF SameLineAs, In, Waiting

\* An answer does the same to the line before and after a reload.
LEMMA AddSameLine ==
  ASSUME NEW r, Sound(r), NEW q \in Reloads(r), NEW u \in People, NEW answer \in Answers
  PROVE  SameLineAs(Add(r, u, answer), Add(q, u, answer))
<1>1. /\ Sound(q) /\ SameLineAs(r, q) /\ q.inList = r.inList /\ q.waitList = r.waitList
  BY ReloadSameLine
<1>2. CASE answer = "in"
  <2> DEFINE a == AddIn(r, u)
             b == AddIn(q, u)
  <2>1. /\ a.inListLimit = r.inListLimit
        /\ u \in ToSet(LineOf(r)) => LineOf(a) = LineOf(r)
        /\ u \notin ToSet(LineOf(r)) =>
             /\ Full(r) \/ r.waitList = << >> => LineOf(a) = Append(LineOf(r), u)
             /\ ~Full(r) => a.waitList = r.waitList /\ a.inList = Append(r.inList, u)
    BY AddInLine
  <2>2. /\ b.inListLimit = q.inListLimit
        /\ u \in ToSet(LineOf(q)) => LineOf(b) = LineOf(q)
        /\ u \notin ToSet(LineOf(q)) =>
             /\ Full(q) \/ q.waitList = << >> => LineOf(b) = Append(LineOf(q), u)
             /\ ~Full(q) => b.waitList = q.waitList /\ b.inList = Append(q.inList, u)
    BY <1>1, AddInLine
  <2>3. Full(q) <=> Full(r)
    BY <1>1 DEF Full, Capped, SameLineAs
  <2>4. LineOf(a) = a.inList \o a.waitList /\ LineOf(b) = b.inList \o b.waitList
    BY DEF LineOf
  <2>5. Add(r, u, answer) = a /\ Add(q, u, answer) = b
    BY <1>2 DEF Add
  <2> HIDE DEF a, b
  <2>6. CASE u \notin ToSet(LineOf(r)) /\ ~Full(r)
    <3>1. b.inList = a.inList /\ b.waitList = a.waitList
      BY <1>1, <2>1, <2>2, <2>3, <2>6 DEF SameLineAs
    <3> QED  BY <1>1, <2>1, <2>2, <2>4, <2>5, <3>1 DEF SameLineAs
  <2>7. CASE ~(u \notin ToSet(LineOf(r)) /\ ~Full(r))
    <3>1. LineOf(b) = LineOf(a)
      BY <1>1, <2>1, <2>2, <2>3, <2>7 DEF SameLineAs
    <3> QED  BY <1>1, <2>1, <2>2, <2>5, <3>1 DEF SameLineAs
  <2> QED  BY <2>6, <2>7
<1>3. CASE answer = "out"
  <2>1. LineOf(AddOut(r, u)) = RemoveFirst(LineOf(r), u) /\ AddOut(r, u).inListLimit = r.inListLimit
    BY AddOutLine
  <2>2. LineOf(AddOut(q, u)) = RemoveFirst(LineOf(q), u) /\ AddOut(q, u).inListLimit = q.inListLimit
    BY <1>1, AddOutLine
  <2> QED  BY <1>1, <1>3, <2>1, <2>2 DEF Add, SameLineAs
<1>4. CASE answer = "maybe"
  <2>1. LineOf(AddMaybe(r, u)) = RemoveFirst(LineOf(r), u) /\ AddMaybe(r, u).inListLimit = r.inListLimit
    BY AddMaybeLine
  <2>2. LineOf(AddMaybe(q, u)) = RemoveFirst(LineOf(q), u) /\ AddMaybe(q, u).inListLimit = q.inListLimit
    BY <1>1, AddMaybeLine
  <2> QED  BY <1>1, <1>4, <2>1, <2>2 DEF Add, SameLineAs
<1> QED  BY <1>2, <1>3, <1>4 DEF Answers

\* Filling the slots takes nobody's seat, and seats nobody from outside.
LEMMA FillKeepsSeats ==
  ASSUME NEW r, Sound(r)
  PROVE  LET f == FillWaitlistSlots(r)
         IN  In(r) \subseteq In(f) /\ In(f) \subseteq In(r) \cup Waiting(r)
<1> DEFINE f == FillWaitlistSlots(r)
<1>1. Sound(f) /\ LineOf(f) = LineOf(r)
  BY FillSound, FillLine
<1>2. Waiting(f) \subseteq Waiting(r)
  BY FillQueues
<1>3. ToSet(LineOf(f)) = In(f) \cup Waiting(f)
  BY <1>1, LineFacts
<1>4. ToSet(LineOf(r)) = In(r) \cup Waiting(r) /\ In(r) \cap Waiting(r) = {}
  BY LineFacts, WaitersAreNotIn
<1> QED  BY <1>1, <1>2, <1>3, <1>4

\* A deletion: the person leaves, the slots are filled.
LEMMA DeletesCounts ==
  ASSUME NEW r, Sound(r), NEW u \in People, NEW q \in Reloads(Without(r, u))
  PROVE  Counts(r, FillWaitlistSlots(q), CountFill(Without(r, u)))
<1> DEFINE w == Without(r, u)
           f == FillWaitlistSlots(w)
           new == FillWaitlistSlots(q)
           b == CountFill(w)
<1>1. Sound(w) /\ u \notin Listed(w)
  BY WithoutSound
<1>2. In(q) = In(r) \ {u} /\ Waiting(q) \subseteq Waiting(r)
  BY WithoutQueues
<1>3. w.waitList = RemoveFirst(r.waitList, u)
  BY WithoutLine
<1>4. r.waitList \in Seq(People) /\ IsInjective(r.waitList) /\ In(r) \cap Waiting(r) = {}
  BY WaitersAreNotIn
<1>5. Waiting(w) = Waiting(r) \ {u}
  BY <1>3, <1>4, RemoveFirstFacts DEF Waiting
<1> HIDE DEF w
<1>6. Sound(q) /\ SameLineAs(w, q) /\ In(q) = In(w)
  BY <1>1, ReloadSameLine DEF w
<1>7. In(new) = In(f)
  BY <1>1, <1>6, FillSeats
<1>8. In(f) \subseteq In(w) \cup Waiting(w)
  BY <1>1, FillKeepsSeats
<1>9. u \notin In(f)
  BY <1>1, <1>8 DEF Listed
<1>10. Counts(w, f, b)
  BY <1>1, FilledCounts DEF CountFill
<1> HIDE DEF f, new, b
<1>11. Counts(r, new, b)
  BY <1>2, <1>4, <1>5, <1>6, <1>7, <1>9, <1>10 DEF Counts
<1> QED  BY <1>11 DEF f, new, b, w

\* A web vote counts its own answer, and then those the freed slots seat.
LEMMA WebCounts ==
  ASSUME NEW r, Sound(r), NEW m \in Members, NEW g \in Guests, NEW answer \in Answers,
         NEW q \in Reloads(Without(r, g)),
         NEW b, b = CountAnswer(Without(r, g), m, answer) \o CountFill(Add(Without(r, g), m, answer))
  PROVE  Counts(r, FillWaitlistSlots(Add(q, m, answer)), b)
<1> DEFINE w == Without(r, g)
           x == Add(w, m, answer)
           y == FillWaitlistSlots(x)
           new == FillWaitlistSlots(Add(q, m, answer))
           b1 == CountAnswer(w, m, answer)
           b2 == CountFill(x)
<1>0. m \in People /\ g \in People /\ g \notin Members
  BY PeopleAssumption DEF People
<1>1. Sound(w) /\ g \notin Listed(w)
  BY <1>0, WithoutSound
<1>2. In(q) = In(r) \ {g}
  BY <1>0, WithoutQueues
<1>3. w.waitList = RemoveFirst(r.waitList, g)
  BY <1>0, WithoutLine
<1>4. r.waitList \in Seq(People) /\ IsInjective(r.waitList) /\ In(r) \cap Waiting(r) = {}
  BY WaitersAreNotIn
<1>5. Waiting(w) = Waiting(r) \ {g}
  BY <1>3, <1>4, RemoveFirstFacts DEF Waiting
<1> HIDE DEF w
<1>6. Sound(q) /\ In(q) = In(w)
  BY <1>1, ReloadSameLine DEF w
<1>7. Sound(x) /\ Sound(Add(q, m, answer))
  BY <1>0, <1>1, <1>6, AddSound
<1>8. SameLineAs(x, Add(q, m, answer))
  BY <1>0, <1>1, AddSameLine DEF w
<1>9. In(new) = In(y)
  BY <1>7, <1>8, FillSeats
<1>10. Counts(w, x, b1)
  BY <1>0, <1>1, AnswerCounts
<1> HIDE DEF x
<1>11. Counts(x, y, b2)
  BY <1>7, FilledCounts DEF CountFill
<1>12. In(x) \subseteq In(y) /\ In(y) \subseteq In(x) \cup Waiting(x)
  BY <1>7, FillKeepsSeats
<1>13. b = b1 \o b2
  BY DEF w, x
<1> HIDE DEF y, b1, b2, new
<1>14. b1 \in Seq(People) /\ b2 \in Seq(People) /\ IsInjective(b1) /\ IsInjective(b2)
  BY <1>10, <1>11 DEF Counts
<1>15. ToSet(b1) \cap ToSet(b2) = {}
  BY <1>10, <1>11 DEF Counts
<1>16. b \in Seq(People) /\ IsInjective(b) /\ ToSet(b) = ToSet(b1) \cup ToSet(b2)
  BY <1>13, <1>14, <1>15, ConcatFacts
<1>17. ToSet(b) \subseteq In(new) \ In(r) /\ ToSet(b) \subseteq Members
  <2>1. \A v \in ToSet(b1) : v \in In(y) /\ v \notin In(w) /\ v \in Members
    BY <1>10, <1>12 DEF Counts
  <2>2. \A v \in ToSet(b2) : v \in In(y) /\ v \in Waiting(x) /\ v \in Members
    BY <1>11, <1>12 DEF Counts
  <2>3. \A v \in Waiting(x) : v \in Waiting(w) \/ v \notin In(w)
    BY <1>0, <1>1, AddQueues DEF x
  <2>4. In(w) \cap Waiting(w) = {}
    BY <1>1, WaitersAreNotIn
  <2>5. \A v \in ToSet(b) : v \in In(y) /\ v \notin In(w) /\ v \in Members
    BY <1>16, <2>1, <2>2, <2>3, <2>4
  <2>6. \A v \in ToSet(b) : v \in In(new) /\ v \notin In(r)
    BY <1>0, <1>2, <1>6, <1>9, <2>5
  <2> QED  BY <2>5, <2>6
<1>18. Waiting(r) \cap In(new) \cap Members \subseteq ToSet(b)
  <2> SUFFICES ASSUME NEW v \in Members, v \in Waiting(r), v \in In(y) PROVE v \in ToSet(b)
    BY <1>9
  <2>1. v \in Waiting(w)
    BY <1>0, <1>5
  <2>2. CASE v \in In(x)
    BY <1>10, <1>16, <2>1, <2>2 DEF Counts
  <2>3. CASE v \notin In(x)
    BY <1>11, <1>12, <1>16, <2>3 DEF Counts
  <2> QED  BY <2>2, <2>3
<1>19. Counts(r, new, b)
  BY <1>16, <1>17, <1>18 DEF Counts
<1> QED  BY <1>19 DEF new

\* Every operation counts what it may; an admin's move counts nobody.
LEMMA StepCounts ==
  ASSUME StoreInv, HistoryNext
  PROVE  \/ Counts(rc, rc', bumped')
         \/ bumped' = << >> /\ \E u \in People : MovesUser(u)
<1>0. Kept(rc, db) /\ Sound(rc)
  BY DEF StoreInv, Inv
<1>1. CASE \E m \in Members, a \in Answers : Votes(m, a)
  <2>1. PICK m \in Members, a \in Answers : Votes(m, a)
    BY <1>1
  <2>2. rc' = Add(rc, m, a)
    BY <1>0, <2>1, VotesMoves
  <2>3. bumped' = CountAnswer(rc, m, a)
    BY <2>1 DEF Votes
  <2>4. Counts(rc, Add(rc, m, a), CountAnswer(rc, m, a))
    BY <1>0, AnswerCounts DEF People
  <2> QED  BY <2>2, <2>3, <2>4
<1>2. CASE \E g \in Guests : GuestVotes(g)
  <2>1. PICK g \in Guests : GuestVotes(g)
    BY <1>2
  <2>2. \/ /\ g \notin In(rc) \cup Waiting(rc) /\ bumped' = << >>
           /\ \E o \in {Admin, Web} : rc' = AddIn(SetOwner(rc, g, o), g)
        \/ \E a \in StaysAway : rc' = Add(rc, g, a) /\ bumped' = CountAnswer(rc, g, a)
    BY <1>0, <2>1, GuestMoves
  <2>3. CASE bumped' = << >> /\ \E o \in {Admin, Web} : rc' = AddIn(SetOwner(rc, g, o), g)
    <3>1. PICK o \in {Admin, Web} : rc' = AddIn(SetOwner(rc, g, o), g)
      BY <2>3
    <3>2. Sound(SetOwner(rc, g, o)) /\ Waiting(SetOwner(rc, g, o)) = Waiting(rc)
      BY <1>0, OwnerQueues DEF Owners
    <3>3. Waiting(SetOwner(rc, g, o)) \cap In(AddIn(SetOwner(rc, g, o), g)) = {}
      BY <3>2, AddInSeats DEF People
    <3>4. Waiting(rc) \cap In(rc') \cap Members = {}
      BY <3>1, <3>2, <3>3
    <3>5. Counts(rc, rc', << >>)
      BY <3>4, NothingCounts
    <3> QED  BY <2>3, <3>5
  <2>4. CASE \E a \in StaysAway : rc' = Add(rc, g, a) /\ bumped' = CountAnswer(rc, g, a)
    <3>1. PICK a \in StaysAway : rc' = Add(rc, g, a) /\ bumped' = CountAnswer(rc, g, a)
      BY <2>4
    <3>2. Counts(rc, Add(rc, g, a), CountAnswer(rc, g, a))
      BY <1>0, AnswerCounts DEF People, StaysAway
    <3> QED  BY <3>1, <3>2
  <2> QED  BY <2>2, <2>3, <2>4
<1>3. CASE \E n \in Limits : MovesCap(n)
  <2>1. PICK n \in Limits : MovesCap(n)
    BY <1>3
  <2>2. rc' = SetWaitLimit(rc, n)
    BY <1>0, <2>1, CapStep
  <2>3. bumped' = CountFilled(rc, SetWaitLimit(rc, n))
    BY <2>1 DEF MovesCap
  <2>4. Counts(rc, SetWaitLimit(rc, n), CountFilled(rc, SetWaitLimit(rc, n)))
    BY <1>0, FilledCounts
  <2> QED  BY <2>2, <2>3, <2>4
<1>4. CASE \E u \in People : Deletes(u)
  <2>1. PICK u \in People : Deletes(u)
    BY <1>4
  <2>2. PICK q \in Reloads(Without(rc, u)) : rc' = FillWaitlistSlots(q)
    BY <1>0, <2>1, DeletesMoves
  <2>3. bumped' = CountFill(Without(rc, u))
    BY <2>1 DEF Deletes
  <2>4. Counts(rc, FillWaitlistSlots(q), CountFill(Without(rc, u)))
    BY <1>0, DeletesCounts
  <2> QED  BY <2>2, <2>3, <2>4
<1>5. CASE \E u \in People : MovesUser(u)
  BY <1>5 DEF MovesUser
<1>6. CASE \E m \in Members, g \in Guests, a \in Answers : WebVotes(m, g, a)
  <2>1. PICK m \in Members, g \in Guests, a \in Answers : WebVotes(m, g, a)
    BY <1>6
  <2>2. PICK q \in Reloads(Without(rc, g)) : rc' = FillWaitlistSlots(Add(q, m, a))
    BY <1>0, <2>1, WebMoves
  <2>3. bumped' = CountAnswer(Without(rc, g), m, a) \o CountFill(Add(Without(rc, g), m, a))
    BY <2>1 DEF WebVotes
  <2>4. Counts(rc, FillWaitlistSlots(Add(q, m, a)), bumped')
    BY <1>0, <2>3, WebCounts
  <2> QED  BY <2>2, <2>4
<1>7. CASE Reopen /\ bumped' = << >>
  <2>1. rc' \in Reloads(rc)
    BY <1>0, <1>7, ReopenMoves
  <2>2. In(rc') = In(rc)
    BY <1>0, <2>1, ReloadSameLine
  <2>3. In(rc) \cap Waiting(rc) = {}
    BY <1>0, WaitersAreNotIn
  <2>4. Waiting(rc) \cap In(rc') \cap Members = {}
    BY <2>2, <2>3
  <2> QED  BY <1>7, <2>4, NothingCounts
<1> QED  BY <1>1, <1>2, <1>3, <1>4, <1>5, <1>6, <1>7 DEF HistoryNext

\* The attendance counters follow the lists: what every operation bumps is
\* whom it brought IN, each once, and whom it moved up.
THEOREM CountersCorrect == HistorySpec => CountersFollowLists
<1> DEFINE A == /\ IsInjective(bumped')
                /\ ToSet(bumped') \subseteq In(rc') \ In(rc)
                /\ \/ Waiting(rc) \cap In(rc') \cap Members \subseteq ToSet(bumped')
                   \/ \E u \in People : MovesUser(u)
<1>1. StoreInv /\ [HistoryNext]_hvars => [A]_hvars
  <2> SUFFICES ASSUME StoreInv, HistoryNext PROVE A
    OBVIOUS
  <2>1. CASE Counts(rc, rc', bumped')
    BY <2>1 DEF Counts
  <2>2. CASE bumped' = << >> /\ \E u \in People : MovesUser(u)
    <3>1. IsInjective(<< >>) /\ ToSet(<< >>) = {}
      BY EmptyFacts
    <3> QED  BY <2>2, <3>1
  <2> QED  BY <2>1, <2>2, StepCounts
<1>2. CountersFollowLists <=> [][A]_hvars
  BY DEF CountersFollowLists
<1> QED  BY <1>1, <1>2, StoreInvariance, PTL DEF HistorySpec

(***************************************************************************)
(* Writes that fail and processes that die: whatever a call has done when  *)
(* it stops, the tables can be read, and nobody but those it was for can   *)
(* have lost a row.                                                        *)
(***************************************************************************)
\* Rows an operation asked for by `who` may cost: that person's, a guest
\* entry the web page recorded, or the member that a typed name stands for.
Excused(u, who) ==
  \/ u = who
  \/ u \in Guests /\ rc.proxy_owners[u] = Web
  \/ who \in Names /\ Stands(db, who, u)

Callers == People \cup Names \cup {NoRow}

\* A call whose every write leaves readable tables, and no row missing that
\* it may not cost.
Spares(call, S) ==
  /\ call.trace \in Seq(WritesTo(Keeping(S))) /\ S \subseteq Written(db)
  /\ \A u \in Written(db) : u \in S \/ Excused(u, call.who)

SafeCall(call) == call.who \in Callers /\ \E S : Spares(call, S)

\* A call is safe when each write leaves all rows but those it may cost.
LEMMA SafeIntro ==
  ASSUME NEW who \in Callers, NEW t, NEW X, NEW S, S = Written(db) \ X,
         t \in Seq(WritesTo(Keeping(S))), \A u \in X : Excused(u, who)
  PROVE  SafeCall(Call(who, t))
<1>1. Call(who, t).who = who /\ Call(who, t).trace = t
  BY DEF Call
<1>2. S \subseteq Written(db) /\ \A u \in Written(db) : u \in S \/ Excused(u, who)
  OBVIOUS
<1>3. Spares(Call(who, t), S)
  BY <1>1, <1>2 DEF Spares
<1> QED  BY <1>1, <1>3 DEF SafeCall

LEMMA ListedArePeople ==
  ASSUME NEW r \in RollCall
  PROVE  Listed(r) \subseteq People
<1>1. /\ r.inList \in Seq(People) /\ r.outList \in Seq(People)
      /\ r.maybeList \in Seq(People) /\ r.waitList \in Seq(People)
  BY RollCallFields
<1>2. ToSet(r.inList) \subseteq People
  BY <1>1, ToSetElements
<1>3. ToSet(r.outList) \subseteq People
  BY <1>1, ToSetElements
<1>4. ToSet(r.maybeList) \subseteq People
  BY <1>1, ToSetElements
<1>5. ToSet(r.waitList) \subseteq People
  BY <1>1, ToSetElements
<1> QED  BY <1>2, <1>3, <1>4, <1>5 DEF Listed, In, Waiting

\* A vote, by whomever and from whatever lists, costs nobody a row.
LEMMA VoteSafe ==
  ASSUME Table(db), NEW r \in RollCall, NEW u \in People, NEW a \in Answers, NEW c
  PROVE  SafeCall(Call(u, VoteTrace(db, r, u, a, c)))
<1> DEFINE S == Written(db)
           X == {}
<1>1. VoteTrace(db, r, u, a, c) \in Seq(WritesTo(Keeping(S)))
  BY VoteTyped
<1>2. S = Written(db) \ X /\ \A v \in X : Excused(v, u)
  OBVIOUS
<1>3. u \in Callers
  BY DEF Callers
<1> HIDE DEF S, X
<1> QED  BY <1>1, <1>2, <1>3, SafeIntro

\* Each kind of call is safe, whatever its place in the trace where it stops.
LEMMA VoteCallsSafe ==
  ASSUME rc \in RollCall, Table(db), NEW call \in VoteCalls
  PROVE  SafeCall(call)
<1>1. CASE \E m \in Members, a \in Answers, c \in BOOLEAN : call = MemberAnswers(m, a, c)
  <2>1. PICK m \in Members, a \in Answers, c \in BOOLEAN : call = Call(m, VoteTrace(db, rc, m, a, c))
    BY <1>1 DEF MemberAnswers
  <2>2. m \in People
    BY DEF People
  <2>3. SafeCall(Call(m, VoteTrace(db, rc, m, a, c)))
    BY <2>2, VoteSafe
  <2> QED  BY <2>1, <2>3
<1>2. CASE \E g \in NewGuests, o \in {Admin, Web} : call = GuestComes(g, o)
  <2>1. PICK g \in NewGuests, o \in {Admin, Web} :
          call = Call(g, VoteTrace(db, SetOwner(rc, g, o), g, "in", FALSE))
    BY <1>2 DEF GuestComes
  <2>2. g \in People /\ o \in Owners /\ "in" \in Answers
    BY DEF People, NewGuests, Owners, Answers
  <2>3. SetOwner(rc, g, o) \in RollCall
    BY <2>2, OwnerFields
  <2>4. SafeCall(Call(g, VoteTrace(db, SetOwner(rc, g, o), g, "in", FALSE)))
    BY <2>2, <2>3, VoteSafe
  <2> QED  BY <2>1, <2>4
<1>3. CASE \E g \in Guests, a \in StaysAway, c \in BOOLEAN : call = GuestAnswers(g, a, c)
  <2>1. PICK g \in Guests, a \in StaysAway, c \in BOOLEAN : call = Call(g, VoteTrace(db, rc, g, a, c))
    BY <1>3 DEF GuestAnswers
  <2>2. g \in People /\ a \in Answers
    BY DEF People, StaysAway
  <2>3. SafeCall(Call(g, VoteTrace(db, rc, g, a, c)))
    BY <2>2, VoteSafe
  <2> QED  BY <2>1, <2>3
<1> QED  BY <1>1, <1>2, <1>3 DEF VoteCalls

\* A deletion costs the person it hits their row, whoever was asked for.
LEMMA DeleteSafe ==
  ASSUME rc \in RollCall, Table(db), NEW u \in People, NEW who \in Callers, Excused(u, who)
  PROVE  SafeCall(Call(who, DeleteTrace(db, rc, u)))
<1> DEFINE X == {u}
           S == Written(db) \ X
<1>1. DeleteTrace(db, rc, u) \in Seq(WritesTo(Keeping(S)))
  BY ChainsTyped DEF Answers
<1>2. S = Written(db) \ X /\ \A v \in X : Excused(v, who)
  OBVIOUS
<1> HIDE DEF S, X
<1> QED  BY <1>1, <1>2, SafeIntro

\* Moving the cap costs nobody a row; deleting a person costs that person's,
\* or that of whom the name stands for.
LEMMA AdminCallsSafe ==
  ASSUME rc \in RollCall, Table(db), NEW call \in AdminCalls
  PROVE  SafeCall(call)
<1>1. CASE \E n \in Limits : call = CapMoves(n)
  <2>1. PICK n \in Limits : call = Call(NoRow, LimitTrace(db, rc, n))
    BY <1>1 DEF CapMoves
  <2> DEFINE S == Written(db)
             X == {}
  <2>2. LimitTrace(db, rc, n) \in Seq(WritesTo(Keeping(S)))
    BY LimitTyped
  <2>3. S = Written(db) \ X /\ \A v \in X : Excused(v, NoRow)
    OBVIOUS
  <2>5. NoRow \in Callers
    BY DEF Callers
  <2> HIDE DEF S, X
  <2>4. SafeCall(Call(NoRow, LimitTrace(db, rc, n)))
    BY <2>2, <2>3, <2>5, SafeIntro
  <2> QED  BY <2>1, <2>4
<1>2. CASE \E m \in ById : call = IdDeleted(m)
  <2>1. PICK m \in ById : call = Call(m, DeleteTrace(db, rc, m))
    BY <1>2 DEF IdDeleted
  <2>2. m \in People /\ m \in Callers /\ Excused(m, m)
    BY DEF ById, WithRow, People, Callers, Excused
  <2> QED  BY <2>1, <2>2, DeleteSafe
<1>3. CASE \E n \in Names : \E u \in Named(db, n) : call = NameDeleted(n, u)
  <2>1. PICK n \in Names : \E u \in Named(db, n) : call = NameDeleted(n, u)
    BY <1>3
  <2>2. PICK u \in Named(db, n) : call = Call(n, DeleteTrace(db, rc, u))
    BY <2>1 DEF NameDeleted
  <2>3. u \in People /\ n \in Callers /\ Excused(u, n)
    BY NamedFacts DEF Callers, Excused
  <2> QED  BY <2>2, <2>3, DeleteSafe
<1> QED  BY <1>1, <1>2, <1>3 DEF AdminCalls

\* An admin's move may cost whom it moves their row.
LEMMA MoveCallsSafe ==
  ASSUME rc \in RollCall, Table(db), NEW call \in MoveCalls
  PROVE  SafeCall(call) /\ call.who \in People
<1>1. PICK u \in Listed(rc) : call \in {PersonMoved(u, a) : a \in MayBecome(u)}
  BY DEF MoveCalls
<1>2. PICK a \in MayBecome(u) : call = Call(u, StatusTrace(db, rc, u, a))
  BY <1>1 DEF PersonMoved
<1>3. u \in People /\ a \in Answers
  BY ListedArePeople DEF MayBecome
<1> DEFINE X == {u}
           S == Written(db) \ X
<1>4. StatusTrace(db, rc, u, a) \in Seq(WritesTo(Keeping(S)))
  BY <1>3, ChainsTyped
<1>5. S = Written(db) \ X /\ \A v \in X : Excused(v, u)
  BY DEF Excused
<1>7. u \in Callers
  BY <1>3 DEF Callers
<1> HIDE DEF S, X
<1>6. SafeCall(Call(u, StatusTrace(db, rc, u, a)))
  BY <1>4, <1>5, <1>7, SafeIntro
<1> QED  BY <1>2, <1>3, <1>6 DEF Call

\* One whose delete failed costs nobody a row.
LEMMA KeptCallsSafe ==
  ASSUME rc \in RollCall, Table(db), NEW call \in KeptCalls
  PROVE  SafeCall(call) /\ call.who \in People /\ call.trace # << >>
<1>1. PICK u \in Listed(rc) : call \in {PersonKept(u, a) : a \in MayBecome(u)}
  BY DEF KeptCalls
<1>2. PICK a \in MayBecome(u) : call = Call(u, KeptTrace(db, rc, u, a))
  BY <1>1 DEF PersonKept
<1>3. u \in People /\ a \in Answers /\ u \in Callers
  BY ListedArePeople DEF MayBecome, Callers
<1> DEFINE S == Written(db)
           X == {}
           W == Seq(WritesTo(Keeping(S)))
           q == SetOwner(ReloadUsers(db, rc), u, OwnerOf(rc, u))
           vote == VoteTrace(db, q, u, a, FALSE)
           w == Write(rc, q, db)
<1>4. q \in RollCall
  <2>1. ReloadUsers(db, rc) \in RollCall /\ OwnerOf(rc, u) \in Owners
    BY <1>3, ReloadTyped, StatusFacts
  <2> QED  BY <2>1, OwnerFields
<1>5. vote \in W
  BY <1>3, <1>4, VoteTyped
<1>6. db \in Keeping(S)
  BY DEF Keeping, Table
<1>7. KeptTrace(db, rc, u, a) = << w >> \o vote
  BY DEF KeptTrace, Write
<1>8. S = Written(db) \ X /\ \A v \in X : Excused(v, u)
  OBVIOUS
<1> HIDE DEF S, X, q
<1>9. << w >> \in W
  BY <1>4, <1>6, OneWrite
<1> HIDE DEF vote, w
<1>10. << w >> \o vote \in W
  BY <1>5, <1>9, JoinedTrace
<1>11. << w >> \o vote # << >>
  BY <1>5
<1>12. SafeCall(Call(u, KeptTrace(db, rc, u, a)))
  BY <1>3, <1>7, <1>8, <1>10, SafeIntro
<1> QED  BY <1>2, <1>3, <1>7, <1>11, <1>12 DEF Call

\* A web vote may cost the guest entry it replaces.
LEMMA WebCallsSafe ==
  ASSUME rc \in RollCall, Table(db), NEW call \in WebCalls
  PROVE  SafeCall(call)
<1>1. PICK m \in Members, g \in WebGuests, a \in Answers, c \in BOOLEAN :
        call = Call(m, WebTrace(db, rc, m, g, a, c))
  BY DEF WebCalls, WebAnswers
<1>2. m \in People /\ g \in People /\ g \in Guests /\ rc.proxy_owners[g] = Web
  BY DEF People, WebGuests, WithRow
<1> DEFINE X == {g}
           S == Written(db) \ X
<1>3. WebTrace(db, rc, m, g, a, c) \in Seq(WritesTo(Keeping(S)))
  BY <1>2, ChainsTyped
<1>4. S = Written(db) \ X /\ \A v \in X : Excused(v, m)
  BY <1>2 DEF Excused
<1>6. m \in Callers
  BY <1>2 DEF Callers
<1> HIDE DEF S, X
<1>5. SafeCall(Call(m, WebTrace(db, rc, m, g, a, c)))
  BY <1>3, <1>4, <1>6, SafeIntro
<1> QED  BY <1>1, <1>5

\* How any call comes out, stopped or not: a rollcall in memory, readable
\* tables, and nobody's row gone that the call may not cost.
Outcome(who) ==
  /\ rc' \in RollCall /\ Table(db')
  /\ \A u \in Written(db) : u \in Written(db') \/ Excused(u, who)

\* Any write of a trace, and the tables it found.
LEMMA AnyWrite ==
  ASSUME NEW D, db \in D, NEW t \in Seq(WritesTo(D)), NEW k \in DOMAIN t
  PROVE  t[k].try \in RollCall /\ t[k].rc \in RollCall /\ t[k].db \in D /\ SoFar(t, k) \in D
<1>1. k \in 1..Len(t) /\ t[k] \in WritesTo(D)
  OBVIOUS
<1>2. t[k].try \in RollCall /\ t[k].rc \in RollCall /\ t[k].db \in D
  BY <1>1 DEF WritesTo
<1>3. CASE k = 1
  BY <1>2, <1>3 DEF SoFar
<1>4. CASE k # 1
  <2>1. k - 1 \in 1..Len(t)
    BY <1>1, <1>4
  <2>2. t[k - 1] \in WritesTo(D)
    BY <2>1
  <2>3. t[k - 1].db \in D
    BY <2>2 DEF WritesTo
  <2> QED  BY <1>2, <1>4, <2>3 DEF SoFar
<1> QED  BY <1>3, <1>4

\* The last write of a trace, and what a set of tables fixes.
LEMMA LastWrite ==
  ASSUME NEW D, NEW t \in Seq(WritesTo(D)), t # << >>
  PROVE  Last(t).rc \in RollCall /\ Last(t).db \in D
<1>1. Len(t) \in 1..Len(t) /\ Last(t) = t[Len(t)]
  BY DEF Last
<1>2. t[Len(t)] \in WritesTo(D)
  BY <1>1
<1> QED  BY <1>1, <1>2 DEF WritesTo

LEMMA KeepingFacts ==
  ASSUME Table(db), NEW call, NEW S, Spares(call, S)
  PROVE  db \in Keeping(S) /\ \A d \in Keeping(S) : Table(d) /\ S \subseteq Written(d)
BY DEF Keeping, Spares, Table

\* What a step that changes nothing, or runs to its end, leaves behind.
LEMMA OutcomeIntro ==
  ASSUME NEW call, NEW S, Spares(call, S), rc' \in RollCall, db' \in Keeping(S)
  PROVE  Outcome(call.who)
<1>1. Table(db') /\ S \subseteq Written(db')
  BY DEF Keeping
<1>2. \A u \in Written(db) : u \in S \/ Excused(u, call.who)
  BY DEF Spares
<1> QED  BY <1>1, <1>2 DEF Outcome

LEMMA SameOutcome ==
  ASSUME rc \in RollCall, Table(db), UNCHANGED << rc, db >>, NEW who
  PROVE  Outcome(who)
<1>1. rc' = rc /\ db' = db
  OBVIOUS
<1> QED  BY <1>1 DEF Outcome

\* Run to its end.
LEMMA DoneOutcome ==
  ASSUME rc \in RollCall, Table(db), NEW call, SafeCall(call), Done(call)
  PROVE  Outcome(call.who)
<1>1. CASE call.trace = << >>
  BY <1>1, SameOutcome DEF Done
<1>2. CASE call.trace # << >>
  <2>1. rc' = Last(call.trace).rc /\ db' = Last(call.trace).db
    BY <1>2 DEF Done, Finish
  <2>2. PICK S : Spares(call, S)
    BY DEF SafeCall
  <2>3. call.trace \in Seq(WritesTo(Keeping(S)))
    BY <2>2 DEF Spares
  <2>4. rc' \in RollCall /\ db' \in Keeping(S)
    BY <1>2, <2>1, <2>3, LastWrite
  <2> QED  BY <2>2, <2>4, OutcomeIntro
<1> QED  BY <1>1, <1>2

\* Stopped at a write that raises.
LEMMA RaiseOutcome ==
  ASSUME Table(db), NEW call, SafeCall(call), Raise(call)
  PROVE  Outcome(call.who)
<1>1. PICK S : Spares(call, S)
  BY DEF SafeCall
<1>2. PICK k \in DOMAIN call.trace : rc' = call.trace[k].try /\ db' = SoFar(call.trace, k)
  BY DEF Raise, Become
<1>3. call.trace \in Seq(WritesTo(Keeping(S))) /\ db \in Keeping(S)
  BY <1>1, KeepingFacts DEF Spares
<1>4. rc' \in RollCall /\ db' \in Keeping(S)
  BY <1>2, <1>3, AnyWrite
<1> QED  BY <1>1, <1>4, OutcomeIntro

\* Stopped in an admin's move: the row is put back, if it can be.
LEMMA MoveFailsOutcome ==
  ASSUME rc \in RollCall, Table(db), NEW call, SafeCall(call), call.who \in People, MoveFails(call)
  PROVE  Outcome(call.who)
<1>1. PICK S : Spares(call, S)
  BY DEF SafeCall
<1>2. PICK k \in DOMAIN call.trace : Unmove(call, k)
  BY DEF MoveFails
<1> DEFINE r == call.trace[k].try
           d == SoFar(call.trace, k)
           u == call.who
           answer == StatusOf(rc, u)
           owner == OwnerOf(r, u)
           restored == WriteRow(d, u, answer, owner)
<1>3. call.trace \in Seq(WritesTo(Keeping(S))) /\ db \in Keeping(S)
      /\ \A e \in Keeping(S) : Table(e) /\ S \subseteq Written(e)
  BY <1>1, KeepingFacts DEF Spares
<1>4. r \in RollCall /\ d \in Keeping(S)
  BY <1>3, AnyWrite
<1>5. \/ rc' = ReloadUsers(restored, r) /\ db' = restored
      \/ rc' = r /\ db' = d
  BY <1>2 DEF Unmove, Become
<1>6. answer \in Statuses
  BY StatusFacts
<1>7. owner \in Owners
  BY <1>4, StatusFacts
<1> HIDE DEF r, d, u, answer, owner
<1>8. Table(d) /\ S \subseteq Written(d) /\ u \in People
  BY <1>3, <1>4 DEF u
<1>9. Table(restored) /\ Written(restored) = Written(d) \cup {u}
  BY <1>6, <1>7, <1>8, WriteRowFacts
<1> HIDE DEF restored
<1>10. restored \in Keeping(S)
  BY <1>8, <1>9 DEF Keeping, Table
<1>11. ReloadUsers(restored, r) \in RollCall
  BY <1>4, <1>9, ReloadTyped
<1>12. rc' \in RollCall /\ db' \in Keeping(S)
  BY <1>4, <1>5, <1>10, <1>11
<1> QED  BY <1>1, <1>12, OutcomeIntro

\* Stopped in a web vote: the freed slots are filled, if they can be.
LEMMA WebFailsOutcome ==
  ASSUME Table(db), NEW call, SafeCall(call), WebFails(call)
  PROVE  Outcome(call.who)
<1>1. PICK S : Spares(call, S)
  BY DEF SafeCall
<1>2. PICK k \in DOMAIN call.trace :
        LET fill == FillTrace(SoFar(call.trace, k), call.trace[k].try)
        IN  \/ Become(Last(fill).rc, Last(fill).db)
            \/ Become(call.trace[k].try, SoFar(call.trace, k))
  BY DEF WebFails
<1> DEFINE r == call.trace[k].try
           d == SoFar(call.trace, k)
           fill == FillTrace(d, r)
<1>3. call.trace \in Seq(WritesTo(Keeping(S))) /\ db \in Keeping(S)
      /\ \A e \in Keeping(S) : Table(e) /\ S \subseteq Written(e)
  BY <1>1, KeepingFacts DEF Spares
<1>4. r \in RollCall /\ d \in Keeping(S)
  BY <1>3, AnyWrite
<1>5. \/ rc' = Last(fill).rc /\ db' = Last(fill).db
      \/ rc' = r /\ db' = d
  BY <1>2 DEF Become
<1> HIDE DEF r, d
<1>6. Table(d) /\ S \subseteq Written(d)
  BY <1>3, <1>4
<1>7. fill \in Seq(WritesTo(Keeping(S))) /\ fill # << >>
  BY <1>4, <1>6, FillTyped DEF Ends
<1> HIDE DEF fill
<1>8. Last(fill).rc \in RollCall /\ Last(fill).db \in Keeping(S)
  BY <1>7, LastWrite
<1>9. rc' \in RollCall /\ db' \in Keeping(S)
  BY <1>4, <1>5, <1>8
<1> QED  BY <1>1, <1>9, OutcomeIntro

\* The process dies, and reads back whatever was written.
LEMMA DiesOutcome ==
  ASSUME Table(db), NEW call, SafeCall(call), DiesMidway(call)
  PROVE  Outcome(call.who)
<1>1. PICK S : Spares(call, S)
  BY DEF SafeCall
<1>2. PICK k \in DOMAIN call.trace :
        rc' = LoadFromDb(SoFar(call.trace, k)) /\ db' = SoFar(call.trace, k)
  BY DEF DiesMidway, Become
<1>3. call.trace \in Seq(WritesTo(Keeping(S))) /\ db \in Keeping(S)
      /\ \A e \in Keeping(S) : Table(e) /\ S \subseteq Written(e)
  BY <1>1, KeepingFacts DEF Spares
<1>4. SoFar(call.trace, k) \in Keeping(S)
  BY <1>3, AnyWrite
<1>5. LoadFromDb(SoFar(call.trace, k)) \in RollCall
  BY <1>3, <1>4, LoadTyped
<1>6. rc' \in RollCall /\ db' \in Keeping(S)
  BY <1>2, <1>4, <1>5
<1> QED  BY <1>1, <1>6, OutcomeIntro

\* The inductive invariant: a rollcall in memory and readable tables, which
\* stand for it as long as no write has failed.
FaultInv ==
  /\ rc \in RollCall /\ Table(db)
  /\ told \in [who : Callers, reply : {"none", "done", "error"}]
  /\ faults \in 0..MaxFaults
  /\ faults = 0 => Kept(rc, db)

Calls == VoteCalls \cup AdminCalls \cup MoveCalls \cup WebCalls

LEMMA CallsSafe ==
  ASSUME rc \in RollCall, Table(db), NEW call \in Calls
  PROVE  SafeCall(call)
BY VoteCallsSafe, AdminCallsSafe, MoveCallsSafe, WebCallsSafe DEF Calls

\* As long as the tables stand for the rollcall, every call's trace leaves
\* readable tables that hang together, and ends where they stand for it again.
LEMMA CallsLand ==
  ASSUME Kept(rc, db), NEW call \in Calls
  PROVE  \E new : Lands(call.trace, new)
<1>0. rc \in RollCall
  BY KeptFacts DEF Kept
<1>1. CASE \E m \in Members, a \in Answers, c \in BOOLEAN : call = MemberAnswers(m, a, c)
  <2>1. PICK m \in Members, a \in Answers, c \in BOOLEAN : call = Call(m, VoteTrace(db, rc, m, a, c))
    BY <1>1 DEF MemberAnswers
  <2>2. Lands(VoteTrace(db, rc, m, a, c), Add(rc, m, a))
    BY VoteLands DEF People
  <2> QED  BY <2>1, <2>2 DEF Call
<1>2. CASE \E g \in NewGuests, o \in {Admin, Web} : call = GuestComes(g, o)
  <2>1. PICK g \in NewGuests, o \in {Admin, Web} :
          call = Call(g, VoteTrace(db, SetOwner(rc, g, o), g, "in", FALSE))
    BY <1>2 DEF GuestComes
  <2>2. g \in Guests /\ o \in Owners /\ g \notin In(rc) \cup Waiting(rc)
    BY DEF NewGuests, Owners
  <2>3. Lands(VoteTrace(db, SetOwner(rc, g, o), g, "in", FALSE), AddIn(SetOwner(rc, g, o), g))
    BY <2>2, GuestLands
  <2> QED  BY <2>1, <2>3 DEF Call
<1>3. CASE \E g \in Guests, a \in StaysAway, c \in BOOLEAN : call = GuestAnswers(g, a, c)
  <2>1. PICK g \in Guests, a \in StaysAway, c \in BOOLEAN : call = Call(g, VoteTrace(db, rc, g, a, c))
    BY <1>3 DEF GuestAnswers
  <2>2. Lands(VoteTrace(db, rc, g, a, c), Add(rc, g, a))
    BY VoteLands DEF People, StaysAway
  <2> QED  BY <2>1, <2>2 DEF Call
<1>4. CASE \E n \in Limits : call = CapMoves(n)
  <2>1. PICK n \in Limits : call = Call(NoRow, LimitTrace(db, rc, n))
    BY <1>4 DEF CapMoves
  <2>2. Lands(LimitTrace(db, rc, n), SetWaitLimit(rc, n))
    BY LimitKept
  <2> QED  BY <2>1, <2>2 DEF Call
<1>5. CASE \/ \E m \in ById : call = IdDeleted(m)
           \/ \E n \in Names : \E u \in Named(db, n) : call = NameDeleted(n, u)
  <2>1. \E who, u : u \in People /\ call = Call(who, DeleteTrace(db, rc, u))
    <3>1. CASE \E m \in ById : call = IdDeleted(m)
      BY <3>1 DEF IdDeleted, ById, WithRow, People
    <3>2. CASE \E n \in Names : \E u \in Named(db, n) : call = NameDeleted(n, u)
      BY <3>2, NamedFacts DEF NameDeleted
    <3> QED  BY <1>5, <3>1, <3>2
  <2>2. PICK who, u : u \in People /\ call = Call(who, DeleteTrace(db, rc, u))
    BY <2>1
  <2>3. \E q \in Reloads(Without(rc, u)) : Lands(DeleteTrace(db, rc, u), FillWaitlistSlots(q))
    BY <2>2, DeleteLands
  <2> QED  BY <2>2, <2>3 DEF Call
<1>6. CASE call \in MoveCalls
  <2>1. PICK u \in Listed(rc) : call \in {PersonMoved(u, a) : a \in MayBecome(u)}
    BY <1>6 DEF MoveCalls
  <2>2. PICK a \in MayBecome(u) : call = Call(u, StatusTrace(db, rc, u, a))
    BY <2>1 DEF PersonMoved
  <2>3. u \in People /\ a \in Answers
    BY <1>0, ListedArePeople DEF MayBecome
  <2>4. \E q \in Reloads(Without(rc, u)) :
          Lands(StatusTrace(db, rc, u, a), Add(SetOwner(q, u, OwnerOf(rc, u)), u, a))
    BY <2>3, StatusLands
  <2> QED  BY <2>2, <2>4 DEF Call
<1>7. CASE call \in WebCalls
  <2>1. PICK m \in Members, g \in WebGuests, a \in Answers, c \in BOOLEAN :
          call = Call(m, WebTrace(db, rc, m, g, a, c))
    BY <1>7 DEF WebCalls, WebAnswers
  <2>2. g \in Guests
    BY DEF WebGuests, WithRow
  <2>3. \E q \in Reloads(Without(rc, g)) :
          Lands(WebTrace(db, rc, m, g, a, c), FillWaitlistSlots(Add(q, m, a)))
    BY <2>2, WebLands
  <2> QED  BY <2>1, <2>3 DEF Call
<1> QED  BY <1>1, <1>2, <1>3, <1>4, <1>5, <1>6, <1>7 DEF Calls, VoteCalls, AdminCalls

\* Run to its end, or cut off by a death: the tables stand for what is held.
LEMMA DoneKept ==
  ASSUME Kept(rc, db), NEW call \in Calls, Done(call)
  PROVE  Kept(rc', db')
<1>1. PICK new : Lands(call.trace, new)
  BY CallsLand
<1>2. call.trace # << >>
  BY <1>1 DEF Lands, Ends
<1>3. rc' = Last(call.trace).rc /\ db' = Last(call.trace).db
  BY <1>2 DEF Done, Finish
<1> QED  BY <1>1, <1>3 DEF Lands, Ends

LEMMA DiesKept ==
  ASSUME Kept(rc, db), NEW call \in Calls, DiesMidway(call)
  PROVE  Kept(rc', db')
<1>1. PICK k \in DOMAIN call.trace :
        rc' = LoadFromDb(SoFar(call.trace, k)) /\ db' = SoFar(call.trace, k)
  BY DEF DiesMidway, Become
<1>2. call.trace \in Seq(WritesTo(Neat))
  BY CallsLand DEF Lands
<1>3. Tidy(db) /\ db \in Neat
  BY KeptFacts DEF Kept, Neat, Tidy, Table
<1>4. SoFar(call.trace, k) \in Neat
  BY <1>2, <1>3, AnyWrite
<1>5. Tidy(SoFar(call.trace, k))
  BY <1>4 DEF Neat
<1>6. Kept(LoadFromDb(SoFar(call.trace, k)), SoFar(call.trace, k))
  BY <1>5, LoadKept
<1> QED  BY <1>1, <1>6

\* What every step of a failing system does.
FaultStepOf(who) ==
  /\ who \in Callers /\ Outcome(who)
  /\ \E reply \in {"none", "done", "error"} : told' = [who |-> who, reply |-> reply]
  /\ \/ faults' = faults /\ (Kept(rc, db) => Kept(rc', db'))
     \/ faults < MaxFaults /\ faults' = faults + 1

\* Every step of the faulty bot is one call, done, cut off or failed.
LEMMA CallSteps ==
  ASSUME rc \in RollCall, Table(db), NEW call \in Calls,
         \/ Done(call) \/ Raise(call) \/ DiesMidway(call)
         \/ call \in MoveCalls /\ MoveFails(call)
         \/ WebFails(call)
  PROVE  FaultStepOf(call.who)
<1>0. SafeCall(call) /\ call.who \in Callers
  BY CallsSafe DEF SafeCall
<1>1. CASE Done(call)
  <2>1. Outcome(call.who)
    BY <1>0, <1>1, DoneOutcome
  <2>2. Kept(rc, db) => Kept(rc', db')
    BY <1>1, DoneKept
  <2> QED  BY <1>0, <1>1, <2>1, <2>2 DEF FaultStepOf, Done, Reply
<1>2. CASE Raise(call)
  BY <1>0, <1>2, RaiseOutcome DEF FaultStepOf, Raise, AnswersError, Reply
<1>3. CASE DiesMidway(call)
  <2>1. Outcome(call.who)
    BY <1>0, <1>3, DiesOutcome
  <2>2. Kept(rc, db) => Kept(rc', db')
    BY <1>3, DiesKept
  <2> QED  BY <1>0, <1>3, <2>1, <2>2 DEF FaultStepOf, DiesMidway, Reply
<1>4. CASE call \in MoveCalls /\ MoveFails(call)
  <2>1. call.who \in People
    BY <1>4, MoveCallsSafe
  <2>2. Outcome(call.who)
    BY <1>0, <1>4, <2>1, MoveFailsOutcome
  <2> QED  BY <1>0, <1>4, <2>2 DEF FaultStepOf, MoveFails, AnswersError, Reply
<1>5. CASE WebFails(call)
  BY <1>0, <1>5, WebFailsOutcome DEF FaultStepOf, WebFails, AnswersError, Reply
<1> QED  BY <1>1, <1>2, <1>3, <1>4, <1>5

LEMMA FaultSteps ==
  ASSUME rc \in RollCall, Table(db), FaultNext
  PROVE  \E who : FaultStepOf(who)
<1>1. CASE Answered
  <2>1. PICK call \in Repeated : Done(call)
    BY <1>1 DEF Answered
  <2>2. PICK g \in Guests : call = Call(g, << >>)
    BY DEF Repeated
  <2>3. call.who = g /\ call.trace = << >> /\ g \in People
    BY <2>2 DEF Call, People
  <2>4. UNCHANGED << rc, db >> /\ told' = [who |-> g, reply |-> "done"] /\ faults' = faults
    BY <2>1, <2>3 DEF Done, Reply
  <2>5. Outcome(g)
    BY <2>4, SameOutcome
  <2>6. FaultStepOf(g)
    BY <2>3, <2>4, <2>5 DEF FaultStepOf, Callers
  <2> QED  BY <2>6
<1>2. CASE Single
  <2>1. PICK call \in VoteCalls \cup AdminCalls : Done(call) \/ Raise(call) \/ DiesMidway(call)
    BY <1>2 DEF Single
  <2>2. FaultStepOf(call.who)
    BY <2>1, CallSteps DEF Calls
  <2> QED  BY <2>2
<1>3. CASE Moved
  <2>1. PICK call \in MoveCalls : Done(call) \/ MoveFails(call) \/ DiesMidway(call)
    BY <1>3 DEF Moved
  <2>2. FaultStepOf(call.who)
    BY <2>1, CallSteps DEF Calls
  <2> QED  BY <2>2
<1>4. CASE OnWeb
  <2>1. PICK call \in WebCalls : Done(call) \/ WebFails(call) \/ DiesMidway(call)
    BY <1>4 DEF OnWeb
  <2>2. FaultStepOf(call.who)
    BY <2>1, CallSteps DEF Calls
  <2> QED  BY <2>2
<1>5. CASE MovedKept
  <2>1. PICK call \in KeptCalls : MovesAnyway(call) \/ MoveFails(call)
    BY <1>5 DEF MovedKept
  <2>2. SafeCall(call) /\ call.who \in People /\ call.who \in Callers /\ call.trace # << >>
    BY KeptCallsSafe DEF Callers
  <2>3. CASE MovesAnyway(call)
    <3>1. PICK S : Spares(call, S)
      BY <2>2 DEF SafeCall
    <3>2. call.trace \in Seq(WritesTo(Keeping(S)))
      BY <3>1 DEF Spares
    <3>3. rc' = Last(call.trace).rc /\ db' = Last(call.trace).db
      BY <2>3 DEF MovesAnyway, Finish
    <3>4. rc' \in RollCall /\ db' \in Keeping(S)
      BY <2>2, <3>2, <3>3, LastWrite
    <3>5. Outcome(call.who)
      BY <3>1, <3>4, OutcomeIntro
    <3> QED  BY <2>2, <2>3, <3>5 DEF FaultStepOf, MovesAnyway, Reply
  <2>4. CASE MoveFails(call)
    <3>1. Outcome(call.who)
      BY <2>2, <2>4, MoveFailsOutcome
    <3> QED  BY <2>2, <2>4, <3>1 DEF FaultStepOf, MoveFails, AnswersError, Reply
  <2> QED  BY <2>1, <2>3, <2>4
<1>6. CASE Refused
  <2>1. PICK who \in Callers : NotFound(who)
    BY <1>6 DEF Refused, Callers, People
  <2>2. UNCHANGED << rc, db >> /\ told' = [who |-> who, reply |-> "error"] /\ faults' = faults
    BY <2>1 DEF NotFound, Reply
  <2>3. Outcome(who)
    BY <2>2, SameOutcome
  <2>4. FaultStepOf(who)
    BY <2>2, <2>3 DEF FaultStepOf
  <2> QED  BY <2>4
<1> QED  BY <1>1, <1>2, <1>3, <1>4, <1>5, <1>6 DEF FaultNext

\* The inductive invariant, from the first state on.
LEMMA FaultInitInv == FaultInit => FaultInv
<1> SUFFICES ASSUME FaultInit PROVE FaultInv
  OBVIOUS
<1>1. Kept(rc, db)
  BY StoreInitInv DEF FaultInit, StoreInv
<1>2. rc \in RollCall /\ Table(db)
  BY <1>1, KeptFacts DEF Kept
<1>3. told \in [who : Callers, reply : {"none", "done", "error"}]
  BY DEF FaultInit, Callers
<1>4. faults \in 0..MaxFaults
  BY FaultAssumption DEF FaultInit
<1> QED  BY <1>1, <1>2, <1>3, <1>4 DEF FaultInv

LEMMA FaultNextInv == FaultInv /\ [FaultNext]_fvars => FaultInv'
<1> SUFFICES ASSUME FaultInv, [FaultNext]_fvars PROVE FaultInv'
  OBVIOUS
<1>1. CASE FaultNext
  <2>1. PICK who : FaultStepOf(who)
    BY <1>1, FaultSteps DEF FaultInv
  <2>2. rc' \in RollCall /\ Table(db')
    BY <2>1 DEF FaultStepOf, Outcome
  <2>3. told' \in [who : Callers, reply : {"none", "done", "error"}]
    BY <2>1 DEF FaultStepOf
  <2>4. faults \in 0..MaxFaults /\ MaxFaults \in Nat
    BY FaultAssumption DEF FaultInv
  <2>5. CASE faults' = faults /\ (Kept(rc, db) => Kept(rc', db'))
    BY <2>2, <2>3, <2>4, <2>5 DEF FaultInv
  <2>6. CASE faults < MaxFaults /\ faults' = faults + 1
    <3>1. faults' \in 0..MaxFaults /\ faults' # 0
      BY <2>4, <2>6
    <3> QED  BY <2>2, <2>3, <3>1 DEF FaultInv
  <2> QED  BY <2>1, <2>5, <2>6 DEF FaultStepOf
<1>2. CASE UNCHANGED fvars
  BY <1>2 DEF FaultInv, fvars
<1> QED  BY <1>1, <1>2

\* It holds of every behaviour with failures and deaths.
LEMMA FaultInvariance == FaultSpec => []FaultInv
BY FaultInitInv, FaultNextInv, PTL DEF FaultSpec

LEMMA FaultInvOK == FaultInv => FaultsOK
<1> SUFFICES ASSUME FaultInv PROVE FaultsOK
  OBVIOUS
<1>1. StoreTypeOK
  BY TablesReadable DEF FaultInv
<1>2. FaultTypeOK
  BY <1>1 DEF FaultTypeOK, FaultInv, Callers
<1>3. CrashesAreClean
  <2> SUFFICES ASSUME faults = 0 PROVE CacheMatchesStore /\ OnePlace(rc)
    BY DEF CrashesAreClean
  <2>1. Kept(rc, db)
    BY DEF FaultInv
  <2>2. Apart(rc.inList, rc.outList, rc.maybeList, rc.waitList)
    BY <2>1, KeptFacts DEF Kept
  <2> QED  BY <2>1, <2>2, KeptMatches, OnePlaceApart
<1> QED  BY <1>2, <1>3 DEF FaultsOK

\* Whatever fails, the tables can be read back; and while only processes die,
\* they hold the very rollcall, everybody on one list.
THEOREM FaultsCorrect == FaultSpec => []FaultsOK
BY FaultInvariance, FaultInvOK, PTL

\* No operation, however it stops, costs anybody their row but whom it was
\* for: the person given by id, the guest entries the web page recorded, and
\* whom a typed name means, a member of it only where no guest of that name
\* has a row, which is true of a guest on the lists only once a write failed.
THEOREM OthersStay == FaultSpec => OthersKept
<1> DEFINE Costs(u) ==
             \/ u = told'.who
             \/ u \in Guests /\ rc.proxy_owners[u] = Web
             \/ told'.who \in Names /\ Means(told'.who, u)
           A == \A u \in People : HasRow(db, u) /\ ~HasRow(db', u) => Costs(u)
<1>1. FaultInv /\ [FaultNext]_fvars => [A]_fvars
  <2> SUFFICES ASSUME FaultInv, FaultNext, NEW u \in People, HasRow(db, u), ~HasRow(db', u)
               PROVE  Costs(u)
    OBVIOUS
  <2>1. PICK who : FaultStepOf(who)
    BY FaultSteps DEF FaultInv
  <2>2. told'.who = who
    BY <2>1 DEF FaultStepOf
  <2>3. u \in Written(db) /\ u \notin Written(db')
    BY DEF Written
  <2>4. Excused(u, who)
    BY <2>1, <2>3 DEF FaultStepOf, Outcome
  <2>5. ASSUME who \in Guests, ~HasRow(db, who), who \in Listed(rc)
        PROVE  faults > 0
    <3>1. ~Kept(rc, db)
      BY <2>5, KeptFacts DEF Kept, Written
    <3>2. faults # 0 /\ faults \in 0..MaxFaults /\ MaxFaults \in Nat
      BY <3>1, FaultAssumption DEF FaultInv
    <3> QED  BY <3>2
  <2>6. who \in Names /\ Stands(db, who, u) => Means(who, u)
    BY <2>5 DEF Stands, Means
  <2> QED  BY <2>2, <2>4, <2>6 DEF Excused
<1>2. OthersKept <=> [][A]_fvars
  BY DEF OthersKept
<1> QED  BY <1>1, <1>2, FaultInvariance, PTL DEF FaultSpec
=============================================================================
