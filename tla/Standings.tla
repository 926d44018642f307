----------------------------- MODULE Standings -----------------------------
(***************************************************************************)
(* Who played how many games: every screen that shows attendance counts it *)
(* anew from the games that ended (db.py, services/stats.py), folding the  *)
(* names that were merged into a person, and the milestones announced when *)
(* a game ends (services/badges.py).  Games, no-show marks and merges come *)
(* in any order; a game is never edited after it ended.                    *)
(*                                                                         *)
(* "ONE definition, used by every attendance number the bot shows.  These  *)
(* used to disagree": the properties compare the readers with each other.  *)
(* Vote totals, display names, ties and page limits are left out, and so   *)
(* are the reads that fail (they answer as if nobody had played).          *)
(***************************************************************************)
EXTENDS IdentityLinks, Sequences

CONSTANTS
  Script,           \* the games that can end, in this order: who was on which list
  Opened,           \* how many of them had ended at first
  GamesMilestones   \* GAMES_MILESTONES

\* Who of S is on which list of a game.
Lists(S) == UNION {[D -> {"in", "out", "maybe"}] : D \in SUBSET S}

ASSUME StandingsAssumption ==
  /\ Script \in Seq([members : Lists(Member), guests : Lists(Name)])
  /\ Opened \in 0..Len(Script) /\ GamesMilestones \subseteq Nat
  /\ \A i \in 1..Opened : DOMAIN Script[i].guests \subseteq Known

VARIABLES
  games,     \* the rows of the games that ended
  ghosted,   \* ghost_events: no-shows, a game with a member or a name
  stamps     \* milestone_games: milestones that were announced, with the game

standings == <<games, ghosted, stamps>>
boards == <<vars, standings>>

Ended == DOMAIN games
-----------------------------------------------------------------------------
(* What counts as a game played.                                           *)

Completed(g) == ~games[g].cancelled

UserPlayed(g, m) == /\ m \in DOMAIN games[g].members /\ games[g].members[m] = "in"
                    /\ <<g, m>> \notin ghosted

ProxyPlayed(g, n) == /\ n \in DOMAIN games[g].guests /\ games[g].guests[n] = "in"
                     /\ <<g, Low[n]>> \notin ghosted

EndedCount == Cardinality({g \in Ended : Completed(g)})

UserAttendance(m) == Cardinality({g \in Ended : Completed(g) /\ UserPlayed(g, m)})

\* One spelling of a name.
ProxyAttendance(n) == Cardinality({g \in Ended : Completed(g) /\ ProxyPlayed(g, n)})

\* All spellings of some names, each row once.
ProxyAttendanceOf(lows) ==
  Cardinality({p \in Ended \X Name : /\ Completed(p[1]) /\ ProxyPlayed(p[1], p[2])
                                     /\ Low[p[2]] \in lows})

-----------------------------------------------------------------------------
(* The boards: every row under the person it folds to.                     *)

Spellings(c) == {n \in Name : Canonical(Low[n]) = c}

\* The leaderboard, its rank and its export.
Attended(c) == (IF c \in Member THEN UserAttendance(c) ELSE 0)
               + SumFunction([n \in Spellings(c) |-> ProxyAttendance(n)])

\* The wrap-up card of the games w.
AttendanceBetween(w, c) ==
  LET Rows(n) == Cardinality({g \in w : Completed(g) /\ ProxyPlayed(g, n)})
  IN (IF c \in Member THEN Cardinality({g \in w : Completed(g) /\ UserPlayed(g, c)}) ELSE 0)
     + SumFunction([n \in Spellings(c) |-> Rows(n)])

\* How many played each of the games w.
SessionsBetween(w) ==
  [g \in {g \in w : Completed(g)} |-> Cardinality({m \in Member : UserPlayed(g, m)})
                                      + Cardinality({n \in Name : ProxyPlayed(g, n)})]

\* The recap of the games w.
PeriodSummary(w) ==
  LET sessions == SessionsBetween(w)
  IN [count |-> Cardinality(DOMAIN sessions),
      slots |-> SumFunction(sessions),
      top |-> [c \in {c \in Who : AttendanceBetween(w, c) > 0} |-> AttendanceBetween(w, c)]]

\* The totals of the group know no names that belong to one person.
GroupTotals ==
  LET members == {p \in Ended \X Member : Completed(p[1]) /\ UserPlayed(p[1], p[2])}
      guests == {p \in Ended \X Name : Completed(p[1]) /\ ProxyPlayed(p[1], p[2])}
  IN [games |-> EndedCount, memberSlots |-> Cardinality(members), guestSlots |-> Cardinality(guests),
      members |-> Cardinality({p[2] : p \in members}), guests |-> Cardinality({p[2] : p \in guests})]

\* /stats group: the totals with the board below them.
GroupStats == [totals |-> GroupTotals,
               slots |-> GroupTotals.memberSlots + GroupTotals.guestSlots,
               board |-> [c \in {Canonical(w) : w \in Who} |-> Attended(c)]]

-----------------------------------------------------------------------------
(* One person.                                                             *)

PlayedGames(members, lows) ==
  {g \in Ended : /\ Completed(g)
                 /\ \/ \E m \in members : UserPlayed(g, m)
                    \/ \E n \in Name : Low[n] \in lows /\ ProxyPlayed(g, n)}

\* Completed games in a row that the person played, whichever name it was under.
Streaks(members, lows) ==
  LET played == PlayedGames(members, lows)
      Row(from, to) == {g \in from..to : Completed(g)}
      Runs(to) == {Cardinality(Row(from, to)) : from \in {f \in Ended : Row(f, to) \subseteq played}}
  IN [current |-> Max(Runs(Len(games)) \cup {0}),
      best |-> Max((UNION {Runs(to) : to \in Ended}) \cup {0})]

MergedAliasNames(m) == LinksTo(m)

\* Slip: a run of games under a merged name is not the member's.
OwnStreaks(m) == Streaks({m}, {})

UserStreaks(m) == Streaks({m}, MergedAliasNames(m))

FoldedProxyStreaks(l) ==
  LET g == AliasGroup(l)
  IN IF g.canonical \in Member THEN UserStreaks(g.canonical)
     ELSE Streaks({}, {g.canonical} \cup g.aliases)

\* The profile.  It reads a name in the spelling its row is kept in, s.
IdentityStats(w, s) ==
  LET g == AliasGroup(w)
      own == g.canonical \in Member
      Games(l) == ProxyAttendance(s[l])
  IN [attended |-> (IF own THEN UserAttendance(g.canonical) ELSE Games(g.canonical))
                   + SumFunction([l \in g.aliases |-> Games(l)]),
      streaks |-> Streaks(IF own THEN {g.canonical} ELSE {},
                          IF own THEN g.aliases ELSE {g.canonical} \cup g.aliases)]

\* Slip: the games under merged names are not the member's.
VotedOnOwn(m) == [attended |-> UserAttendance(m), streaks |-> UserStreaks(m)]

\* The group in the portal.
VotedChats(m) ==
  [attended |-> UserAttendance(m) + ProxyAttendanceOf(MergedAliasNames(m)),
   streaks |-> UserStreaks(m)]

\* Slip: a no-show is listed as played.
VotesListed(g, m) ==
  IF Completed(g) /\ m \in DOMAIN games[g].members THEN {games[g].members[m]} ELSE {"miss"}

\* The sessions page: the member's own row, or those of the merged names.
SessionHistory(g, m) ==
  LET own == m \in DOMAIN games[g].members
      rows == {n \in DOMAIN games[g].guests : Low[n] \in MergedAliasNames(m)}
      Shown(vote, played) == IF vote = "in" /\ ~played THEN "ghost" ELSE vote
  IN IF ~Completed(g) THEN {"cancelled"}
     ELSE IF own THEN {Shown(games[g].members[m], UserPlayed(g, m))}
     ELSE IF rows = {} THEN {"miss"}
     ELSE {Shown(games[g].guests[n], ProxyPlayed(g, n)) : n \in rows}

\* The names the merge page lists under a person.
IdentityGroup(c) == {n \in known : /\ Low[n] \notin discarded
                                   /\ Canonical(Low[n]) = c /\ Low[n] # c}

\* A row of the exported table.
ExportRow(c) == [attended |-> Attended(c),
                 streaks |-> IF c \in Member THEN UserStreaks(c) ELSE FoldedProxyStreaks(c)]

-----------------------------------------------------------------------------
(* Games, no-shows and milestones.                                         *)

\* A link row keeps one spelling of a name; which one is not modelled.
Spelled == {s \in [LowName -> Name] : \A l \in LowName : Low[s[l]] = l}

\* Slip: merged names are other people.
ReachedAsListed(s) ==
  LET game == games[Len(games)]
  IN {<<Canonical(m), UserAttendance(m)>> : m \in {m \in DOMAIN game.members : game.members[m] = "in"}}

\* Who was IN in the last game, under the person each folds to, with the
\* number of games the profile shows for it.
GamesReached(s) ==
  LET game == games[Len(games)]
      in == {m \in DOMAIN game.members : game.members[m] = "in"}
            \cup {Low[n] : n \in {n \in DOMAIN game.guests : game.guests[n] = "in"}}
  IN {<<Canonical(w), IdentityStats(w, s).attended>> : w \in in}

\* Slip: a number that is reached again is announced again.
EveryTime(reached) == {r \in reached : r[2] \in GamesMilestones}

\* What is announced: a milestone somebody is at, for the first time.
CollectBadges(reached) ==
  {r \in reached : r[2] \in GamesMilestones /\ \A p \in stamps : <<p[1], p[2]>> # r}

\* The next game ends, or is cancelled: then nothing is announced.
GameEnds(cancelled, s) ==
  /\ Change /\ Len(games) < Len(Script)
  /\ games' = LET game == Script[Len(games) + 1]
              IN Append(games, [members |-> game.members, guests |-> game.guests,
                                cancelled |-> cancelled])
  /\ known' = known \cup DOMAIN Script[Len(games) + 1].guests
  /\ active' = active \cup DOMAIN Script[Len(games) + 1].members
  /\ UNCHANGED <<links, verdicts, dismissed, ledger, crashes, ghosted>>
  /\ stamps' = stamps \cup (IF cancelled THEN {}
                            ELSE {<<r[1], r[2], Len(games')>> : r \in CollectBadges((GamesReached(s))')})

\* The review of a game's no-shows, one person at a time.
MarkNoShow(g, w) ==
  /\ Change /\ Completed(g) /\ <<g, w>> \notin ghosted
  /\ w \in DOMAIN games[g].members \cup {Low[n] : n \in DOMAIN games[g].guests}
  /\ ghosted' = ghosted \cup {<<g, w>>}
  /\ UNCHANGED <<links, verdicts, dismissed, people, ledger, crashes, games, stamps>>

StandingsInit ==
  /\ Init /\ ghosted = {} /\ stamps = {}
  /\ games = [i \in 1..Opened |-> [members |-> Script[i].members, guests |-> Script[i].guests,
                                   cancelled |-> FALSE]]

StandingsNext ==
  \/ Next /\ UNCHANGED standings
  \/ \E cancelled \in BOOLEAN, s \in Spelled : GameEnds(cancelled, s)
  \/ \E g \in Ended, w \in Who : MarkNoShow(g, w)

StandingsSpec == StandingsInit /\ [][StandingsNext]_boards
-----------------------------------------------------------------------------
(* Properties.                                                             *)

IsPerson(c) == Canonical(c) = c
OneSpelling(c) == /\ c \notin LinksTo(c)
                  /\ \A m, n \in Spellings(c) : Low[m] = Low[n] => m = n
OneRowAGame(c) ==
  \A g \in Ended : Cardinality({n \in DOMAIN games[g].guests : n \in Spellings(c)}
                               \cup {m \in DOMAIN games[g].members : m = c}) <= 1

\* Every screen credits a person with the same games, whatever was merged,
\* unmerged, cancelled or marked in between: the leaderboard, the profile, the
\* portal, the wrap-up card and the export; and the merge page lists the names
\* whose games a person is credited with.  Not for a person with a name in two
\* spellings, which the profile reads in one of them, nor for a name that is an
\* alias of itself, which it reads twice.
ScreensAgree ==
  \A c \in Who : IsPerson(c) /\ OneSpelling(c) =>
    /\ \A s \in Spelled : IdentityStats(c, s) = ExportRow(c)
    /\ AttendanceBetween(Ended, c) = Attended(c)
    /\ c \in Member => VotedChats(c) = ExportRow(c)
    /\ \A n \in Spellings(c) : Low[n] # c /\ ProxyAttendance(n) > 0
                               => n \in IdentityGroup(c) \/ Low[n] \in discarded

\* The sessions page shows as played the games the portal counts beside it,
\* except for one who had two rows in a game.
SessionsMatch ==
  \A m \in Member : OneRowAGame(m) =>
    Cardinality({g \in Ended : "in" \in SessionHistory(g, m)}) = Attended(m)

\* A merge moves games and neither loses nor invents one: the board adds up to
\* the totals of the group, the card of any stretch of games to its recap, and
\* nobody on it played more games than there were, except with two rows in one.
NoGameLost ==
  /\ SumFunction(GroupStats.board) = GroupStats.slots
  /\ \A from \in Ended : LET sum == PeriodSummary(from..Len(games))
                         IN /\ SumFunction(sum.top) = sum.slots
                            /\ \A c \in DOMAIN sum.top : OneRowAGame(c) => sum.top[c] <= sum.count

\* A run is part of the games it is shown beside.
StreaksFit == \A c \in Who : IsPerson(c) => LET row == ExportRow(c)
                                            IN /\ row.streaks.current <= row.streaks.best
                                               /\ row.streaks.best <= row.attended

\* A milestone is announced to a person once, also when a no-show marked later
\* takes a game back and the number is reached again (_games_milestone_once).
ToldOnce == \A p, q \in stamps : <<p[1], p[2]>> = <<q[1], q[2]>> => p = q

\* The numbers on the screens, and what the merge page shows and keeps.
StandingsOK == IdentityOK /\ ScreensAgree /\ SessionsMatch /\ NoGameLost /\ StreaksFit /\ ToldOnce

\* Game #n is announced at the person's real nth: the board shows n then.  Not
\* under a name that the automatic merge gave a second hop.
MilestonesAreReal ==
  [][\A p \in stamps' \ stamps :
       (IsPerson(p[1]) /\ OneSpelling(p[1]))' => (Attended(p[1]))' = p[2]]_stamps
=============================================================================
