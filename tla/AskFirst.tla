------------------------------ MODULE AskFirst ------------------------------
(***************************************************************************)
(* Changes of a list that the bot asks about before it makes them: a vote  *)
(* or an add for somebody absent too often, a deletion and a move by an    *)
(* admin (handlers/voting, proxy, admin and ghost).  The question is kept  *)
(* in memory by who asked (_pending_reconf, _pending_proxy_add,            *)
(* _pending_deletes, _pending_overrides) and posted with buttons; what is  *)
(* confirmed waits for the chat's write lock, and rollcalls close and      *)
(* renumber before the tap and before the lock.  Web pages and the token   *)
(* API change the same lists and ask nobody.                               *)
(***************************************************************************)
EXTENDS ChatPanels

CONSTANTS
  Member,   \* members who vote
  Guest,    \* guests, by name
  Admin,    \* who adds, deletes and moves others in the chat
  Web,      \* stands for the web pages and the token API
  MaxAsks,  \* bound on the questions ever asked
  MaxActs   \* bound on the changes waiting for the lock at a time

Person == Member \cup Guest

ASSUME AskAssumption ==
  /\ Member \cap Guest = {} /\ Web \notin Member \cup Admin
  /\ {MaxAsks, MaxActs} \subseteq Nat

VARIABLES
  status,   \* per rollcall and person: "none", "in", or "out" for OUT and MAYBE
  overdue,  \* who has reached the absent limit
  pending,  \* the four tables of questions that wait for an answer
  prompts,  \* the questions posted, whose buttons stay
  acts,     \* the changes that wait for the chat's write lock
  asks      \* how many questions were asked

asking  == << status, overdue, pending, prompts, acts, asks >>
askVars == << vars, asking >>

-----------------------------------------------------------------------------
(***************************************************************************)
(* Questions and changes are records: what is to be done, who does it, for *)
(* whom and to which list, in the rollcall of this number or, when it is   *)
(* known, of this id.  Three history fields: "warn" says that the person   *)
(* was absent too often and has not said yes, "asked" which question it    *)
(* is, counted from the first, and "tapped" whose button had it made.      *)
(***************************************************************************)
Change(kind, by, who, to, number, id) ==
  [kind |-> kind, by |-> by, who |-> who, to |-> to, number |-> number, rc |-> id,
   warn |-> FALSE, asked |-> 0, tapped |-> 0]

Warned(q, id) ==
  [q EXCEPT !.warn = q.who \in overdue /\ (q.who \in Member => status[id][q.who] # "in")]

\* One question at a time for each voter and admin; for adds, of each name.
Key(q) == << q.kind, q.by, IF q.kind = "add" THEN q.who ELSE q.by >>
Standing(q) == {p \in pending : Key(p) = Key(q)}

Wait(a) ==
  /\ Cardinality(acts) < MaxActs
  /\ acts' = acts \cup {a}

\* The question is noted before it is posted; the post may fail.
Ask(q) ==
  /\ asks < MaxAsks /\ asks' = asks + 1
  /\ LET new == [q EXCEPT !.asked = asks + 1]
     IN  /\ pending' = (pending \ Standing(q)) \cup {new}
         /\ prompts' \in {prompts, prompts \cup {new}}
  /\ UNCHANGED << status, overdue, acts >>

-----------------------------------------------------------------------------
(***************************************************************************)
(* The gate.                                                               *)
(***************************************************************************)
\* combined_ghost_count against the absent limit, however reviews, merges
\* and clearings move them.
GhostCount(p) ==
  /\ overdue' = SymDiff(overdue, {p})
  /\ UNCHANGED << status, pending, prompts, acts, asks >>

\* Slip: the gate is left open.
NeverNeeded(m, id) == FALSE

ReconfirmationNeeded(m, id) == m \in overdue /\ status[id][m] # "in"

ProxyReconfirmationNeeded(x) == x \in overdue

\* The gate of /in and of the panel's IN button, which knows the id; a
\* question that waits already is not asked again.
Gated(q, id) ==
  IF ReconfirmationNeeded(q.who, id)
  THEN Standing(q) = {} /\ Ask([q EXCEPT !.rc = id])
  ELSE /\ Wait(Warned([q EXCEPT !.kind = "vote"], id))
       /\ UNCHANGED << status, overdue, pending, prompts, asks >>

InUser(m, n) == Gated(Change("reconf", m, m, "in", n, 0), open[n])

TapIn(m, n) == Gated(Change("reconf", m, m, "in", n, open[n]), open[n])

\* /out and /maybe.
OutUser(m, n) ==
  /\ Wait(Change("vote", m, m, "out", n, 0))
  /\ UNCHANGED << status, overdue, pending, prompts, asks >>

\* /sif; the rollcall may be gone, or not there yet.
SetInFor(a, x, n) ==
  IF ProxyReconfirmationNeeded(x)
  THEN Ask(Change("add", a, x, "in", n, IdAt(n)))
  ELSE /\ Wait(Warned(Change("add", a, x, "in", n, 0), IdAt(n)))
       /\ UNCHANGED << status, overdue, pending, prompts, asks >>

\* /sof and /smf.
SetOutFor(a, x, n) ==
  /\ Wait(Change("vote", a, x, "out", n, 0))
  /\ UNCHANGED << status, overdue, pending, prompts, asks >>

\* Without a suffix the first rollcall is meant, gone or not.
DeleteUser(a, p, n) ==
  /\ n \in DOMAIN open \cup {1}
  /\ Ask(Change("delete", a, p, "none", n, IdAt(n)))

SetStatus(a, p, to, n) ==
  /\ status[open[n]][p] \notin {"none", to}
  /\ Ask(Change("move", a, p, to, n, open[n]))

-----------------------------------------------------------------------------
(***************************************************************************)
(* The answers: only who asked, or was asked, may give one.                *)
(***************************************************************************)
\* "I'll be there" or "I'm out"; the buttons know the id, so this works after
\* a restart and a second time as well.
Reconfirm(q, to) ==
  /\ q.kind = "reconf"
  /\ pending' = pending \ Standing(q)
  /\ Wait([q EXCEPT !.kind = "vote", !.to = to, !.tapped = q.asked])
  /\ UNCHANGED << status, overdue, prompts, asks >>

\* By an admin who asked for this guest; taken before Telegram says whether
\* they still are one.  The number is the button's, the id the question's.
ProxyAdd(q) ==
  /\ q.kind = "add"
  /\ \E p \in pending :
       /\ p.kind = "add" /\ p.who = q.who
       /\ pending' = pending \ {p}
       /\ Wait([p EXCEPT !.number = q.number, !.tapped = q.asked]) \/ UNCHANGED acts
  /\ UNCHANGED << status, overdue, prompts, asks >>

\* Slip: the numbers are not compared.
YesToAny(q) ==
  /\ q.kind = "delete"
  /\ \E p \in Standing(q) : pending' = pending \ {p} /\ Wait([p EXCEPT !.tapped = q.asked])
  /\ UNCHANGED << status, overdue, prompts, asks >>

\* Another number than the question's is a mismatch, and the newer question
\* stays.
DeleteConfirmed(q) ==
  /\ q.kind = "delete"
  /\ \E p \in Standing(q) :
       /\ p.number = q.number
       /\ pending' = pending \ {p} /\ Wait([p EXCEPT !.tapped = q.asked])
  /\ UNCHANGED << status, overdue, prompts, asks >>

\* The newest move this admin asked for.
OverrideConfirmed(q) ==
  /\ q.kind = "move"
  /\ \E p \in Standing(q) : pending' = pending \ {p} /\ Wait([p EXCEPT !.tapped = q.asked])
  /\ UNCHANGED << status, overdue, prompts, asks >>

AskCancelled(q) ==
  /\ q.kind \in {"add", "delete", "move"}
  /\ \E p \in Standing(q) :
       /\ q.kind = "delete" => p.number = q.number
       /\ pending' = pending \ {p}
  /\ UNCHANGED << status, overdue, prompts, acts, asks >>

\* Slip: a voter's question is never dropped.
KeepReconf(q) ==
  /\ q.kind # "reconf" /\ pending' = pending \ {q}
  /\ UNCHANGED << status, overdue, prompts, acts, asks >>

\* memory_prune_loop drops a question nobody answered for an hour.
PrunePending(q) ==
  /\ pending' = pending \ {q}
  /\ UNCHANGED << status, overdue, prompts, acts, asks >>

-----------------------------------------------------------------------------
(***************************************************************************)
(* Roads that ask nobody.                                                  *)
(***************************************************************************)
FromWeb(kind, p, to, n, id) ==
  /\ Wait(Change(kind, Web, p, to, n, id))
  /\ UNCHANGED << status, overdue, pending, prompts, asks >>

\* The token API knows numbers only.
CastVote(p, to, n) == FromWeb("vote", p, to, n, 0)

VoteWeb(m, to, id) == FromWeb("vote", m, to, 1, id)

\* Pages loaded before an update send the number only.
WebProxyVote(x, to, n, id) == FromWeb(IF to = "in" THEN "add" ELSE "vote", x, to, n, id)
WebRemoveUser(p, n, id)    == FromWeb("delete", p, "none", n, id)
WebMoveUser(p, to, n, id)  == FromWeb("move", p, to, n, id)

-----------------------------------------------------------------------------
(***************************************************************************)
(* Under the lock.                                                         *)
(***************************************************************************)
\* Slip: the number is what counts.
ByNumber(a) == IdAt(a.number)

\* By id when there is one, open or not at all; else by number.  0 for none.
Resolved(a) == IF a.rc = 0 THEN IdAt(a.number) ELSE IF IsOpen(a.rc) THEN a.rc ELSE 0

\* Slip: somebody who is not found is put where they were to go.
PutBack(a, now) == a.kind = "delete" => now # "none"

\* "Not found now means not found"; a guest is not added twice.
Applies(a, now) ==
  /\ a.kind = "delete" => now # "none"
  /\ a.kind = "move"   => now \notin {"none", a.to}
  /\ a.kind = "add"    => now # "in"

Perform(a) ==
  /\ acts' = acts \ {a}
  /\ LET id == Resolved(a)
     IN  status' = IF id # 0 /\ Applies(a, status[id][a.who])
                   THEN [status EXCEPT ![id][a.who] = a.to] ELSE status
  /\ UNCHANGED << overdue, pending, prompts, asks >>

AskInit ==
  /\ Init
  /\ status = [id \in Ids |-> [p \in Person |-> "none"]]
  /\ overdue = {} /\ pending = {} /\ prompts = {} /\ acts = {} /\ asks = 0

Asking ==
  \/ \E n \in DOMAIN open : \/ \E m \in Member : InUser(m, n) \/ TapIn(m, n) \/ OutUser(m, n)
                            \/ \E a \in Admin, p \in Person, to \in {"in", "out"} : SetStatus(a, p, to, n)
  \/ \E a \in Admin, n \in Numbers : \/ \E x \in Guest : SetInFor(a, x, n) \/ SetOutFor(a, x, n)
                                     \/ \E p \in Person : DeleteUser(a, p, n)

Answering ==
  \/ \E q \in prompts : \/ \E to \in {"in", "out"} : Reconfirm(q, to)
                        \/ ProxyAdd(q) \/ DeleteConfirmed(q) \/ OverrideConfirmed(q) \/ AskCancelled(q)
  \/ \E q \in pending : PrunePending(q)

Unasked ==
  \E n \in DOMAIN open, to \in {"in", "out"} : \E id \in {0, open[n]} :
    \/ \E p \in Person : CastVote(p, to, n) \/ WebRemoveUser(p, n, id) \/ WebMoveUser(p, to, n, id)
    \/ \E m \in Member : id # 0 /\ VoteWeb(m, to, id)
    \/ \E x \in Guest  : WebProxyVote(x, to, n, id)

\* A restart forgets the questions and drops what waits.
Forget ==
  /\ pending' = {} /\ acts' = {}
  /\ UNCHANGED << status, overdue, prompts, asks >>

RollCallsMove ==
  \/ ChatStep /\ UNCHANGED asking
  \/ Restart /\ Forget

ChatAsks ==
  /\ \/ Asking \/ Answering
     \/ \E p \in Person : GhostCount(p)
     \/ \E a \in acts : Perform(a)
  /\ UNCHANGED vars

WebChanges == Unasked /\ UNCHANGED vars

AskNext == RollCallsMove \/ ChatAsks \/ WebChanges

AskSpec == AskInit /\ [][AskNext]_askVars

\* memory_prune_loop runs as long as the process does and survives its errors.
PruneAnswer(m) == \E q \in pending : q.kind = "reconf" /\ q.by = m /\ PrunePending(q) /\ UNCHANGED vars

Pruning == \A m \in Member : WF_askVars(PruneAnswer(m))

FairAskSpec == AskSpec /\ Pruning

-----------------------------------------------------------------------------
\* Each table keeps one question per voter and admin, adds one per name; no two
\* questions have a number in common.
AskTypeOK ==
  /\ overdue \subseteq Person /\ asks \in 0..MaxAsks /\ Cardinality(acts) <= MaxActs
  /\ \A id \in Ids, p \in Person : status[id][p] \in {"none", "in", "out"}
  /\ \A q \in pending : Standing(q) = {q}
  /\ \A p, q \in pending \cup prompts : p.asked = q.asked => p = q
  /\ \A q \in pending \cup prompts \cup acts : q.who \in Person /\ q.rc \in 0..created

\* What changed in a step, and the change that did it.
Altered(id, p) == status'[id][p] # status[id][p]
Did(id, p, Fits(_)) == \E a \in acts \ acts' : a.who = p /\ Fits(a)

\* What a posted question offers: this person, this rollcall, this list (a
\* voter is asked which).
Offers(q, a) ==
  /\ a.who = q.who /\ a.rc = q.rc
  /\ \/ q.kind = "reconf" /\ a.kind = "vote"
     \/ q.kind = a.kind /\ q.to = a.to

\* The tapper has asked again: for deletions and moves a newer question of
\* theirs took its place, whomever that is about, and a deletion must have the
\* number in common; for an add it is their own question for the same guest.
Superseded(q, a) ==
  /\ q.kind = a.kind /\ (a.by = q.by => a.asked > q.asked)
  /\ q.kind = "add" => a.who = q.who
  /\ q.kind \in {"delete", "move"} => a.by = q.by
  /\ q.kind = "delete" => a.number = q.number

\* What was tapped or sent for one rollcall changes that one or none, whatever
\* closed, started and renumbered before the tap and before the lock.  A Yes
\* does what the question under it offered, the person and the list too, or
\* what the tapper asked later.
LandsWhereAsked ==
  [][\A id \in Ids, p \in Person : Altered(id, p) =>
       LET Fits(a) == /\ a.rc \in {0, id}
                      /\ a.tapped # 0 => \E q \in prompts : q.asked = a.tapped /\ (Offers(q, a) \/ Superseded(q, a))
       IN  IsOpen(id) /\ Did(id, p, Fits)]_asking

\* Nobody absent too often is put IN from the chat, by a vote or as a guest,
\* but by a yes to the question: unless they were IN when they voted.
NobodyInUnasked ==
  [][\A id \in Ids, p \in Person : Altered(id, p) /\ status'[id][p] = "in" =>
       LET Fits(a) == ~a.warn IN Did(id, p, Fits)]_asking

\* "Not found now means not found": who is on no list any more is put on one
\* by a vote or an add, never by a move confirmed after they were deleted.
NotBroughtBack ==
  [][\A id \in Ids, p \in Person : Altered(id, p) /\ status[id][p] = "none" =>
       LET Fits(a) == a.kind \in {"vote", "add"} IN Did(id, p, Fits)]_asking

\* Nobody is locked out of voting IN by a question whose post was lost: the
\* one that stands is answered or dropped.
NobodyLockedOut ==
  \A m \in Member : (\E q \in pending : q.kind = "reconf" /\ q.by = m)
                      ~> ~ \E q \in pending : q.kind = "reconf" /\ q.by = m

\* What is asked first is done as asked, or not at all, and can be asked again.
AskedFirst == LandsWhereAsked /\ NobodyInUnasked /\ NotBroughtBack /\ NobodyLockedOut

\* The panels and the questions of a chat are in order.
ChatOK == PanelsOK /\ AskTypeOK
=============================================================================
