---------------------------- MODULE MCChatPanels ----------------------------
(* Two rollcalls: the second is renumbered and takes the number the first   *)
(* left.  Two messages and two calls let every pair of calls overlap.  The  *)
(* questions are taken in a chat where no panel could be posted: they share *)
(* with the panels the list of rollcalls alone, and the kinds of question   *)
(* with one another the lists; one kind is taken at a time, and one person,  *)
(* or two that deletions are asked for.                                      *)
EXTENDS AskFirst

CONSTANTS m1, x1, a1, web

MCMember == {m1}
MCGuest  == {x1}
MCAdmin  == {a1}

Quiet    == asks = 0 /\ overdue = {} /\ acts = {} /\ \A id \in Ids, p \in Person : status[id][p] = "none"
NoPanels == msgs = << >> /\ strays = {} /\ \A c \in calls : c.kind = "send" /\ acts = {}
OneTable == \A p, q \in pending \cup prompts : p.kind = q.kind
Touched  == overdue \cup {a.who : a \in acts} \cup {p \in Person : \E id \in Ids : status[id][p] # "none"}
Meant    == Touched \cup {q.who : q \in pending \cup prompts}
NoneAsked == pending \cup prompts = {}
OneMeant  == \/ Cardinality(Meant) <= 1
             \/ /\ overdue = {} /\ Cardinality(Touched) <= 1
                /\ \A q \in pending \cup prompts : q.kind = "delete"
WebAlone  == NoneAsked \/ \A a \in acts : a.by # Web
Apart     == Quiet \/ (NoPanels /\ OneTable /\ WebAlone /\ OneMeant)

MCNext ==
  \/ RollCallsMove /\ Apart'
  \/ NoPanels /\ ChatAsks /\ Apart'
  \/ NoPanels /\ NoneAsked /\ WebChanges /\ Apart'

MCSpec == AskInit /\ [][MCNext]_askVars /\ Pruning
=============================================================================
