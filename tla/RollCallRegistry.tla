-------------------------- MODULE RollCallRegistry --------------------------
(***************************************************************************)
(* A chat's open rollcalls: the rows of the table rollcalls, the list the  *)
(* manager keeps in memory and every command addresses by position, and    *)
(* the operations that add to the list and take from it: /rc, /erc, /xrc,  *)
(* the "are you sure?" buttons, which are answered later than they were    *)
(* drawn, and the reason an admin is asked for before a cancellation.      *)
(*                                                                         *)
(* A rollcall is named by the id of its row.  Ids grow with the time of    *)
(* creation, the order in which the rows are loaded.                       *)
(***************************************************************************)
EXTENDS Integers, Sequences, SequencesExt

CONSTANTS Rollcalls,    \* how many rows may be created: ids are 1 .. Rollcalls
          Cap,          \* MAX_ROLLCALLS_PER_CHAT
          Admins,       \* who is asked for a reason
          Mishaps       \* how many writes may fail and how often the bot may die

ASSUME RegistryAssumption == /\ Rollcalls \in Nat
                             /\ Cap \in Nat
                             /\ Mishaps \in Nat

VARIABLES status,       \* the row: not created, active or ended
          cancelled,    \* the rows marked is_cancelled
          list,         \* the chat's rollCalls in memory
          counted,      \* how often the participants' total_rollcalls were raised
          cut,          \* rollcalls whose end or cancellation broke off halfway
          taps,         \* confirmed, waiting for the chat's lock
          reasonFor,    \* the rollcall an admin is giving a reason for, or 0
          mishaps       \* failures and deaths left

registryVars == <<status, cancelled, list, counted, cut, taps, reasonFor, mishaps>>

Ids == 1 .. Rollcalls
OnList == ToSet(list)
Position(r) == CHOOSE i \in DOMAIN list : list[i] = r

OldestFirst(s) == \A i, j \in 1 .. Len(s) : i < j => s[i] < s[j]

\* The active rows, oldest first: what a start loads.
Active == {r \in Ids : status[r] = "active"}
Loaded == {s \in UNION {[1 .. n -> Ids] : n \in 0 .. Rollcalls} :
              ToSet(s) = Active /\ OldestFirst(s)}

RegistryInit == /\ status = [r \in Ids |-> "none"]
                /\ cancelled = {}
                /\ list = <<>>
                /\ counted = [r \in Ids |-> 0]
                /\ cut = {}
                /\ taps = {}
                /\ reasonFor = [a \in Admins |-> 0]
                /\ mishaps = Mishaps

Fails == mishaps > 0 /\ mishaps' = mishaps - 1

ChatIsFull == Len(list) >= Cap

\* The row is inserted, then the rollcall joins the list.
AddRollCall(r) == /\ r \in Ids
                  /\ status[r] = "none"
                  /\ \A q \in Ids : q < r => status[q] # "none"
                  /\ status' = [status EXCEPT ![r] = "active"]
                  /\ list' = Append(list, r)
                  /\ UNCHANGED <<cancelled, counted, cut, taps, reasonFor>>

\* The row is ended first, then the rollcall leaves the list.
RemoveRollCall(r) == /\ status' = [status EXCEPT ![r] = "ended"]
                     /\ list' = RemoveFirst(list, r)

CountIn(r) == counted' = [counted EXCEPT ![r] = @ + 1]

\* Slip: the failed write is swallowed, and the rollcall leaves the list alone.
EndSwallowed(r) ==
    \/ CountIn(r) /\ RemoveRollCall(r) /\ UNCHANGED <<cancelled, cut, mishaps>>
    \/ /\ CountIn(r) /\ Fails /\ cut' = cut \cup {r} /\ list' = RemoveFirst(list, r)
       /\ UNCHANGED <<status, cancelled>>

\* end_rollcall of the services: everyone who voted is counted, then the
\* rollcall is removed.  When the write fails the caller is told so and the
\* rollcall stays, its participants counted.
EndRollCall(r) ==
    \/ CountIn(r) /\ RemoveRollCall(r) /\ UNCHANGED <<cancelled, cut, mishaps>>
    \/ CountIn(r) /\ Fails /\ cut' = cut \cup {r} /\ UNCHANGED <<status, list, cancelled>>

\* Slip: a cancelled rollcall is ended like a played one.
CancelCounted(r) == CountIn(r) /\ RemoveRollCall(r) /\ cancelled' = cancelled \cup {r} /\ UNCHANGED <<cut, mishaps>>

\* cancel_rollcall: the mark is one transaction and the end another.
CancelRollCall(r) ==
    \/ /\ RemoveRollCall(r)
       /\ cancelled' = cancelled \cup {r}
       /\ UNCHANGED <<counted, cut, mishaps>>
    \/ /\ Fails
       /\ \/ cancelled' = cancelled /\ cut' = cut
          \/ cancelled' = cancelled \cup {r} /\ cut' = cut \cup {r}
       /\ UNCHANGED <<status, list, counted>>

EndByCommand == \E r \in OnList : EndRollCall(r) /\ UNCHANGED <<taps, reasonFor>>
CancelByCommand == \E r \in OnList : CancelRollCall(r) /\ UNCHANGED <<taps, reasonFor>>

\* A confirmation button carries the id of its rollcall; a tap is refused when
\* that rollcall is no longer open, and else finds its number.
EndConfirm(r) == [does |-> "end", rc |-> r, number |-> Position(r)]
TapEndConfirm(r) == /\ r \in OnList
                    /\ taps' = taps \cup {EndConfirm(r)}
                    /\ UNCHANGED <<status, cancelled, list, counted, cut, reasonFor, mishaps>>

TapCancelYes(a, r) == /\ r \in OnList
                      /\ reasonFor' = [reasonFor EXCEPT ![a] = r]
                      /\ UNCHANGED <<status, cancelled, list, counted, cut, taps, mishaps>>

\* A typed reason or Skip takes the entry, then waits for the lock.
GiveReason(a) == /\ reasonFor[a] # 0
                 /\ reasonFor' = [reasonFor EXCEPT ![a] = 0]
                 /\ taps' = taps \cup {[does |-> "cancel", rc |-> reasonFor[a], number |-> 0]}
                 /\ UNCHANGED <<status, cancelled, list, counted, cut, mishaps>>

\* An entry nobody answered is dropped.
PrunePending(a) == /\ reasonFor[a] # 0
                   /\ reasonFor' = [reasonFor EXCEPT ![a] = 0]
                   /\ UNCHANGED <<status, cancelled, list, counted, cut, taps, mishaps>>

\* Slip: the confirmed rollcall is looked up by the number it had at the tap.
FoundByNumber(t) == IF t.number \in DOMAIN list THEN list[t.number] ELSE t.rc

\* Under the lock the rollcall is found again, by its id.
Found(t) == t.rc

ExecuteEnd(t) == /\ t.does = "end"
                 /\ taps' = taps \ {t}
                 /\ UNCHANGED reasonFor
                 /\ \/ Found(t) \in OnList /\ EndRollCall(Found(t))
                    \/ /\ Found(t) \notin OnList
                       /\ UNCHANGED <<status, cancelled, list, counted, cut, mishaps>>

ExecuteCancel(t) == /\ t.does = "cancel"
                    /\ taps' = taps \ {t}
                    /\ UNCHANGED reasonFor
                    /\ \/ t.rc \in OnList /\ CancelRollCall(t.rc)
                       \/ /\ t.rc \notin OnList
                          /\ UNCHANGED <<status, cancelled, list, counted, cut, mishaps>>

\* What a start finds: the active rows.  Taps and pending reasons are gone.
LoadChat == /\ list' \in Loaded
            /\ taps' = {}
            /\ reasonFor' = [a \in Admins |-> 0]

\* The bot dies between two operations, inside an end after the counters, or
\* inside a cancellation after the mark.
RestartBot == Fails /\ LoadChat /\ UNCHANGED <<status, cancelled, counted, cut>>
DiesEnding(r) == /\ Fails /\ CountIn(r) /\ cut' = cut \cup {r}
                 /\ UNCHANGED <<status, cancelled>> /\ LoadChat
DiesCancelling(r) == /\ Fails /\ cancelled' = cancelled \cup {r} /\ cut' = cut \cup {r}
                     /\ UNCHANGED <<status, counted>> /\ LoadChat
Dies == RestartBot \/ \E r \in OnList : DiesEnding(r) \/ DiesCancelling(r)

GivesAnswer == \E a \in Admins : \/ \E r \in Ids : TapCancelYes(a, r)
                                 \/ GiveReason(a)
                                 \/ PrunePending(a)

Removals == \/ EndByCommand \/ CancelByCommand
            \/ \E t \in taps : ExecuteEnd(t) \/ ExecuteCancel(t)

\* One more rollcall, unless the chat is full; the write that follows the
\* insertion may fail.
Additions == \E r \in Ids : /\ ~ChatIsFull
                            /\ AddRollCall(r)
                            /\ Fails \/ UNCHANGED mishaps

\* Another write about the rollcalls fails.
WriteFails == Fails /\ UNCHANGED <<status, cancelled, list, counted, cut, taps, reasonFor>>

RegistryNext == \/ Additions \/ WriteFails
                \/ \E r \in Ids : TapEndConfirm(r)
                \/ GivesAnswer \/ Removals \/ Dies

RegistrySpec == RegistryInit /\ [][RegistryNext]_registryVars

-----------------------------------------------------------------------------
Tap == [does : {"end", "cancel"}, rc : Ids, number : Nat]

\* Types of the registry.
RegistryTypeOK == /\ status \in [Ids -> {"none", "active", "ended"}]
                  /\ cancelled \subseteq Ids /\ cut \subseteq Ids
                  /\ list \in Seq(Ids)
                  /\ counted \in [Ids -> Nat]
                  /\ taps \subseteq Tap
                  /\ reasonFor \in [Admins -> Ids \cup {0}]
                  /\ mishaps \in Nat

\* What people see and number is what is stored: the list holds the active
\* rows, each once, oldest first, whatever was added, ended, cancelled or
\* failed, so that a restart neither brings a rollcall back nor renumbers one.
ListIsTheActiveRows == OnList = Active /\ OldestFirst(list)

\* A game that was played raises its participants' total_rollcalls once and a
\* cancelled one never does; only a rollcall whose end or cancellation broke
\* off halfway may be counted otherwise.
CountedOnce == \A r \in Ids \ cut :
                  counted[r] = IF status[r] = "ended" /\ r \notin cancelled THEN 1 ELSE 0

\* A confirmation ends or cancels the rollcall it was asked about, however
\* the numbers moved while it was open.
ConfirmedOnly ==
    [][\A t \in taps : t \notin taps' /\ list' # list => list' = RemoveFirst(list, t.rc)]_registryVars
=============================================================================
