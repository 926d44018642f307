----------------------------- MODULE ChatOutbox -----------------------------
(***************************************************************************)
(* chat_outbox.deliver for one chat: every message the bot posts goes out  *)
(* directly until Telegram refuses one (429), and from then on one at a    *)
(* time, first come first served, after the time Telegram asked for and a  *)
(* second after the one before.  A step is what runs between two awaits;   *)
(* taking the asyncio lock is a step of its own.  Telegram is external and *)
(* may accept, refuse or fail any call; a call that failed may have been   *)
(* posted all the same.                                                    *)
(***************************************************************************)
EXTENDS Naturals, Sequences, FiniteSets, SequencesExt

CONSTANTS
  Sends,       \* the messages, each handed to deliver() once
  Uploads,     \* those with files: retry=False
  MaxWait,     \* MAX_WAIT
  Spacing,     \* RECOVERY_SPACING
  RetryAfters, \* what Telegram may ask for; 0 for a malformed answer
  LastStart    \* bound on the time at which the last message is sent

ASSUME SendsAssumption == Uploads \subseteq Sends
ASSUME TimesAssumption ==
  /\ MaxWait \in Nat \ {0} /\ Spacing \in Nat \ {0} /\ LastStart \in Nat
  /\ RetryAfters \subseteq Nat

VARIABLES
  now,      \* the monotonic clock
  state,    \* where each deliver() stands
  made,     \* when it was called
  queue,    \* the sends counted by _queued, the holder of _chat_locks first
  blocked,  \* _blocked_until; 0 when the chat is not in it
  wake,     \* when the sleeping holder wakes; 0 when none sleeps
  posted,   \* history: what Telegram posted, in order
  entered   \* history: the sends that ever queued, in order

vars == << now, state, made, queue, blocked, wake, posted, entered >>

Over    == {"posted", "gaveup", "refused", "failed"}
States  == Over \cup {"idle", "direct", "waiting", "asleep", "calling"}
LastTime == LastStart + MaxWait

Outstanding == {"direct", "calling"}

Latest(a, b) == IF a > b THEN a ELSE b

Deadline(s) == made[s] + MaxWait

\* Slip: Telegram's number is taken as it is.
RawRetryAfter(ra) == ra

\* At least a second, so that a malformed answer cannot make the loop spin.
RetryAfter(ra) == Latest(1, ra)

Recovering == blocked > now \/ queue # << >>

Call(s, how) == state' = [state EXCEPT ![s] = how]

-----------------------------------------------------------------------------
(***************************************************************************)
(* Entering and leaving the recovery queue.                                *)
(***************************************************************************)
Enqueue(s) ==
  /\ state' = [state EXCEPT ![s] = "waiting"]
  /\ queue' = Append(queue, s)
  /\ entered' = Append(entered, s)

\* Slip: a send that leaves is still counted.
StayCounted(s, until) == UNCHANGED queue /\ blocked' = until

\* The finally clause: the last one out drops the chat from every table.
LeaveQueue(s, until) ==
  /\ queue' = Tail(queue)
  /\ blocked' = IF Len(queue) = 1 THEN 0 ELSE until

\* Slip: a send refused in its turn goes to the back of the queue.
BackOfQueue(s, until) == queue' = Append(Tail(queue), s) /\ blocked' = until

\* A refused send goes round the loop again and keeps the lock.
KeepTurn(s, until) == UNCHANGED queue /\ blocked' = until

\* _note_refused: the later of what was asked before and now.
NoteRefused(ra) == Latest(blocked, now + RetryAfter(ra))

-----------------------------------------------------------------------------
Deliver(s) ==
  /\ state[s] = "idle" /\ now <= LastStart
  /\ made' = [made EXCEPT ![s] = now]
  /\ IF Recovering THEN Enqueue(s)
                   ELSE Call(s, "direct") /\ UNCHANGED << queue, entered >>
  /\ UNCHANGED << now, blocked, wake, posted >>

DirectPosted(s) ==
  /\ state[s] = "direct"
  /\ state' = [state EXCEPT ![s] = "posted"]
  /\ posted' = Append(posted, s)
  /\ UNCHANGED << now, made, queue, blocked, wake, entered >>

DirectRefused(s, ra) ==
  /\ state[s] = "direct"
  /\ IF s \in Uploads
     THEN state' = [state EXCEPT ![s] = "refused"] /\ UNCHANGED << queue, entered >>
     ELSE Enqueue(s)
  /\ blocked' = NoteRefused(ra)
  /\ UNCHANGED << now, made, wake, posted >>

\* Any other error, of a message that was posted or was not.
DirectFailed(s) ==
  /\ state[s] = "direct"
  /\ state' = [state EXCEPT ![s] = "failed"]
  /\ posted' \in {posted, Append(posted, s)}
  /\ UNCHANGED << now, made, queue, blocked, wake, entered >>

\* The holder of the lock looks at the clock: give up, sleep or call.
Turn(s) ==
  /\ queue # << >> /\ s = Head(queue) /\ state[s] = "waiting"
  /\ \/ /\ blocked > now /\ blocked > Deadline(s)
        /\ state' = [state EXCEPT ![s] = "gaveup"]
        /\ LeaveQueue(s, blocked)
        /\ UNCHANGED wake
     \/ /\ blocked > now /\ blocked <= Deadline(s)
        /\ state' = [state EXCEPT ![s] = "asleep"]
        /\ wake' = blocked
        /\ UNCHANGED << queue, blocked >>
     \/ /\ blocked <= now
        /\ Call(s, "calling")
        /\ UNCHANGED << queue, blocked, wake >>
  /\ UNCHANGED << now, made, posted, entered >>

\* It wakes and calls, without another look at the clock.
Wake(s) ==
  /\ state[s] = "asleep" /\ wake <= now
  /\ Call(s, "calling")
  /\ wake' = 0
  /\ UNCHANGED << now, made, queue, blocked, posted, entered >>

TurnPosted(s) ==
  /\ state[s] = "calling"
  /\ state' = [state EXCEPT ![s] = "posted"]
  /\ posted' = Append(posted, s)
  /\ LeaveQueue(s, Latest(blocked, now + Spacing))
  /\ UNCHANGED << now, made, wake, entered >>

TurnRefused(s, ra) ==
  /\ state[s] = "calling"
  /\ IF s \in Uploads
     THEN state' = [state EXCEPT ![s] = "refused"] /\ LeaveQueue(s, NoteRefused(ra))
     ELSE state' = [state EXCEPT ![s] = "waiting"] /\ KeepTurn(s, NoteRefused(ra))
  /\ UNCHANGED << now, made, wake, posted, entered >>

\* Slip: any error is retried.
RetryFailed(s) ==
  /\ state[s] = "calling"
  /\ state' = [state EXCEPT ![s] = "waiting"]
  /\ posted' \in {posted, Append(posted, s)}
  /\ KeepTurn(s, blocked)
  /\ UNCHANGED << now, made, wake, entered >>

TurnFailed(s) ==
  /\ state[s] = "calling"
  /\ state' = [state EXCEPT ![s] = "failed"]
  /\ posted' \in {posted, Append(posted, s)}
  /\ LeaveQueue(s, blocked)
  /\ UNCHANGED << now, made, wake, entered >>

\* By LastTime nobody waits for the clock any more: it may stand still.
Tick ==
  /\ now' = IF now < LastTime THEN now + 1 ELSE now
  /\ UNCHANGED << state, made, queue, blocked, wake, posted, entered >>

Init ==
  /\ now = 0 /\ blocked = 0 /\ wake = 0
  /\ state = [s \in Sends |-> "idle"]
  /\ made = [s \in Sends |-> 0]
  /\ queue = << >> /\ posted = << >> /\ entered = << >>

Answer(s) ==
  \/ DirectPosted(s) \/ DirectFailed(s) \/ TurnPosted(s) \/ TurnFailed(s)
  \/ \E ra \in RetryAfters : DirectRefused(s, ra) \/ TurnRefused(s, ra)

Next ==
  \/ \E s \in Sends : Deliver(s) \/ Turn(s) \/ Wake(s) \/ Answer(s)
  \/ Tick

\* Time passes, the event loop runs what is ready, and a call is answered
\* (or times out as an error).
Fairness ==
  /\ WF_vars(Tick)
  /\ \A s \in Sends : WF_vars(Turn(s)) /\ WF_vars(Wake(s)) /\ WF_vars(Answer(s))

Spec == Init /\ [][Next]_vars /\ Fairness

-----------------------------------------------------------------------------
\* The queue is the sends in recovery, and only its head calls or sleeps.
TypeOK ==
  /\ now \in 0..LastTime /\ state \in [Sends -> States]
  /\ ToSet(queue) = {s \in Sends : state[s] \in {"waiting", "asleep", "calling"}}
  /\ IsInjective(queue)
  /\ \A s \in Sends : state[s] \in {"asleep", "calling"} => s = Head(queue)

\* No message is posted twice: only a refused call is repeated, and uploads
\* never are.
PostedOnce == IsInjective(posted)

\* During recovery messages go out in the order they queued, whatever is
\* refused, fails or is given up in between.
FirstInFirstOut ==
  \A i, j \in DOMAIN posted :
     i < j /\ {posted[i], posted[j]} \subseteq ToSet(entered) =>
       \E k, l \in DOMAIN entered :
         k < l /\ entered[k] = posted[i] /\ entered[l] = posted[j]

\* Every message handed to deliver() is posted, given up or reported.
EveryoneFinishes ==
  \A s \in Sends : state[s] # "idle" ~> state[s] \in Over

\* Rate-limit recovery neither repeats a message nor reorders the queue.
OutboxOK == TypeOK /\ PostedOnce /\ FirstInFirstOut
=============================================================================
