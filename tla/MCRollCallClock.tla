--------------------------- MODULE MCRollCallClock ---------------------------
(* Two rollcalls in a chat that holds two, one moment after the first, one   *)
(* failure or death.  Three bounds keep what does not meet apart: while      *)
(* anything of the clock is set nobody taps a button and no schedule exists, *)
(* and after an end that broke off the after-open message stays off.         *)
EXTENDS RollCallClock

MCOnce   == {"s1"}
MCAdmins == {"a"}

NoTaps   == taps = {} /\ \A a \in Admins : reasonFor[a] = 0
NoOnce   == \A s \in Once : once[s] = "none"
NoClock  == /\ now = 0 /\ loop = "off"
            /\ \A r \in Ids : mem[r] = Unset /\ owed[r] = 0

Bound == \/ NoTaps /\ NoOnce /\ (afterOpen = 0 \/ cut = {})
         \/ NoClock

MCSpec == /\ TimedInit /\ [][TimedNext /\ Bound']_timedVars
          /\ WF_timedVars(Loop /\ Bound') /\ WF_timedVars(Tick /\ Bound')
=============================================================================
