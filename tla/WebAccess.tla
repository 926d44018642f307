------------------------------ MODULE WebAccess ------------------------------
(***************************************************************************)
(* Sign-ins and administrators of one group together: a browser asks as    *)
(* whom it was signed in, a link for a member takes an administrator in    *)
(* Telegram, and a boot reaches both.                                      *)
(***************************************************************************)
EXTENDS WebAdmins

accessVars == <<adminVars, signInVars>>

AccessInit == AdminInit /\ SignInInit

\* is_telegram_chat_admin asks Telegram whatever the group's mode.
IssueLink(l, p) ==
    telegram # {} /\ Issue(l, p) /\ UNCHANGED adminVars

Boot == AdminBoot /\ SignInBoot

AccessNext ==
    \/ AdminStep /\ UNCHANGED signInVars
    \/ SignInStep /\ UNCHANGED adminVars
    \/ \E l \in WebLink, p \in Person : IssueLink(l, p)
    \/ Boot

AccessSpec == AccessInit /\ [][AccessNext]_accessVars
=============================================================================
