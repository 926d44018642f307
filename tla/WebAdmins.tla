------------------------------ MODULE WebAdmins ------------------------------
(***************************************************************************)
(* Who administers one group from the web: the rows of web_admins with     *)
(* their roles, the check that asks Telegram before every request of an    *)
(* administrator (api/web_admin.py), changes of role (services/admin.py),  *)
(* bearer tokens whose issuer is checked again (api/auth.py) and the       *)
(* repair at boot.  Telegram is asked with an await: between the question, *)
(* the answer and what the answer makes the code write, everything else    *)
(* goes on.  Reads and writes of the database do not fail here.            *)
(***************************************************************************)
EXTENDS WebSignIn, SequencesExt

CONSTANTS
    Clients,    \* the people who use the REST interface with a token
    Ttl,        \* how long a verdict on a token's issuer is believed
    MaxNow,     \* bound of the clock
    MaxTurns    \* bound on what happens in Telegram and to the group's mode

ASSUME WebAdminsAssumption == /\ Clients \subseteq Person
                              /\ Ttl \in Nat \ {0}
                              /\ MaxNow \in Nat
                              /\ MaxTurns \in Nat

VARIABLES
    grants,     \* the people with a row, in the order of the rows
    owners,     \* those of them whose role is owner
    locked,     \* /set_admins: only Telegram's administrators count
    telegram,   \* who administers the group in Telegram
    turns,      \* how often telegram or locked changed
    now,
    call,       \* the request each person has in the air
    tokens,     \* the clients who hold a token with the admin scope
    recheck,    \* _admin_recheck_cache: verdict and when it runs out
    stood,      \* when a client was last entitled to administer (history)
    acting      \* who the last step served as administrator (history)

adminVars == <<grants, owners, locked, telegram, turns, now, call, tokens,
               recheck, stood, acting>>

Granted == ToSet(grants)

Nothing  == [what |-> "nothing"]
Nobody   == [asked |-> 0]
NoAnswer == [ok |-> FALSE, until |-> 0]

\* A request that waits for Telegram.  "open" is the group's mode when the
\* request was made, "began" the time, which only a token's request uses.
Awaiting(what) ==
    [what |-> what, open |-> ~locked, says |-> "nothing yet",
     began |-> IF what = "token" THEN now ELSE 0]

WebAdminsTypeOK ==
    /\ grants \in Seq(Person) /\ IsInjective(grants)
    /\ owners \subseteq Granted
    /\ locked \in BOOLEAN
    /\ telegram \subseteq Person
    /\ turns \in 0..MaxTurns /\ now \in 0..MaxNow
    /\ tokens \subseteq Clients
    /\ \A p \in Person : call[p].what \in {"nothing", "weblink", "list", "role",
                                           "turn", "session", "gentoken", "token"}
    /\ \A c \in Clients : /\ recheck[c].ok \in BOOLEAN
                          /\ recheck[c].until \in 0..MaxNow + Ttl
                          /\ stood[c] \in 0..now

AdminInit ==
    /\ grants = <<>> /\ owners = {} /\ locked = FALSE
    /\ telegram \in SUBSET Person
    /\ turns = 0 /\ now = 0
    /\ call = [p \in Person |-> Nothing]
    /\ tokens = {} /\ recheck = [c \in Clients |-> NoAnswer]
    /\ stood = [c \in Clients |-> 0] /\ acting = Nobody

-----------------------------------------------------------------------------
(* Rows and roles. *)

\* set_web_admin: an upsert that leaves the role and the place of a row alone.
Grant(p) ==
    /\ grants' = IF p \in Granted THEN grants ELSE Append(grants, p)
    /\ UNCHANGED owners

\* Slip: the row goes whoever it is.
AnyMayGo(p) == TRUE

\* revoke_admin keeps the row of the only owner.
MayRevoke(p) == ~(p \in owners /\ Cardinality(owners) <= 1)

Revoke(p) ==
    IF MayRevoke(p)
    THEN grants' = RemoveFirst(grants, p) /\ owners' = owners \ {p}
    ELSE UNCHANGED <<grants, owners>>

\* Slip: an owner may also step down alone.
DemoteAny(p, q) == p \in owners /\ q \in owners

\* promote_to_owner and demote_to_admin, for an actor who has to be an owner.
MayPromote(p, q) == p \in owners /\ q \in Granted
MayDemote(p, q)  == p \in owners /\ q \in owners /\ Cardinality(owners) > 1

\* The repair at every boot: the earliest row of a group without an owner.
Repaired == IF owners = {} /\ grants # <<>> THEN {Head(grants)} ELSE owners

-----------------------------------------------------------------------------
(* Entitled: an administrator in Telegram, or anyone with a row while the  *)
(* group is open.  While Telegram is silent the row counts: see Silent.    *)

Stands(c) == c \in telegram \/ (~locked /\ c \in Granted)

Standing(excused) ==
    stood' = [c \in Clients |->
                 IF Stands(c)' \/ c \in excused THEN now' ELSE stood[c]]

-----------------------------------------------------------------------------
(* What follows once the check has said yes or no. *)

\* Slip: believed for the full time once Telegram has answered.
FromTheAnswer(c, ok, began) == [ok |-> ok, until |-> now + Ttl]

\* What a cached verdict is worth: _ADMIN_RECHECK_TTL_SECONDS from the moment
\* the request came, not from the answer.
Verdict(c, ok, began) == [ok |-> ok, until |-> began + Ttl]

\* The end of the check of p's request.
Concluded(p, what, ok, began) ==
    /\ call' = [call EXCEPT ![p] = IF what = "role" /\ ok THEN [what |-> "turn"]
                                                          ELSE Nothing]
    /\ tokens' = IF ok /\ what \in {"session", "gentoken"} THEN tokens \cup {p}
                                                           ELSE tokens
    /\ recheck' = IF what = "token"
                  THEN [recheck EXCEPT ![p] = Verdict(p, ok, began)] ELSE recheck
    /\ acting' = IF what = "token" /\ ok THEN [asked |-> began, who |-> p]
                                         ELSE Nobody

\* check_web_admin_live up to its await: a row is enough in an open group.
AtOnce(p) == ~locked /\ p \in Granted

Check(p, what) ==
    IF AtOnce(p)
    THEN Concluded(p, what, TRUE, now)
    ELSE /\ call' = [call EXCEPT ![p] = Awaiting(what)]
         /\ acting' = Nobody
         /\ UNCHANGED <<tokens, recheck>>

-----------------------------------------------------------------------------
(* Requests. *)

\* /weblink: admin_rights lets everybody pass in an open group.
Weblink(p) ==
    /\ call[p] = Nothing
    /\ IF locked
       THEN /\ call' = [call EXCEPT ![p] = Awaiting("weblink")]
            /\ UNCHANGED <<grants, owners>>
       ELSE Grant(p) /\ UNCHANGED call
    /\ acting' = Nobody
    /\ UNCHANGED <<locked, telegram, turns, now, tokens, recheck>>
    /\ Standing({})

\* require_identity: the pages of the group also take an identity bound to it,
\* signing in for a token does not.
MayAsk(p, what) == p \in identity \/ (what # "session" /\ p \in bound)

\* The pages that ask whether p administers the group; a change of role, which
\* waits for the chat's lock after its check; signing in for a token.
Request(p, what) ==
    /\ call[p] = Nothing /\ MayAsk(p, what)
    /\ what = "session" => p \in Clients
    /\ Check(p, what)
    /\ UNCHANGED <<grants, owners, locked, telegram, turns, now>>
    /\ Standing({})

\* /gentoken asks Telegram whatever the group's mode.
GenToken(p) ==
    /\ call[p] = Nothing /\ p \in Clients
    /\ call' = [call EXCEPT ![p] = Awaiting("gentoken")]
    /\ acting' = Nobody
    /\ UNCHANGED <<grants, owners, locked, telegram, turns, now, tokens, recheck>>
    /\ Standing({})

\* Slip: the last moment counts.
BelievedTooLong(c) == recheck[c] # NoAnswer /\ recheck[c].until >= now

Believed(c) == recheck[c] # NoAnswer /\ recheck[c].until > now

\* require_scope with the verdict of an earlier request, or a check of its own.
UseToken(c) ==
    /\ call[c] = Nothing /\ c \in tokens
    /\ IF Believed(c)
       THEN /\ acting' = IF recheck[c].ok THEN [asked |-> now, who |-> c] ELSE Nobody
            /\ UNCHANGED <<call, tokens, recheck>>
       ELSE Check(c, "token")
    /\ UNCHANGED <<grants, owners, locked, telegram, turns, now>>
    /\ Standing({})

\* get_chat_member answers with what holds in Telegram then, or fails.
TelegramAnswers(p) ==
    /\ call[p] \notin {Nothing, [what |-> "turn"]} /\ call[p].says = "nothing yet"
    /\ \E says \in {IF p \in telegram THEN "admin" ELSE "member", "silent"} :
           call' = [call EXCEPT ![p].says = says]
    /\ acting' = Nobody
    /\ UNCHANGED <<grants, owners, locked, telegram, turns, now, tokens, recheck, stood>>

Heard(p, says) ==
    /\ call[p] \notin {Nothing, [what |-> "turn"]} /\ call[p].says = says
    /\ UNCHANGED <<locked, telegram, turns, now>>

Commands == {"weblink", "gentoken"}

\* Telegram says p is an administrator: the row is written and p passes.
HearsAdmin(p) ==
    /\ Heard(p, "admin")
    /\ IF call[p].what = "gentoken" THEN UNCHANGED <<grants, owners>> ELSE Grant(p)
    /\ Concluded(p, call[p].what, TRUE, call[p].began)
    /\ Standing({})

\* Telegram says p is none: in a locked group the row goes.
HearsMember(p) ==
    /\ Heard(p, "member")
    /\ IF call[p].open \/ call[p].what \in Commands
       THEN UNCHANGED <<grants, owners>> ELSE Revoke(p)
    /\ Concluded(p, call[p].what, FALSE, call[p].began)
    /\ Standing({})

\* Telegram did not answer: in a locked group the row decides.
Silent(p) ==
    /\ Heard(p, "silent")
    /\ UNCHANGED <<grants, owners>>
    /\ LET ok == ~call[p].open /\ call[p].what \notin Commands /\ p \in Granted
       IN  /\ Concluded(p, call[p].what, ok, call[p].began)
           /\ Standing(IF ok THEN {p} ELSE {})

\* web_set_admin_role under the chat's lock; the answer lists the
\* administrators, which is a request with a check of its own.
SetRole(p, q) ==
    /\ call[p] = [what |-> "turn"]
    /\ \/ MayPromote(p, q) /\ owners' = owners \cup {q} /\ Check(p, "list")
       \/ MayDemote(p, q) /\ owners' = owners \ {q} /\ Check(p, "list")
       \/ /\ ~MayPromote(p, q) \/ ~MayDemote(p, q)
          /\ call' = [call EXCEPT ![p] = Nothing] /\ acting' = Nobody
          /\ UNCHANGED <<owners, tokens, recheck>>
    /\ UNCHANGED <<grants, locked, telegram, turns, now>>
    /\ Standing({})

-----------------------------------------------------------------------------
(* Around the requests. *)

Turn == turns < MaxTurns /\ turns' = turns + 1

\* /set_admins and /unset_admins, by an administrator in Telegram.
SetAdmins ==
    /\ Turn /\ telegram # {}
    /\ locked' = ~locked /\ acting' = Nobody
    /\ UNCHANGED <<grants, owners, telegram, now, call, tokens, recheck>>
    /\ Standing({})

TelegramChanges(p) ==
    /\ Turn
    /\ telegram' = IF p \in telegram THEN telegram \ {p} ELSE telegram \cup {p}
    /\ acting' = Nobody
    /\ UNCHANGED <<grants, owners, locked, now, call, tokens, recheck>>
    /\ Standing({})

AdminTick ==
    /\ now < MaxNow /\ now' = now + 1 /\ acting' = Nobody
    /\ UNCHANGED <<grants, owners, locked, telegram, turns, call, tokens, recheck>>
    /\ Standing({})

\* The process starts again: requests in the air and verdicts are gone.
AdminBoot ==
    /\ owners' = Repaired
    /\ call' = [p \in Person |-> Nothing]
    /\ recheck' = [c \in Clients |-> NoAnswer] /\ acting' = Nobody
    /\ UNCHANGED <<grants, locked, telegram, turns, now, tokens>>
    /\ Standing({})

AdminStep ==
    \/ \E p \in Person : \/ Weblink(p)
                         \/ GenToken(p)
                         \/ \E what \in {"list", "role", "session"} : Request(p, what)
                         \/ TelegramAnswers(p)
                         \/ HearsAdmin(p)
                         \/ HearsMember(p)
                         \/ Silent(p)
                         \/ \E q \in Person : SetRole(p, q)
                         \/ TelegramChanges(p)
    \/ \E c \in Clients : UseToken(c)
    \/ SetAdmins
    \/ AdminTick

-----------------------------------------------------------------------------
\* A group that has an owner never loses the last one, whichever way rows and
\* roles go: only owners change roles, and nobody could help a group without.
OwnersKept == [][owners # {} => owners' # {}]_owners

\* A request with an administrator's token goes ahead only if its issuer was
\* entitled to administer the group less than Ttl before it was made: losing
\* the role in Telegram ends a token's power, though the token lives on.
ActsWhileEntitled ==
    acting # Nobody => stood[acting.who] + Ttl > acting.asked

\* The rows stay what they are, and tokens act for those entitled only.
AdminsOK == WebAdminsTypeOK /\ ActsWhileEntitled
=============================================================================
