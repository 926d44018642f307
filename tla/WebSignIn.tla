------------------------------ MODULE WebSignIn ------------------------------
(***************************************************************************)
(* How a browser learns who sits in front of it: the deep link with its    *)
(* Confirm tap (api/routes/tg_verify.py, handlers/core.py), the link an    *)
(* administrator issues for a member (/weblogin), the personal code of     *)
(* /mytoken, and the login widget; and the app's own principal, recorded   *)
(* at every sign-in and by a thread at boot.  Reads, taps and answers of   *)
(* one code come in any order, also from two processes while one is being  *)
(* replaced.  Signed tokens are the person they name: signatures are not   *)
(* modelled.                                                               *)
(***************************************************************************)
EXTENDS Naturals, Sequences, FiniteSets

CONSTANTS Person, Code, WebLink, NoOne, MaxIssued

\* Codes and links are rows of two tables: nothing is both.
ASSUME WebSignInAssumption == /\ NoOne \notin Person /\ MaxIssued \in Nat
                              /\ Code \cap WebLink = {}

VARIABLES
    verify,     \* web_verify_tokens: the rows
    asked,      \* the Confirm prompts that stand in private chats
    polls,      \* polls that read their code as confirmed
    told,       \* to whom Telegram said "your browser has been verified" (history)
    weblink,       \* web_direct_login_tokens: the rows
    mycode,     \* member_login_tokens: person and number of the code
    issued,     \* how many personal codes were made
    ended,      \* personal codes replaced or turned off (history)
    held,       \* personal codes that reached their owner
    signedIn,   \* what browsers were given: <<by what, as whom>> (history: a bag)
    identity,   \* who has a token that is good everywhere
    bound,      \* who has one for this group alone
    unbound,    \* sign-ins and the boot's thread that found no principal
    principals, \* how many principals were made for a person
    bindings    \* the people whose account is bound to a principal

signInVars == <<verify, asked, polls, told, weblink, mycode, issued, ended, held,
                signedIn, identity, bound, unbound, principals, bindings>>

NoRow    == [state |-> "none", by |-> NoOne, used |-> FALSE]
FreshRow == [state |-> "live", by |-> NoOne, used |-> FALSE]

SignInTypeOK ==
    /\ verify \in [Code -> [state : {"none", "live", "expired"},
                            by : Person \cup {NoOne}, used : BOOLEAN]]
    /\ asked \subseteq Code \X Person
    /\ polls \in [Code -> 0..2]
    /\ weblink \in [WebLink -> [state : {"none", "live", "used", "expired"},
                                for : Person \cup {NoOne}, sent : BOOLEAN]]
    /\ mycode \subseteq Person \X (1..MaxIssued) /\ issued \in 0..MaxIssued
    /\ identity \subseteq Person /\ bound \subseteq Person
    /\ unbound \in [Person -> 0..2]
    /\ bindings \subseteq Person

SignInInit ==
    /\ verify = [c \in Code |-> NoRow] /\ asked = {} /\ polls = [c \in Code |-> 0]
    /\ told = [c \in Code |-> {}]
    /\ weblink = [l \in WebLink |-> [state |-> "none", for |-> NoOne, sent |-> FALSE]]
    /\ mycode = {} /\ issued = 0 /\ ended = {} /\ held = {}
    /\ signedIn = [c \in Code \cup WebLink |-> <<>>]
    /\ identity = {} /\ bound = {}
    /\ unbound = [p \in Person |-> 0] /\ principals = [p \in Person |-> 0]
    /\ bindings = {}

-----------------------------------------------------------------------------
(* Principals: get_or_create looks for a binding and, when there is none,  *)
(* inserts principal and binding in one transaction, which the UNIQUE      *)
(* binding undoes for the one who comes second.                            *)

\* for_telegram, at every sign-in: the look.
Record(p) ==
    /\ unbound' = IF p \in bindings \/ unbound[p] = 2 THEN unbound
                  ELSE [unbound EXCEPT ![p] = @ + 1]
    /\ UNCHANGED <<principals, bindings>>

\* Slip: the principal is committed before its binding is tried.
MadeFirst(p) == [principals EXCEPT ![p] = @ + 1]

\* The insert.
Made(p) == IF p \in bindings THEN principals ELSE [principals EXCEPT ![p] = @ + 1]

MakePrincipal(p) ==
    /\ unbound[p] > 0
    /\ unbound' = [unbound EXCEPT ![p] = @ - 1]
    /\ principals' = Made(p)
    /\ bindings' = bindings \cup {p}
    /\ UNCHANGED <<verify, asked, polls, told, weblink, mycode, issued, ended, held,
                   signedIn, identity, bound>>

\* backfill_from_telegram, in a thread beside the first requests after a boot.
Backfill(p) ==
    /\ p \notin bindings /\ Record(p)
    /\ UNCHANGED <<verify, asked, polls, told, weblink, mycode, issued, ended, held,
                   signedIn, identity, bound>>

GivenBy(c, p) == signedIn' = [signedIn EXCEPT ![c] = Append(@, p)]

-----------------------------------------------------------------------------
(* The deep link. *)

linkVars   == <<weblink, bound>>
mytokenVars == <<mycode, issued, ended, held>>
principalVars == <<unbound, principals, bindings>>

\* tg_verify_start hands the code out also when its row could not be written.
Start(c) ==
    /\ verify[c] = NoRow
    /\ verify' = [verify EXCEPT ![c] = FreshRow]
    /\ UNCHANGED <<asked, polls, told, signedIn, identity, linkVars, mytokenVars, principalVars>>

\* handle_tg_verify: opening the link only asks.
OpenDeepLink(c, p) ==
    /\ verify[c].state = "live" /\ verify[c].by = NoOne /\ ~verify[c].used
    /\ asked' = asked \cup {<<c, p>>}
    /\ UNCHANGED <<verify, polls, told, signedIn, identity, linkVars, mytokenVars, principalVars>>

\* Slip: a second tap takes a confirmed code over.
MayMarkAgain(c) == verify[c].state = "live" /\ ~verify[c].used

\* mark_web_verify_token: an unmarked, unused, unexpired row.
MayMark(c) == verify[c].state = "live" /\ verify[c].by = NoOne /\ ~verify[c].used

\* The Confirm or the Cancel tap; the prompt is edited either way.
Confirm(c, p) ==
    /\ <<c, p>> \in asked /\ asked' = asked \ {<<c, p>>}
    /\ \/ UNCHANGED <<verify, told>>
       \/ /\ MayMark(c)
          /\ verify' = [verify EXCEPT ![c].by = p]
          /\ told' = [told EXCEPT ![c] = @ \cup {p}]
    /\ UNCHANGED <<polls, signedIn, identity, linkVars, mytokenVars, principalVars>>

\* tg_verify_status reads the row: confirmed and not used.
PollReads(c) ==
    /\ verify[c].state = "live" /\ ~verify[c].used /\ verify[c].by # NoOne
    /\ polls[c] < 2
    /\ polls' = [polls EXCEPT ![c] = @ + 1]
    /\ UNCHANGED <<verify, asked, told, signedIn, identity, linkVars, mytokenVars, principalVars>>

\* Slip: what the poll read still holds.
MayConsumeAgain(c) == verify[c].state = "live" /\ verify[c].by # NoOne

\* consume_web_verify_token: a row is used once.
MayConsume(c) == verify[c].state = "live" /\ verify[c].by # NoOne /\ ~verify[c].used

\* The same poll takes the code and answers with an identity; the answer of a
\* poll that came second, or one that failed to read the row back, is "not yet".
PollTakes(c) ==
    /\ polls[c] > 0 /\ polls' = [polls EXCEPT ![c] = @ - 1]
    /\ \/ /\ MayConsume(c)
          /\ verify' = [verify EXCEPT ![c].used = TRUE]
          /\ \/ /\ identity' = identity \cup {verify[c].by}
                /\ GivenBy(c, verify[c].by) /\ Record(verify[c].by)
             \/ UNCHANGED <<identity, signedIn, principalVars>>
       \/ ~MayConsume(c) /\ UNCHANGED <<verify, identity, signedIn, principalVars>>
    /\ UNCHANGED <<asked, told, linkVars, mytokenVars>>

CodeExpires(c) ==
    /\ verify[c].state = "live"
    /\ verify' = [verify EXCEPT ![c].state = "expired"]
    /\ UNCHANGED <<asked, polls, told, signedIn, identity, linkVars, mytokenVars, principalVars>>

\* tg_login and miniapp_auth: Telegram's signature names the person.
WidgetLogin(p) ==
    /\ p \notin identity
    /\ identity' = identity \cup {p} /\ Record(p)
    /\ UNCHANGED <<verify, asked, polls, told, signedIn, linkVars, mytokenVars>>

-----------------------------------------------------------------------------
(* A link issued for a member. *)

verifyVars == <<verify, asked, polls, told>>

\* weblogin_cmd and issue_weblogin: the row first, then the private message to
\* the administrator, or the page's answer, which carry the link.
Issue(l, p) ==
    /\ weblink[l].state = "none"
    /\ weblink' = [weblink EXCEPT ![l] = [state |-> "live", for |-> p, sent |-> FALSE]]
    /\ UNCHANGED <<verifyVars, signedIn, identity, bound, mytokenVars, principalVars>>

\* A link that could not be sent is used up on the spot.
Burned(l) == [weblink EXCEPT ![l].state = "used"]

SendLink(l) ==
    /\ weblink[l].state = "live" /\ ~weblink[l].sent
    /\ \/ weblink' = [weblink EXCEPT ![l].sent = TRUE]
       \/ weblink' = Burned(l)
    /\ UNCHANGED <<verifyVars, signedIn, identity, bound, mytokenVars, principalVars>>

\* Slip: a link is good until it expires.
MayRedeemAgain(l) == weblink[l].state \in {"live", "used"}

\* consume_web_direct_login_token.
MayRedeem(l) == weblink[l].state = "live"

\* weblogin_redeem_post: an identity for the group of the link alone.  Looking
\* at the link (weblogin_redeem) uses nothing up.  The link may be known from
\* the moment its message is sent, also when the bot took the send for failed.
Redeem(l) ==
    /\ MayRedeem(l)
    /\ weblink' = [weblink EXCEPT ![l].state = "used"]
    /\ \/ /\ bound' = bound \cup {weblink[l].for}
          /\ GivenBy(l, weblink[l].for) /\ Record(weblink[l].for)
       \/ UNCHANGED <<bound, signedIn, principalVars>>
    /\ UNCHANGED <<verifyVars, identity, mytokenVars>>

LinkExpires(l) ==
    /\ weblink[l].state = "live"
    /\ weblink' = [weblink EXCEPT ![l].state = "expired"]
    /\ UNCHANGED <<verifyVars, signedIn, identity, bound, mytokenVars, principalVars>>

-----------------------------------------------------------------------------
(* The personal code. *)

Codes(p) == {row \in mycode : row[1] = p}

\* Slip: a row beside the old one.
AddedCode(p, n) == mycode \cup {<<p, n>>}

\* upsert_member_login_token replaces the row of p.
Replaced(p, n) == (mycode \ Codes(p)) \cup {<<p, n>>}

\* mytoken_cmd: the code is replaced before the message with it may fail.
MyToken(p) ==
    /\ issued < MaxIssued /\ issued' = issued + 1
    /\ mycode' = Replaced(p, issued + 1)
    /\ ended' = ended \cup Codes(p)
    /\ held' \in {held, held \cup {<<p, issued + 1>>}}
    /\ UNCHANGED <<verifyVars, signedIn, identity, linkVars, principalVars>>

\* /mytoken off.
MyTokenOff(p) ==
    /\ Codes(p) # {}
    /\ mycode' = mycode \ Codes(p)
    /\ ended' = ended \cup Codes(p)
    /\ UNCHANGED <<verifyVars, issued, held, signedIn, identity, linkVars, principalVars>>

\* member_token_login: any number of times.
MemberLogin(code) ==
    /\ code \in held /\ code \in mycode /\ code[1] \notin identity
    /\ identity' = identity \cup {code[1]} /\ Record(code[1])
    /\ UNCHANGED <<verifyVars, signedIn, linkVars, mytokenVars>>

-----------------------------------------------------------------------------
\* A boot drops polls and looks for principals; the rows stay.
SignInBoot ==
    /\ polls' = [c \in Code |-> 0]
    /\ unbound' = [p \in Person |-> 0]
    /\ UNCHANGED <<verify, asked, told, weblink, mycode, issued, ended, held,
                   signedIn, identity, bound, principals, bindings>>

SignInStep ==
    \/ \E c \in Code : \/ Start(c)
                       \/ \E p \in Person : OpenDeepLink(c, p) \/ Confirm(c, p)
                       \/ PollReads(c)
                       \/ PollTakes(c)
                       \/ CodeExpires(c)
    \/ \E l \in WebLink : \/ SendLink(l)
                          \/ Redeem(l)
                          \/ LinkExpires(l)
    \/ \E p \in Person : \/ WidgetLogin(p)
                         \/ MyToken(p)
                         \/ MyTokenOff(p)
                         \/ MakePrincipal(p)
                         \/ Backfill(p)
    \/ \E code \in held : MemberLogin(code)

-----------------------------------------------------------------------------
\* One code signs in one browser, once, as the one person whom Telegram told
\* so; one link signs in one browser, as the member it was issued for.
OneSignInEach ==
    /\ \A c \in Code : /\ Cardinality(told[c]) <= 1
                       /\ Len(signedIn[c]) <= 1
                       /\ \A i \in DOMAIN signedIn[c] : signedIn[c][i] \in told[c]
    /\ \A l \in WebLink : /\ Len(signedIn[l]) <= 1
                          /\ \A i \in DOMAIN signedIn[l] : signedIn[l][i] = weblink[l].for

\* A person has one personal code at most, and one that was replaced or turned
\* off is never good again.
OneCodeEach ==
    /\ \A r1, r2 \in mycode : r1[1] = r2[1] => r1 = r2
    /\ mycode \cap ended = {}

\* However sign-ins and the boot's thread meet, a person has one principal and
\* no principal is left without its account.
OnePrincipalEach ==
    \A p \in Person : principals[p] = (IF p \in bindings THEN 1 ELSE 0)

SignInsOK == SignInTypeOK /\ OneSignInEach /\ OneCodeEach /\ OnePrincipalEach
=============================================================================
