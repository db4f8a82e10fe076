------------------------------- MODULE Sessions -------------------------------
(***************************************************************************)
(* Who is signed in: the browser keeps an access token and the user it     *)
(* shows (AuthContext), sends both kinds of token along (api/client.ts),   *)
(* and the server checks them (middleware/csrf.ts, auth.ts) against what   *)
(* it has issued and revoked (user, jwt, tokenBlacklist services).  PageCalls  *)
(* of one page overlap; Redis comes and goes; the process restarts.        *)
(*                                                                         *)
(* Abstracted: passwords and signatures, which are right or wrong; audit   *)
(* rows.  A revocation is kept for a day, as long as a token is valid by   *)
(* default, so it does not lapse before its token.  The refresh of a token *)
(* changes nothing: jwt.sign refuses the claims that it is given back.     *)
(***************************************************************************)
EXTENDS Naturals, FiniteSets, Sequences

CONSTANTS
  Email, Holder,  \* people; those who may have the account there is at first
  PageCall,     \* calls of the page
  TokenBound,   \* bound: tokens issued
  BeginBound,   \* bound: calls made
  TroubleBound  \* bound: failures, restarts, cookies lost

\* The page's own question who is signed in
PageCheck == "check"

ASSUME SessionAssumption ==
  /\ Holder \subseteq Email /\ IsFiniteSet(PageCall) /\ PageCheck \notin PageCall
  /\ TokenBound \in Nat \ {0} /\ BeginBound \in Nat /\ TroubleBound \in Nat

VARIABLES
  accounts,   \* e-mail addresses that have a row
  issued,     \* access tokens: owner, whether expired
  revoked,    \* tokens listed in Redis, and in the memory of the process
  redisUp,
  browser,    \* token in local storage, user shown, CSRF token in memory and in the cookie
  calling,    \* each call, and the check of /auth/me
  began, bother,
  toldGone,   \* history: tokens whose owner was told that they are revoked
  forgotten,  \* history: of those, the ones a restart has forgotten
  overtaken   \* history: somebody signed in while the first check was under way

sessionVars == <<accounts, issued, revoked, redisUp, browser, calling, began, bother, toldGone,
                 forgotten, overtaken>>

PageCalls == PageCall \cup {PageCheck}
NoToken == 0
AccessToken == 1..Len(issued)
NotCalling == [op |-> "none", at |-> "idle", who |-> {}, token |-> NoToken, csrf |-> NoToken,
               cookie |-> NoToken, retried |-> FALSE, gone |-> FALSE, shaken |-> FALSE]

StateChanging == {"write", "logout", "login", "register"}
SkipCsrfProtection == {"login", "register", "sso", "me"}
Authenticated == {"write", "logout", "me"}

SessionTypeOK ==
  /\ accounts \subseteq Email
  /\ issued \in Seq([owner : Email, expired : BOOLEAN]) /\ Len(issued) <= TokenBound
  /\ revoked.redis \cup revoked.memory \subseteq AccessToken /\ redisUp \in BOOLEAN
  /\ browser.token \in AccessToken \cup {NoToken} /\ browser.user \in SUBSET Email
  /\ Cardinality(browser.user) <= 1
  /\ began \in 0..BeginBound /\ bother \in 0..TroubleBound

\* A page opens in a browser that may hold a token from before
SessionInit ==
  \E e \in Holder, left \in {"none", "valid", "expired"} :
    /\ accounts = {e} /\ redisUp \in BOOLEAN
    /\ revoked = [redis |-> {}, memory |-> {}]
    /\ issued = IF left = "none" THEN <<>> ELSE <<[owner |-> e, expired |-> left = "expired"]>>
    /\ browser = [token |-> Len(issued), user |-> {}, csrf |-> NoToken, cookie |-> NoToken,
                  checks |-> 0, superseded |-> FALSE]
    /\ calling = [c \in PageCalls |->
         IF c = PageCheck /\ left # "none"
         THEN [NotCalling EXCEPT !.op = "me", !.at = "sent", !.token = 1]
         ELSE NotCalling]
    /\ began = 0 /\ bother = 0 /\ toldGone = {} /\ forgotten = {} /\ overtaken = FALSE

SessionTrouble == bother < TroubleBound /\ bother' = bother + 1
ServerRests == UNCHANGED <<accounts, issued, revoked, redisUp, toldGone, forgotten>>
PageRests == UNCHANGED <<browser, began, overtaken>>
CallGoes(c, at) == calling' = [calling EXCEPT ![c].at = at]
CallEnds(c) == [calling EXCEPT ![c] = NotCalling]
Failed(c) == IF c = PageCheck THEN [NotCalling EXCEPT !.at = "failed"] ELSE NotCalling
-----------------------------------------------------------------------------
\* The page.  apiFetch asks for a CSRF token first when it has none
SendCall(call, b) ==
  LET read(token) == IF call.op \in SkipCsrfProtection THEN NoToken ELSE token IN
  [call EXCEPT !.token = b.token, !.csrf = read(b.csrf), !.cookie = read(b.cookie), !.at = "sent"]
AskCsrf(call, b) == [call EXCEPT !.cookie = b.cookie, !.at = "asks"]

BeginCall(c, op, who) ==
  LET call == [NotCalling EXCEPT !.op = op, !.who = who] IN
  /\ calling[c].at = "idle" /\ began < BeginBound /\ began' = began + 1
  /\ op \in {"login", "register"} => Len(issued) < TokenBound
  /\ calling' = [calling EXCEPT ![c] =
       IF op \in StateChanging /\ browser.csrf = NoToken THEN AskCsrf(call, browser)
       ELSE SendCall(call, browser)]
  /\ UNCHANGED <<browser, bother, overtaken>> /\ ServerRests

\* Calls that try again know when the cookie has changed under them
Shake(cookie, calls) ==
  [c \in PageCalls |->
     [calls[c] EXCEPT !.shaken = @ \/ (calls[c].retried /\ cookie # browser.cookie)]]

\* One that nobody holds
NewCsrfToken ==
  LET held == {browser.csrf, browser.cookie}
                \cup UNION {{calling[c].csrf, calling[c].cookie} : c \in PageCalls} IN
  CHOOSE t \in 1..(Cardinality(held) + 1) : t \notin held

\* csrfTokenHandler repeats the token of the cookie, or makes one
CsrfAnswered(c) ==
  LET token == IF calling[c].cookie # NoToken THEN calling[c].cookie ELSE NewCsrfToken IN
  /\ calling[c].at = "asks"
  /\ calling' = Shake(token, [calling EXCEPT ![c].at = "reads", ![c].csrf = token])
  /\ browser' = [browser EXCEPT !.cookie = token]
  /\ UNCHANGED <<began, bother, overtaken>> /\ ServerRests

\* fetchCsrfToken keeps the token it has read, and the call goes out
CsrfRead(c) ==
  LET page == [browser EXCEPT !.csrf = calling[c].csrf] IN
  /\ calling[c].at = "reads"
  /\ browser' = page
  /\ calling' = [calling EXCEPT ![c] = SendCall(@, page)]
  /\ UNCHANGED <<began, bother, overtaken>> /\ ServerRests

\* 403: once more with another CSRF token, and no more than once
CsrfForbidden(c) ==
  /\ calling[c].at = "forbidden"
  /\ calling' = IF calling[c].retried THEN [calling EXCEPT ![c].at = "rejected"]
                ELSE [calling EXCEPT ![c] = [AskCsrf(@, browser) EXCEPT !.retried = TRUE]]
  /\ PageRests /\ UNCHANGED bother /\ ServerRests

\* Whatever call is answered 401, the stored token goes, though it may be another by now
Unauthorized(c) ==
  /\ calling[c].at = "unauthorized"
  /\ browser' = [browser EXCEPT !.token = NoToken, !.user = IF c = PageCheck THEN {} ELSE @,
                                !.checks = IF c = PageCheck THEN 1 ELSE @]
  /\ calling' = CallEnds(c)
  /\ UNCHANGED <<began, bother, overtaken>> /\ ServerRests

\* The check fails in another way: nobody is shown; the token stays if there was no answer
CheckFails ==
  /\ calling[PageCheck].at = "failed"
  /\ \E token \in {browser.token, NoToken} :
       browser' = [browser EXCEPT !.user = {}, !.checks = 1, !.token = token]
  /\ calling' = CallEnds(PageCheck)
  /\ UNCHANGED <<began, bother, overtaken>> /\ ServerRests

ShowUser ==
  /\ calling[PageCheck].at = "ok"
  /\ browser' = [browser EXCEPT !.user = calling[PageCheck].who, !.checks = 1]
  /\ calling' = CallEnds(PageCheck)
  /\ UNCHANGED <<began, bother, overtaken>> /\ ServerRests

\* A check whose result nobody waits for any more still clears what it clears
Superseded == browser.superseded \/ calling[PageCheck].at # "idle"

SupersededFails ==
  /\ browser.superseded
  /\ \E token \in {browser.token, NoToken} :
       browser' = [browser EXCEPT !.user = {}, !.token = token, !.superseded = FALSE]
  /\ UNCHANGED <<calling, began, bother, overtaken>> /\ ServerRests

\* loginMutation, registerMutation: the query for the user is fetched again, but not
\* when its first fetch is still under way
SignedIn(c) ==
  LET first == calling[PageCheck].at # "idle" /\ browser.checks = 0
      me == [NotCalling EXCEPT !.op = "me"]
      page == [browser EXCEPT !.token = calling[c].token, !.user = calling[c].who,
                              !.superseded = IF first THEN @ ELSE Superseded] IN
  /\ calling[c].op \in {"login", "register"} /\ calling[c].at = "ok"
  /\ browser' = page
  /\ calling' = IF first THEN CallEnds(c)
                ELSE [CallEnds(c) EXCEPT ![PageCheck] = SendCall(me, page)]
  /\ overtaken' = (overtaken \/ first)
  /\ UNCHANGED <<began, bother>> /\ ServerRests

\* logoutMutation clears the queries too, and with them a check under way
SignedOut(c) ==
  /\ calling[c].op = "logout" /\ calling[c].at = "ok"
  /\ browser' = [browser EXCEPT !.token = NoToken, !.user = {}, !.checks = 1,
                                !.superseded = Superseded]
  /\ calling' = [CallEnds(c) EXCEPT ![PageCheck] = NotCalling]
  /\ UNCHANGED <<began, bother, overtaken>> /\ ServerRests

\* A call that changes nothing on the page
CallHeard(c) ==
  /\ calling[c].at = "rejected" \/ (calling[c].at = "ok" /\ calling[c].op = "write")
  /\ calling' = CallEnds(c) /\ PageRests /\ UNCHANGED bother /\ ServerRests
-----------------------------------------------------------------------------
\* The server
ListedAnywhere(t) == (redisUp /\ t \in revoked.redis) \/ t \in revoked.memory

\* Mutant: only Redis is asked
ListedInRedis(t) == redisUp /\ t \in revoked.redis

isBlacklisted(t) == ListedAnywhere(t)

\* doubleCsrfProtection, then authenticate up to the list of revoked tokens
Receive(c) ==
  LET me == calling[c]
      forbidden == me.op \notin SkipCsrfProtection /\ me.csrf \notin {me.cookie} \ {NoToken}
      refused == me.op \in Authenticated /\ (me.token = NoToken \/ isBlacklisted(me.token)) IN
  /\ me.at = "sent"
  /\ calling' = [calling EXCEPT
       ![c].at = IF forbidden THEN "forbidden" ELSE IF refused THEN "unauthorized" ELSE "checked",
       ![c].csrf = NoToken, ![c].cookie = NoToken,
       ![c].gone = /\ me.op \in Authenticated
                   /\ me.token \in toldGone \ forgotten /\ (me.token \in revoked.redis => redisUp)]
  /\ PageRests /\ UNCHANGED bother /\ ServerRests

\* The signature and the age of the token, then the user, then the handler
GetCurrentUser ==
  LET me == calling[PageCheck] IN
  /\ me.at = "checked"
  /\ calling' = [calling EXCEPT
       ![PageCheck].at = IF issued[me.token].expired THEN "unauthorized" ELSE "ok",
       ![PageCheck].who = {issued[me.token].owner}]
  /\ PageRests /\ UNCHANGED bother /\ ServerRests

WriteChecked(c) ==
  LET me == calling[c] IN
  /\ me.op = "write" /\ me.at = "checked"
  /\ CallGoes(c, IF issued[me.token].expired THEN "unauthorized" ELSE "ok")
  /\ PageRests /\ UNCHANGED bother /\ ServerRests

\* logout lists the token, in memory when Redis does not take it
Revoke(c) ==
  LET me == calling[c] IN
  /\ me.op = "logout" /\ me.at = "checked"
  /\ IF issued[me.token].expired THEN CallGoes(c, "unauthorized") /\ UNCHANGED revoked
     ELSE /\ CallGoes(c, "revoked")
          /\ revoked' = IF redisUp THEN [revoked EXCEPT !.redis = @ \cup {me.token}]
                        ELSE [revoked EXCEPT !.memory = @ \cup {me.token}]
  /\ PageRests /\ UNCHANGED <<bother, accounts, issued, redisUp, toldGone, forgotten>>

\* The user's row is touched; when that fails the logout does, its token revoked
LogoutEnds(c) ==
  /\ calling[c].at = "revoked"
  /\ \/ CallGoes(c, "ok") /\ toldGone' = toldGone \cup {calling[c].token} /\ UNCHANGED bother
     \/ calling' = CallEnds(c) /\ SessionTrouble /\ UNCHANGED toldGone
  /\ PageRests /\ UNCHANGED <<accounts, issued, revoked, redisUp, forgotten>>

\* generateTokenPair
IssueTokens(c, e) ==
  /\ issued' = Append(issued, [owner |-> e, expired |-> FALSE])
  /\ calling' = [calling EXCEPT ![c].at = "ok", ![c].token = Len(issued')]

NoMoreTokens == Len(issued) = TokenBound

login(c) ==
  \E e \in calling[c].who :
    /\ calling[c].op = "login" /\ calling[c].at = "checked"
    /\ \/ e \in accounts /\ ~NoMoreTokens /\ IssueTokens(c, e)
       \/ CallGoes(c, "unauthorized") /\ UNCHANGED issued
    /\ PageRests /\ UNCHANGED <<bother, accounts, revoked, redisUp, toldGone, forgotten>>

\* register refuses an address that has an account, SSO finds its owner.  The redirect
\* of SSO takes its tokens to a page that the frontend does not have: nobody keeps them
FindAccount(c) ==
  \E e \in calling[c].who :
    /\ calling[c].op \in {"register", "sso"} /\ calling[c].at = "checked"
    /\ IF e \notin accounts THEN CallGoes(c, "creates") /\ UNCHANGED issued
       ELSE IF calling[c].op = "register" THEN CallGoes(c, "unauthorized") /\ UNCHANGED issued
       ELSE calling' = CallEnds(c) /\ UNCHANGED issued
    /\ PageRests /\ UNCHANGED <<bother, accounts, revoked, redisUp, toldGone, forgotten>>

\* E-mail addresses are unique: the second of two that found none fails
CreateAccount(c) ==
  \E e \in calling[c].who :
    /\ calling[c].at = "creates"
    /\ IF e \in accounts THEN calling' = CallEnds(c) /\ UNCHANGED <<accounts, issued>>
       ELSE /\ accounts' = accounts \cup {e}
            /\ IF calling[c].op = "sso" THEN calling' = CallEnds(c) /\ UNCHANGED issued
               ELSE ~NoMoreTokens /\ IssueTokens(c, e)
    /\ PageRests /\ UNCHANGED <<bother, revoked, redisUp, toldGone, forgotten>>
-----------------------------------------------------------------------------
\* What happens to them
AtServer == {"asks", "sent", "checked", "revoked", "creates"}

TokenExpires ==
  \E t \in AccessToken :
    /\ ~issued[t].expired /\ issued' = [issued EXCEPT ![t].expired = TRUE] /\ SessionTrouble
    /\ PageRests /\ UNCHANGED <<calling, accounts, revoked, redisUp, toldGone, forgotten>>

RedisChanges ==
  /\ SessionTrouble /\ redisUp' = ~redisUp
  /\ PageRests /\ UNCHANGED <<calling, accounts, issued, revoked, toldGone, forgotten>>

\* The browser drops the cookie of the CSRF token
CookieLost ==
  /\ SessionTrouble /\ browser.cookie # NoToken /\ browser' = [browser EXCEPT !.cookie = NoToken]
  /\ calling' = Shake(NoToken, calling)
  /\ UNCHANGED <<began, overtaken>> /\ ServerRests

\* PageCalls under way fail, and what was only in memory is forgotten
ServerRestarts ==
  /\ SessionTrouble
  /\ calling' = [c \in PageCalls |-> IF calling[c].at \in AtServer THEN Failed(c)
                                 ELSE calling[c]]
  /\ revoked' = [revoked EXCEPT !.memory = {}]
  /\ forgotten' = forgotten \cup revoked.memory
  /\ PageRests /\ UNCHANGED <<accounts, issued, redisUp, toldGone>>

SessionNext ==
  \/ \E c \in PageCall : \/ \E op \in {"write", "logout"} : BeginCall(c, op, {})
                     \/ \E op \in {"login", "register", "sso"}, e \in Email : BeginCall(c, op, {e})
  \/ \E c \in PageCalls : \/ CsrfAnswered(c) \/ CsrfRead(c) \/ CsrfForbidden(c) \/ Unauthorized(c)
                      \/ SignedIn(c) \/ SignedOut(c) \/ CallHeard(c)
                      \/ Receive(c) \/ WriteChecked(c) \/ Revoke(c) \/ LogoutEnds(c)
                      \/ login(c) \/ FindAccount(c) \/ CreateAccount(c)
  \/ CheckFails \/ SupersededFails \/ ShowUser \/ GetCurrentUser
  \/ TokenExpires \/ RedisChanges \/ CookieLost \/ ServerRestarts
-----------------------------------------------------------------------------
\* Who was told that he is signed out is: his token passes no check any more, while
\* Redis answers if it holds the token, and the process lives on if it does not
\* (tokenBlacklist.service.ts, authenticate).
SignedOutStaysOut == \A c \in PageCalls : calling[c].gone => calling[c].at # "checked"

\* A page that shows somebody and holds a token shows the token's owner, unless he
\* signed in before the page's first check was answered (AuthContext.tsx).
ShowsTokenOwner ==
  (browser.user # {} /\ browser.token # NoToken /\ ~overtaken)
    => browser.user = {issued[browser.token].owner}

\* A call that a stale CSRF token has delayed is rejected only when the cookie changed
\* once more while it tried again, however calls that fetch a token overlap
\* (api/client.ts; "retry once", line 109).
DelayedNotLost == \A c \in PageCalls : calling[c].at = "rejected" => calling[c].shaken

SessionInv == SessionTypeOK /\ SignedOutStaysOut /\ ShowsTokenOwner /\ DelayedNotLost
=============================================================================
