----------------------------- MODULE AuthSession -----------------------------
(***************************************************************************)
(* The sessions of one account: the refresh tokens in the database with    *)
(* their rotation and replay detection, the cookie jar each browser shares *)
(* between its tabs, and the refresh each tab shares between its calls.    *)
(*                                                                         *)
(* A token stands for the refresh token and for the CSRF token of the same *)
(* answer, which a browser stores and drops together.  A transaction that  *)
(* locks rows is split at the points where another may run: it opens with  *)
(* SELECT ... FOR UPDATE and a later step commits it.  A statement over    *)
(* all rows of the user works on the rows committed when it begins, and    *)
(* waits for those another transaction has locked.                         *)
(***************************************************************************)
EXTENDS Naturals, FiniteSets

CONSTANTS
  Browsers, Tabs, Calls,
  TabOf,        \* the tab of each API call
  Resets,       \* submissions of the reset form, all with the same link
  MaxRequests,  \* bound: requests to the auth endpoints
  MaxEvents     \* bound: these requests, expiries, lost answers, links asked for

ASSUME AuthAssumption ==
  /\ TabOf \in [Calls -> Tabs]
  /\ Tabs \cap Resets = {} /\ "none" \notin Tabs \cup Resets
  /\ {MaxRequests, MaxEvents} \subseteq Nat

VARIABLES
  browserOf, \* the browser of each tab
  account,   \* the row of the user, and the reset link
  rows,      \* the refresh_tokens rows, by token
  sent,      \* auxiliary: the number of auth requests sent so far
  sweep,     \* the statement over all rows under way
  jar,       \* the cookies of each browser
  csrf,      \* the CSRF token each tab remembers
  req,       \* what each tab has under way with the auth endpoints
  call,      \* the other API calls
  reset,     \* the submissions of the reset form
  trace,     \* auxiliary: see Trace
  events     \* auxiliary: how many expiries, lost answers and links so far

vars == <<browserOf, account, rows, sent, sweep, jar, csrf, req, call, reset, trace, events>>

-------------------------------------------------------------------------------
(* Types *)

\* The token a request is granted has the number of the request.
Token == 1 .. MaxRequests
NoToken == 0

Row == [status : {"none", "live", "revoked", "expired"},
        chain : Token \cup {NoToken}, epoch : Nat]

Request == [kind : {"none", "refresh", "login", "logout"},
            pc : {"idle", "sent", "rotating", "replaying", "verified", "answered"},
            token : Token \cup {NoToken}, csrfOk : BOOLEAN,
            password : Nat, new : Token \cup {NoToken}, granted : BOOLEAN]

Quiet == [kind |-> "none", pc |-> "idle", token |-> NoToken, csrfOk |-> FALSE,
          password |-> 0, new |-> NoToken, granted |-> FALSE]

Lanes == {"refresh", "session"}

\* chain is the token of the login a rotation goes back to.  epoch counts the
\* statements over all rows; spared holds the tokens of transactions that
\* overlapped one; disturbed the browsers that had two auth requests under way
\* at once or lost an answer; ended the chains a logout revoked; swept the tokens
\* such a statement revoked; replays the browsers whose token was taken for a
\* replay though none had.
Trace == [epoch : Nat, spared : SUBSET Token, disturbed : SUBSET Browsers,
          ended : SUBSET Token, swept : SUBSET Token, replays : SUBSET Browsers]

TypeOK ==
  /\ browserOf \in [Tabs -> Browsers]
  /\ account \in [registered : BOOLEAN, password : 0 .. 1,
                  link : {"none", "issued", "used"}]
  /\ rows \in [Token -> Row]
  /\ sent \in 0 .. MaxRequests
  /\ sweep \in [by : {"none"} \cup Tabs \cup Resets, over : SUBSET Token]
  /\ jar \in [Browsers -> [access : BOOLEAN, token : Token \cup {NoToken}]]
  /\ csrf \in [Tabs -> Token \cup {NoToken}]
  /\ req \in [Tabs -> [Lanes -> Request]]
  /\ call \in [Calls -> {"idle", "waiting"}]
  /\ reset \in [Resets -> {"idle", "open", "done"}]
  /\ trace \in Trace
  /\ events \in 0 .. MaxEvents

Init ==
  /\ browserOf \in [Tabs -> Browsers]
  /\ account = [registered |-> FALSE, password |-> 0, link |-> "none"]
  /\ rows = [t \in Token |-> [status |-> "none", chain |-> NoToken, epoch |-> 0]]
  /\ sent = 0
  /\ sweep = [by |-> "none", over |-> {}]
  /\ jar = [b \in Browsers |-> [access |-> FALSE, token |-> NoToken]]
  /\ csrf = [t \in Tabs |-> NoToken]
  /\ req = [t \in Tabs |-> [l \in Lanes |-> Quiet]]
  /\ call = [k \in Calls |-> "idle"]
  /\ reset = [r \in Resets |-> "idle"]
  /\ trace = [epoch |-> 0, spared |-> {}, disturbed |-> {}, ended |-> {},
            swept |-> {}, replays |-> {}]
  /\ events = 0

server == <<account, rows, sweep, reset>>
client == <<jar, csrf, call>>

-------------------------------------------------------------------------------
(* The account *)

Event == sent + events < MaxEvents /\ events' = events + 1

\* The unique index decides between two registrations.
Register ==
  /\ ~account.registered
  /\ account' = [account EXCEPT !.registered = TRUE]
  /\ UNCHANGED <<browserOf, rows, sent, sweep, reset, client, req, trace, events>>

\* request_password_reset; a link that was not sent, or not read, stays issued.
RequestReset ==
  /\ account.registered /\ account.link = "none"
  /\ account' = [account EXCEPT !.link = "issued"]
  /\ Event
  /\ UNCHANGED <<browserOf, rows, sent, sweep, reset, client, req, trace>>

-------------------------------------------------------------------------------
(* Expiry *)

AccessExpires(b) ==
  /\ jar[b].access
  /\ jar' = [jar EXCEPT ![b].access = FALSE]
  /\ Event
  /\ UNCHANGED <<browserOf, server, sent, csrf, call, req, trace>>

\* Row, JWT and cookies have the same lifetime.
RefreshExpires(t) ==
  /\ rows[t].status = "live"
  /\ \A b \in Browsers : jar[b].token = t => ~jar[b].access
  /\ rows' = [rows EXCEPT ![t].status = "expired"]
  /\ jar' = [b \in Browsers |->
              IF jar[b].token = t THEN [jar[b] EXCEPT !.token = NoToken] ELSE jar[b]]
  /\ Event
  /\ UNCHANGED <<browserOf, account, sent, sweep, reset, csrf, call, req, trace>>

-------------------------------------------------------------------------------
(* Refresh, on the server *)

Refreshes == {t \in Tabs : req[t]["refresh"].pc \in {"rotating", "replaying"}}

\* The rows a transaction holds; a statement over all rows holds those it met.
LockedRows == {req[t]["refresh"].token : t \in Refreshes}

\* Mutant: the rows are read without FOR UPDATE.
NeverLocked(token) == FALSE

Locked(token) == token \in LockedRows \cup sweep.over

\* Tokens a transaction that is open has not committed yet.
Uncommitted ==
  {req[t]["refresh"].new : t \in {u \in Tabs : req[u]["refresh"].pc = "rotating"}}
    \cup {req[t]["session"].new : t \in {u \in Tabs : req[u]["session"].pc = "verified"}}

Answered(r, granted) ==
  [Quiet EXCEPT !.kind = r.kind, !.pc = "answered", !.granted = granted,
                !.new = IF granted THEN r.new ELSE NoToken]

\* A token that commits under a statement over all rows escapes it.
Escaping(token) == IF sweep.by # "none" THEN {token} ELSE {}

\* require_csrf, the JWT and the row, read under its lock.
RefreshOpen(t) ==
  LET r == req[t]["refresh"]
      row == rows[r.token] IN
  /\ r.kind = "refresh" /\ r.pc = "sent"
  /\ \/ /\ ~r.csrfOk \/ r.token = NoToken
        /\ req' = [req EXCEPT ![t]["refresh"] = Answered(@, FALSE)]
        /\ UNCHANGED trace
     \/ /\ r.csrfOk /\ r.token # NoToken
        /\ ~Locked(r.token)
        /\ \/ /\ row.status = "revoked"
              /\ req' = [req EXCEPT ![t]["refresh"].pc = "replaying"]
              /\ trace' = IF r.token \in trace.swept THEN trace
                          ELSE [trace EXCEPT !.replays = @ \cup {browserOf[t]}]
           \/ /\ row.status = "expired"
              /\ req' = [req EXCEPT ![t]["refresh"] = Answered(@, FALSE)]
              /\ UNCHANGED trace
           \/ /\ row.status = "live"
              /\ req' = [req EXCEPT ![t]["refresh"].pc = "rotating"]
              /\ UNCHANGED trace
  /\ UNCHANGED <<browserOf, account, rows, sent, sweep, reset, client, events>>

RotateCommit(t) ==
  LET r == req[t]["refresh"] IN
  /\ r.pc = "rotating"
  /\ rows' = [rows EXCEPT ![r.token].status = "revoked",
                          ![r.new] = [status |-> "live", chain |-> rows[r.token].chain,
                                      epoch |-> trace.epoch]]
  /\ trace' = [trace EXCEPT !.spared = @ \cup Escaping(r.new)]
  /\ req' = [req EXCEPT ![t]["refresh"] = Answered(@, TRUE)]
  /\ UNCHANGED <<browserOf, account, sent, sweep, reset, client, events>>

-------------------------------------------------------------------------------
(* Statements over all rows: a replay and a password reset *)

\* The row of the link, unused and locked; a form that finds none is refused, and
\* changes nothing.
ResetOpen(r) ==
  /\ reset[r] = "idle"
  /\ account.link = "issued"
  /\ \A s \in Resets : reset[s] # "open"
  /\ reset' = [reset EXCEPT ![r] = "open"]
  /\ UNCHANGED <<browserOf, account, rows, sent, sweep, client, req, trace, events>>

Sweepers ==
  {t \in Tabs : req[t]["refresh"].pc = "replaying"} \cup {r \in Resets : reset[r] = "open"}

\* Mutant: the tokens of the replayed login only.
SweepBeginOwnLogin(x) ==
  /\ sweep.by = "none"
  /\ x \in Sweepers
  /\ sweep' = [by |-> x, over |-> {t \in Token : /\ rows[t].status = "live"
                                               /\ x \in Tabs
                                               /\ rows[t].chain = rows[req[x]["refresh"].token].chain}]
  /\ UNCHANGED <<browserOf, account, rows, sent, reset, client, req, trace, events>>

\* revoke_all_user_tokens; the second of two such statements waits for the first.
SweepBegin(x) ==
  /\ sweep.by = "none"
  /\ x \in Sweepers
  /\ sweep' = [by |-> x, over |-> {t \in Token : rows[t].status = "live"}]
  /\ UNCHANGED <<browserOf, account, rows, sent, reset, client, req, trace, events>>

\* A row that was rotated meanwhile is revoked already; the row that replaced it
\* is not among those the statement saw.
Reached == {t \in sweep.over : rows[t].status = "live"}

SweepCommit(x) ==
  /\ sweep.by = x /\ x # "none"
  /\ \A t \in Refreshes \ {x} : req[t]["refresh"].token \notin sweep.over
  /\ rows' = [t \in Token |->
               IF t \in Reached THEN [rows[t] EXCEPT !.status = "revoked"] ELSE rows[t]]
  /\ sweep' = [by |-> "none", over |-> {}]
  /\ trace' = [trace EXCEPT !.epoch = @ + 1, !.spared = @ \cup Uncommitted,
                            !.swept = @ \cup Reached]
  /\ \/ /\ x \in Tabs
        /\ req' = [req EXCEPT ![x]["refresh"] = Answered(@, FALSE)]
        /\ UNCHANGED <<account, reset>>
     \/ /\ x \in Resets
        /\ account' = [account EXCEPT !.password = @ + 1, !.link = "used"]
        /\ reset' = [reset EXCEPT ![x] = "done"]
        /\ UNCHANGED req
  /\ UNCHANGED <<browserOf, sent, client, events>>

-------------------------------------------------------------------------------
(* Login and logout *)

\* Two auth requests of one browser at once.
Disturbing(t) ==
  IF \E u \in Tabs, l \in Lanes : browserOf[u] = browserOf[t] /\ req[u][l].pc # "idle"
  THEN {browserOf[t]} ELSE {}

Sends(t, lane, request) ==
  /\ req[t][lane].pc = "idle"
  /\ sent < MaxRequests /\ sent + events < MaxEvents
  /\ sent' = sent + 1
  /\ req' = [req EXCEPT ![t][lane] = [request EXCEPT !.new = sent + 1]]
  /\ trace' = [trace EXCEPT !.disturbed = @ \cup Disturbing(t)]

LoginSend(t) ==
  /\ account.registered
  /\ Sends(t, "session", [Quiet EXCEPT !.kind = "login", !.pc = "sent",
                                       !.password = account.password])
  /\ UNCHANGED <<browserOf, server, client, events>>

LoginVerify(t) ==
  LET r == req[t]["session"] IN
  /\ r.kind = "login" /\ r.pc = "sent"
  /\ \/ /\ r.password # account.password
        /\ req' = [req EXCEPT ![t]["session"] = Answered(@, FALSE)]
     \/ /\ r.password = account.password
        /\ req' = [req EXCEPT ![t]["session"].pc = "verified"]
  /\ UNCHANGED <<browserOf, account, rows, sent, sweep, reset, client, trace, events>>

LoginCommit(t) ==
  LET r == req[t]["session"] IN
  /\ r.pc = "verified"
  /\ rows' = [rows EXCEPT ![r.new] = [status |-> "live", chain |-> r.new,
                                      epoch |-> trace.epoch]]
  /\ trace' = [trace EXCEPT !.spared = @ \cup Escaping(r.new)]
  /\ req' = [req EXCEPT ![t]["session"] = Answered(@, TRUE)]
  /\ UNCHANGED <<browserOf, account, sent, sweep, reset, client, events>>

\* A mutating request takes the CSRF token from the cookie if the tab has none.
Hydrated(t) ==
  IF csrf[t] = NoToken THEN jar[browserOf[t]].token ELSE csrf[t]

CsrfOk(t) == jar[browserOf[t]].token # NoToken /\ Hydrated(t) = jar[browserOf[t]].token

LogoutSend(t) ==
  /\ jar[browserOf[t]].token # NoToken
  /\ csrf' = [csrf EXCEPT ![t] = Hydrated(t)]
  /\ Sends(t, "session", [Quiet EXCEPT !.kind = "logout", !.pc = "sent",
                            !.csrfOk = CsrfOk(t), !.token = jar[browserOf[t]].token])
  /\ UNCHANGED <<browserOf, server, jar, call, events>>

\* Mutant: the row is read without FOR UPDATE.
LogoutCommitUnlocked(t) ==
  LET r == req[t]["session"] IN
  /\ r.kind = "logout" /\ r.pc = "sent"
  /\ \/ /\ r.csrfOk
        /\ rows' = IF rows[r.token].status = "live"
                   THEN [rows EXCEPT ![r.token].status = "revoked"] ELSE rows
        /\ trace' = IF rows[r.token].status = "live"
                    THEN [trace EXCEPT !.ended = @ \cup {rows[r.token].chain}] ELSE trace
        /\ req' = [req EXCEPT ![t]["session"] = Answered(@, TRUE)]
     \/ /\ ~r.csrfOk
        /\ req' = [req EXCEPT ![t]["session"] = Answered(@, FALSE)]
        /\ UNCHANGED <<rows, trace>>
  /\ UNCHANGED <<browserOf, account, sent, sweep, reset, client, events>>

\* A token that was rotated meanwhile is left alone, and so is its replacement.
LogoutCommit(t) ==
  LET r == req[t]["session"] IN
  /\ r.kind = "logout" /\ r.pc = "sent"
  /\ \/ /\ r.csrfOk /\ ~Locked(r.token)
        /\ rows' = IF rows[r.token].status = "live"
                   THEN [rows EXCEPT ![r.token].status = "revoked"] ELSE rows
        /\ trace' = IF rows[r.token].status = "live"
                    THEN [trace EXCEPT !.ended = @ \cup {rows[r.token].chain}] ELSE trace
        /\ req' = [req EXCEPT ![t]["session"] = Answered(@, TRUE)]
     \/ /\ ~r.csrfOk
        /\ req' = [req EXCEPT ![t]["session"] = Answered(@, FALSE)]
        /\ UNCHANGED <<rows, trace>>
  /\ UNCHANGED <<browserOf, account, sent, sweep, reset, client, events>>

-------------------------------------------------------------------------------
(* API calls of a tab *)

\* A call is settled when it is answered, which is at once for all but those that
\* need a refresh.  A tab that was opened anew, or is signed out, asks who it is
\* ("me"); the others change something and need the CSRF token.
CallOk(k, kind) ==
  LET t == TabOf[k] IN
  /\ call[k] = "idle"
  /\ jar[browserOf[t]].access
  /\ kind = "post" => CsrfOk(t)
  /\ csrf' = [csrf EXCEPT ![t] = Hydrated(t)]
  /\ UNCHANGED <<browserOf, server, sent, jar, call, req, trace, events>>

\* Another tab has replaced the cookie: 403, and the tab signs itself out.
CallForbidden(k) ==
  LET t == TabOf[k] IN
  /\ call[k] = "idle"
  /\ jar[browserOf[t]].token # NoToken /\ ~CsrfOk(t)
  /\ csrf' = [csrf EXCEPT ![t] = NoToken]
  /\ UNCHANGED <<browserOf, server, sent, jar, call, req, trace, events>>

\* 401, and requestRefresh: the refresh of the tab that is under way, or a new one.
CallUnauthorized(k, kind) ==
  LET t == TabOf[k]
      b == browserOf[t] IN
  /\ call[k] = "idle"
  /\ jar[b].token # NoToken /\ ~jar[b].access
  /\ kind = "post" => CsrfOk(t)
  /\ call' = [call EXCEPT ![k] = "waiting"]
  /\ csrf' = [csrf EXCEPT ![t] = Hydrated(t)]
  /\ \/ /\ req[t]["refresh"].pc # "idle"
        /\ UNCHANGED <<sent, req, trace>>
     \/ Sends(t, "refresh", [Quiet EXCEPT !.kind = "refresh", !.pc = "sent",
                               !.csrfOk = CsrfOk(t), !.token = jar[b].token])
  /\ UNCHANGED <<browserOf, server, jar, events>>

-------------------------------------------------------------------------------
(* Answers of the auth endpoints *)

Waiters(t) == {k \in Calls : TabOf[k] = t /\ call[k] = "waiting"}

\* Mutant: the refresh cookie is not replaced.
RefreshGrantedOldCookie(t) ==
  LET r == req[t]["refresh"] IN
  /\ r.pc = "answered" /\ r.granted
  /\ jar' = [jar EXCEPT ![browserOf[t]] = [@ EXCEPT !.access = TRUE]]
  /\ csrf' = [csrf EXCEPT ![t] = r.new]
  /\ call' = [k \in Calls |-> IF k \in Waiters(t) THEN "idle" ELSE call[k]]
  /\ req' = [req EXCEPT ![t]["refresh"] = Quiet]
  /\ UNCHANGED <<browserOf, server, sent, trace, events>>

\* The new cookies are stored; the calls that waited are sent again, once.
RefreshGranted(t) ==
  LET r == req[t]["refresh"] IN
  /\ r.pc = "answered" /\ r.granted
  /\ jar' = [jar EXCEPT ![browserOf[t]] = [access |-> TRUE, token |-> r.new]]
  /\ csrf' = [csrf EXCEPT ![t] = r.new]
  /\ call' = [k \in Calls |-> IF k \in Waiters(t) THEN "idle" ELSE call[k]]
  /\ req' = [req EXCEPT ![t]["refresh"] = Quiet]
  /\ UNCHANGED <<browserOf, server, sent, trace, events>>

\* The refusal is signalled; what waited for the refresh fails.
RefreshRefused(t) ==
  /\ req[t]["refresh"].pc = "answered" /\ ~req[t]["refresh"].granted
  /\ csrf' = [csrf EXCEPT ![t] = NoToken]
  /\ call' = [k \in Calls |-> IF k \in Waiters(t) THEN "idle" ELSE call[k]]
  /\ req' = [req EXCEPT ![t]["refresh"] = Quiet]
  /\ UNCHANGED <<browserOf, server, sent, jar, trace, events>>

SessionAnswer(t) ==
  LET r == req[t]["session"] IN
  /\ r.pc = "answered"
  /\ \/ /\ r.kind = "login" /\ r.granted
        /\ jar' = [jar EXCEPT ![browserOf[t]] = [access |-> TRUE, token |-> r.new]]
        /\ csrf' = [csrf EXCEPT ![t] = r.new]
     \/ /\ r.kind = "logout" /\ r.granted
        /\ jar' = [jar EXCEPT ![browserOf[t]] = [access |-> FALSE, token |-> NoToken]]
        /\ csrf' = [csrf EXCEPT ![t] = NoToken]
     \/ /\ ~r.granted
        /\ csrf' = [csrf EXCEPT ![t] = NoToken]
        /\ UNCHANGED jar
  /\ req' = [req EXCEPT ![t]["session"] = Quiet]
  /\ UNCHANGED <<browserOf, server, sent, call, trace, events>>

\* The network fails under the answer: no status, so nothing is signalled.
AnswerLost(t, lane) ==
  /\ req[t][lane].pc = "answered"
  /\ Event
  /\ req' = [req EXCEPT ![t][lane] = Quiet]
  /\ csrf' = IF lane = "refresh" THEN [csrf EXCEPT ![t] = NoToken] ELSE csrf
  /\ call' = [k \in Calls |-> IF lane = "refresh" /\ k \in Waiters(t) THEN "idle" ELSE call[k]]
  /\ trace' = [trace EXCEPT !.disturbed = @ \cup {browserOf[t]}]
  /\ UNCHANGED <<browserOf, server, sent, jar>>

-------------------------------------------------------------------------------

ServerStep(t) ==
  \/ RefreshOpen(t)
  \/ RotateCommit(t)
  \/ LoginVerify(t)
  \/ LoginCommit(t)
  \/ LogoutCommit(t)

TabStep(t) ==
  \/ RefreshGranted(t)
  \/ RefreshRefused(t)
  \/ SessionAnswer(t)

SweepStep(x) ==
  \/ SweepBegin(x)
  \/ SweepCommit(x)

Next ==
  \/ Register
  \/ RequestReset
  \/ \E b \in Browsers : AccessExpires(b)
  \/ \E t \in Token : RefreshExpires(t)
  \/ \E r \in Resets : ResetOpen(r)
  \/ \E x \in Tabs \cup Resets : SweepStep(x)
  \/ \E t \in Tabs : LoginSend(t) \/ LogoutSend(t) \/ ServerStep(t) \/ TabStep(t)
  \/ \E t \in Tabs, lane \in Lanes : AnswerLost(t, lane)
  \/ \E k \in Calls : CallForbidden(k)
  \/ \E k \in Calls, kind \in {"me", "post"} : CallOk(k, kind) \/ CallUnauthorized(k, kind)

Spec == Init /\ [][Next]_vars

-------------------------------------------------------------------------------
(* Properties *)

Live == {t \in Token : rows[t].status = "live"}

\* A login has at most one token that can still be rotated, whatever refreshes
\* with the same token overlap (SELECT ... FOR UPDATE, auth/repository.py:146).
OneLivePerLogin ==
  \A s, t \in Live : rows[s].chain = rows[t].chain => s = t

\* Once a replay or a password reset has revoked the tokens of the user, none is
\* left of those committed before: only a token whose transaction overlapped the
\* statement escapes it.
RevocationReachesAll ==
  \A t \in Live : rows[t].epoch = trace.epoch \/ t \in trace.spared

\* A login that a logout ended is not continued, by no refresh under way.
LoggedOutStaysOut == \A t \in Live : rows[t].chain \notin trace.ended

\* A browser that lost no answer and had one auth request at a time is never
\* taken for a replay: the refresh its calls share is what keeps it so, and a
\* second tab is not covered by it.  Nor is a browser whose token another replay
\* or a password reset has revoked: its next refresh revokes every session again.
ReplayMeansDisturbed == trace.replays \subseteq trace.disturbed

\* Between its auth requests such a browser holds a token that still works,
\* unless it expired or every token of the user was revoked.
QuietBrowserKeepsSession ==
  \A b \in Browsers \ trace.disturbed :
    LET t == jar[b].token IN
    /\ t # NoToken
    /\ \A u \in Tabs, l \in Lanes : browserOf[u] = b => req[u][l].pc = "idle"
    => rows[t].status \in {"live", "expired"} \/ rows[t].epoch < trace.epoch

\* One link changes the password once, however often its form is sent: the row of
\* the link is locked and marked used with the password (auth/service.py:282).
LinkUsedOnce == account.password <= 1 /\ (account.password = 1 <=> account.link = "used")

\* What may be used once is used once, in requests that overlap: the refresh token
\* of a login and the link of a password reset.
UsedOnce == TypeOK /\ OneLivePerLogin /\ LinkUsedOnce

\* A call that waits has a refresh of its tab to wait for, however that ends.
WaitersHaveRefresh ==
  \A k \in Calls : call[k] = "waiting" => req[TabOf[k]]["refresh"].pc # "idle"

\* A browser that does one thing at a time and loses no answer keeps its session:
\* it is not taken for a replay, its token works, and none of its calls hangs.
QuietBrowserLeftAlone ==
  ReplayMeansDisturbed /\ QuietBrowserKeepsSession /\ WaitersHaveRefresh
===============================================================================
