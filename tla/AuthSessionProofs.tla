--------------------------- MODULE AuthSessionProofs ---------------------------
(***************************************************************************)
(* Proofs about AuthSession for every number of browsers, tabs, calls,     *)
(* reset forms, requests and events.                                       *)
(***************************************************************************)
EXTENDS AuthSession, TLAPS

-------------------------------------------------------------------------------
(* The inductive invariant *)

\* What a request under way has with it: the token it was sent with exists, and the
\* one it is to be granted does not, until it is granted.
LaneInv(t, l) ==
  LET r == req[t][l] IN
  /\ r.pc = "idle" => r.token = NoToken /\ r.new = NoToken
  /\ r.pc # "idle" => r.kind \in (IF l = "refresh" THEN {"refresh"} ELSE {"login", "logout"})
  /\ r.pc \in {"rotating", "replaying"} => l = "refresh" /\ r.token # NoToken
  /\ r.pc = "verified" => l = "session" /\ r.kind = "login"
  /\ r.kind = "logout" /\ r.pc = "sent" => r.token # NoToken
  /\ r.pc \notin {"idle", "answered"} => r.new # NoToken /\ rows[r.new].status = "none"
  /\ r.pc = "answered" => r.token = NoToken /\ (~r.granted => r.new = NoToken)
  /\ r.pc = "answered" /\ r.granted /\ r.kind # "logout" =>
       r.new # NoToken /\ rows[r.new].status # "none"
  /\ r.token # NoToken => rows[r.token].status # "none"
  /\ r.new <= sent

\* No two requests have the same number.
Numbered ==
  \A t, u \in Tabs, l, m \in Lanes :
    req[t][l].new # NoToken /\ req[t][l].new = req[u][m].new => t = u /\ l = m

\* Rows are those of requests that were sent; a chain begins at a row.
RowInv(k) ==
  /\ k > sent => rows[k].status = "none"
  /\ rows[k].status # "none" => /\ rows[k].chain \in Token
                                /\ rows[rows[k].chain].status # "none"
                                /\ rows[k].epoch <= trace.epoch

JarInv(b) == jar[b].token # NoToken => rows[jar[b].token].status # "none"

Rotating(t) == req[t]["refresh"].pc = "rotating"

\* The tokens a login can go on with: live ones, and the one a rotation has locked,
\* which may expire meanwhile.
Owner(k) == rows[k].status = "live" \/ \E t \in Tabs : Rotating(t) /\ req[t]["refresh"].token = k

\* One of each login, and none of a login that was ended.
OwnerInv ==
  /\ \A j, k \in Token : Owner(j) /\ Owner(k) /\ rows[j].chain = rows[k].chain => j = k
  /\ \A k \in Token : Owner(k) => /\ rows[k].status \in {"live", "expired"}
                                  /\ rows[k].chain \notin trace.ended
  /\ \A c \in trace.ended : rows[c].status # "none"

\* A row is locked by one transaction.
LockInv ==
  \A t, u \in Refreshes : req[t]["refresh"].token = req[u]["refresh"].token => t = u

\* A statement over all rows is run by a replay or a reset that is open, and every
\* live row is one it saw, or escaped it.
SweepInv ==
  /\ sweep.by = "none" => sweep.over = {}
  /\ sweep.by \in Tabs => req[sweep.by]["refresh"].pc = "replaying"
  /\ sweep.by \in Resets => reset[sweep.by] = "open"
  /\ sweep.by # "none" => Live \subseteq sweep.over \cup trace.spared
  /\ \A k \in trace.swept : rows[k].status = "revoked" /\ rows[k].epoch < trace.epoch

\* One form at a time has the link, while it is unused.
LinkInv ==
  /\ LinkUsedOnce
  /\ \A r \in Resets : reset[r] = "open" => account.link = "issued"
  /\ \A r, s \in Resets : reset[r] = "open" /\ reset[s] = "open" => r = s

\* The tokens a browser has, in its jar or in a request.
Holds(b, k) ==
  \/ jar[b].token = k
  \/ \E t \in Tabs, l \in Lanes : browserOf[t] = b /\ k \in {req[t][l].token, req[t][l].new}

\* No token is in two browsers.
Homes == \A b, c \in Browsers, k \in Token : Holds(b, k) /\ Holds(c, k) => b = c

\* A token that works, or was revoked with all the tokens of the user.
Good(k) == rows[k].status \in {"live", "expired"} \/ k \in trace.swept

\* A browser that lost no answer has one request at a time, and a good token with it;
\* only once the request is granted may the token in the jar be used up.
UndisturbedInv(b) ==
  /\ \A t, u \in Tabs, l, m \in Lanes :
       /\ browserOf[t] = b /\ req[t][l].pc # "idle"
       /\ browserOf[u] = b /\ req[u][m].pc # "idle"
       => t = u /\ l = m
  /\ jar[b].token # NoToken =>
       \/ Good(jar[b].token)
       \/ \E t \in Tabs, l \in Lanes :
            browserOf[t] = b /\ req[t][l].pc = "answered" /\ req[t][l].granted
  /\ \A t \in Tabs, l \in Lanes : browserOf[t] = b =>
       /\ req[t][l].pc = "sent" /\ req[t][l].token # NoToken => Good(req[t][l].token)
       /\ req[t][l].pc = "answered" /\ req[t][l].granted /\ req[t][l].kind # "logout"
            => Good(req[t][l].new)

IInv ==
  /\ TypeOK
  /\ \A t \in Tabs, l \in Lanes : LaneInv(t, l)
  /\ Numbered
  /\ \A k \in Token : RowInv(k)
  /\ \A b \in Browsers : JarInv(b)
  /\ OwnerInv
  /\ LockInv
  /\ SweepInv
  /\ LinkInv
  /\ RevocationReachesAll
  /\ Homes
  /\ ReplayMeansDisturbed
  /\ \A b \in Browsers \ trace.disturbed : UndisturbedInv(b)
  /\ WaitersHaveRefresh
-------------------------------------------------------------------------------
(* Requests *)

\* The bounds and the tabs of the calls.
LEMMA Constants ==
  /\ MaxRequests \in Nat /\ MaxEvents \in Nat
  /\ TabOf \in [Calls -> Tabs]
  /\ Tabs \cap Resets = {} /\ "none" \notin Tabs /\ "none" \notin Resets
BY AuthAssumption

\* A tab that has nothing under way.
LEMMA QuietType ==
  /\ Quiet \in Request
  /\ Quiet.kind = "none" /\ Quiet.pc = "idle" /\ Quiet.token = NoToken /\ Quiet.new = NoToken
  /\ Quiet.granted = FALSE
BY DEF Quiet, Request, NoToken

\* A request that is answered: it keeps its kind, and its number when it is granted.
LEMMA AnsweredType ==
  ASSUME NEW r \in Request, NEW granted \in BOOLEAN
  PROVE  /\ Answered(r, granted) \in Request
         /\ Answered(r, granted).kind = r.kind
         /\ Answered(r, granted).pc = "answered"
         /\ Answered(r, granted).token = NoToken
         /\ Answered(r, granted).granted = granted
         /\ Answered(r, granted).new = IF granted THEN r.new ELSE NoToken
BY DEF Answered, Quiet, Request, NoToken

\* The fields of a request.
LEMMA LaneType ==
  ASSUME TypeOK, NEW t \in Tabs, NEW l \in Lanes
  PROVE  /\ req[t][l] \in Request
         /\ req[t][l].token \in Nat /\ req[t][l].new \in Nat
         /\ req[t][l].token # NoToken => req[t][l].token \in Token
         /\ req[t][l].new # NoToken => req[t][l].new \in Token
         /\ req[t][l].pc \in {"idle", "sent", "rotating", "replaying", "verified", "answered"}
<1>1. req[t][l] \in Request
  BY DEF TypeOK
<1> QED BY <1>1, Constants DEF Request, Token, NoToken

-------------------------------------------------------------------------------
(* A tab has its answer *)

\* A request that was answered ends: the browser stores what it was granted, drops
\* what it had, or keeps it.
LEMMA EndsInv ==
  ASSUME IInv, TypeOK', WaitersHaveRefresh', NEW t \in Tabs, NEW l \in Lanes,
         req[t][l].pc = "answered",
         req' = [req EXCEPT ![t][l] = Quiet],
         UNCHANGED <<browserOf, account, rows, sweep, reset, sent>>,
         \/ trace' = trace
         \/ trace' = [trace EXCEPT !.disturbed = @ \cup {browserOf[t]}],
         \A c \in Browsers \ {browserOf[t]} : jar'[c].token = jar[c].token,
         \/ jar'[browserOf[t]].token = NoToken
         \/ /\ req[t][l].granted /\ req[t][l].kind # "logout"
            /\ jar'[browserOf[t]].token = req[t][l].new
         \/ /\ ~req[t][l].granted \/ browserOf[t] \in trace'.disturbed
            /\ jar'[browserOf[t]].token = jar[browserOf[t]].token
  PROVE  IInv'
<1> DEFINE r == req[t][l]
           b == browserOf[t]
<1>1. /\ TypeOK /\ b \in Browsers /\ r \in Request /\ LaneInv(t, l)
      /\ \A c \in Browsers : JarInv(c)
  BY DEF IInv, TypeOK
<1>2. /\ req'[t][l] = Quiet
      /\ \A u \in Tabs, m \in Lanes : (u # t \/ m # l) => req'[u][m] = req[u][m]
  BY <1>1, QuietType DEF TypeOK, Lanes
<1>3. /\ trace'.epoch = trace.epoch /\ trace'.spared = trace.spared /\ trace'.ended = trace.ended
      /\ trace'.swept = trace.swept /\ trace'.replays = trace.replays
      /\ trace.disturbed \subseteq trace'.disturbed
  BY <1>1 DEF TypeOK, Trace
<1>4. ASSUME NEW u \in Tabs, NEW m \in Lanes
      PROVE  LaneInv(u, m)'
  <2>1. CASE u = t /\ m = l
    BY <1>2, <2>1, QuietType, <1>1 DEF LaneInv, TypeOK, NoToken
  <2>2. CASE u # t \/ m # l
    <3>1. LaneInv(u, m)
      BY DEF IInv
    <3> QED BY <1>2, <2>2, <3>1 DEF LaneInv
  <2> QED BY <2>1, <2>2
<1>5. Numbered'
  BY <1>2, QuietType DEF IInv, Numbered
<1>6. \A k \in Token : RowInv(k)'
  BY <1>3 DEF IInv, RowInv
<1>7. \A c \in Browsers : JarInv(c)'
  BY <1>1 DEF JarInv, LaneInv
<1>8. \A u \in Tabs : /\ req'[u]["refresh"].pc \in {"rotating", "replaying"} =>
                            req'[u]["refresh"] = req[u]["refresh"]
                      /\ req[u]["refresh"].pc \in {"rotating", "replaying"} =>
                            req'[u]["refresh"] = req[u]["refresh"]
  BY <1>2, QuietType DEF Lanes
<1>9. OwnerInv'
  <2>1. \A k \in Token : Owner(k)' <=> Owner(k)
    BY <1>8 DEF Owner, Rotating
  <2> QED BY <1>3, <2>1 DEF IInv, OwnerInv
<1>10. LockInv'
  BY <1>8 DEF IInv, LockInv, Refreshes
<1>11. SweepInv'
  BY <1>3, <1>8 DEF IInv, SweepInv, Live
<1>12. LinkInv' /\ RevocationReachesAll' /\ ReplayMeansDisturbed'
  BY <1>3 DEF IInv, LinkInv, LinkUsedOnce, RevocationReachesAll, Live, ReplayMeansDisturbed
<1>13. ASSUME NEW c \in Browsers, NEW k \in Token, Holds(c, k)'
       PROVE  Holds(c, k)
  <2>1. k # NoToken
    BY DEF Token, NoToken
  <2>2. CASE jar'[c].token = k
    BY <2>1, <2>2 DEF Holds
  <2>3. CASE jar'[c].token # k
    <3>1. PICK u \in Tabs, m \in Lanes :
            browserOf[u] = c /\ k \in {req'[u][m].token, req'[u][m].new}
      BY <1>13, <2>3 DEF Holds
    <3>2. u # t \/ m # l
      BY <1>2, <2>1, <3>1, QuietType
    <3> QED BY <1>2, <3>1, <3>2 DEF Holds
  <2> QED BY <2>2, <2>3
<1>14. Homes'
  BY <1>13 DEF IInv, Homes
<1>15. ASSUME NEW c \in Browsers \ trace'.disturbed
       PROVE  UndisturbedInv(c)'
  <2>1. UndisturbedInv(c)
    BY <1>3 DEF IInv
  <2>2. rows' = rows /\ trace'.swept = trace.swept /\ browserOf' = browserOf
    BY <1>3
  <2>3. \A u \in Tabs, m \in Lanes : req'[u][m].pc # "idle" =>
          req'[u][m] = req[u][m] /\ (u # t \/ m # l)
    BY <1>2, QuietType
  <2>4. \A u, v \in Tabs, m, n \in Lanes :
          /\ browserOf[u] = c /\ req'[u][m].pc # "idle"
          /\ browserOf[v] = c /\ req'[v][n].pc # "idle"
          => u = v /\ m = n
    BY <2>1, <2>3 DEF UndisturbedInv
  <2>5. \A u \in Tabs, m \in Lanes : browserOf[u] = c =>
          /\ req'[u][m].pc = "sent" /\ req'[u][m].token # NoToken => Good(req[u][m].token)'
          /\ req'[u][m].pc = "answered" /\ req'[u][m].granted /\ req'[u][m].kind # "logout"
               => Good(req[u][m].new)'
    BY <2>1, <2>2, <2>3 DEF UndisturbedInv, Good
  <2>6. jar'[c].token # NoToken =>
          \/ Good(jar[c].token)'
          \/ \E u \in Tabs, m \in Lanes :
               browserOf[u] = c /\ req'[u][m].pc = "answered" /\ req'[u][m].granted
    <3>1. CASE c # b
      <4>1. \A u \in Tabs, m \in Lanes : browserOf[u] = c => req'[u][m] = req[u][m]
        BY <1>2, <3>1
      <4>2. jar'[c].token = jar[c].token
        BY <3>1
      <4> QED BY <2>1, <2>2, <4>1, <4>2 DEF UndisturbedInv, Good
    <3>2. CASE c = b
      <4>1. \A u \in Tabs, m \in Lanes :
              browserOf[u] = b /\ req[u][m].pc = "answered" => u = t /\ m = l
        BY <2>1, <3>2 DEF UndisturbedInv
      <4>2. r.granted /\ r.kind # "logout" => Good(r.new)
        BY <2>1, <3>2 DEF UndisturbedInv
      <4>3. ~r.granted /\ jar[b].token # NoToken => Good(jar[b].token)
        BY <2>1, <3>2, <4>1 DEF UndisturbedInv
      <4> QED BY <2>2, <3>2, <4>2, <4>3 DEF Good
    <3> QED BY <3>1, <3>2
  <2> QED BY <2>2, <2>4, <2>5, <2>6 DEF UndisturbedInv
<1> QED BY <1>4, <1>5, <1>6, <1>7, <1>9, <1>10, <1>11, <1>12, <1>14, <1>15 DEF IInv
-------------------------------------------------------------------------------
(* The server turns to a request *)

\* A request is refused, verified, or locks the row of its token.
Turns(t, l, q) ==
  LET r == req[t][l] IN
  /\ r.pc = "sent"
  /\ req' = [req EXCEPT ![t][l] = q]
  /\ q.kind = r.kind
  /\ \/ q.pc = "answered" /\ q.token = NoToken /\ q.new = NoToken /\ ~q.granted
     \/ /\ q.pc = "verified" /\ l = "session" /\ r.kind = "login"
        /\ q.token = r.token /\ q.new = r.new
     \/ /\ q.pc \in {"rotating", "replaying"} /\ l = "refresh" /\ ~Locked(r.token)
        /\ q.token = r.token /\ r.token # NoToken /\ q.new = r.new
        /\ q.pc = "rotating" => rows[r.token].status = "live"

\* Such a step changes no row, no jar and no account.
LEMMA TurnsInv ==
  ASSUME IInv, NEW t \in Tabs, NEW l \in Lanes, NEW q \in Request, Turns(t, l, q),
         UNCHANGED <<browserOf, account, rows, sweep, reset, sent, jar, csrf, call, events>>,
         \/ trace' = trace
         \/ trace' = [trace EXCEPT !.replays = @ \cup {browserOf[t]}],
         ReplayMeansDisturbed'
  PROVE  IInv'
<1> DEFINE r == req[t][l]
<1>1. /\ TypeOK /\ r \in Request /\ LaneInv(t, l) /\ browserOf[t] \in Browsers
  BY DEF IInv, TypeOK
<1>2. /\ req' \in [Tabs -> [Lanes -> Request]]
      /\ req'[t][l] = q
      /\ \A u \in Tabs, m \in Lanes : (u # t \/ m # l) => req'[u][m] = req[u][m]
  BY <1>1 DEF Turns, TypeOK, Lanes
<1>3. /\ r.pc = "sent" /\ q.kind = r.kind
      /\ \/ q.pc = "answered" /\ q.token = NoToken /\ q.new = NoToken /\ ~q.granted
         \/ /\ q.pc = "verified" /\ l = "session" /\ r.kind = "login"
            /\ q.token = r.token /\ q.new = r.new
         \/ /\ q.pc \in {"rotating", "replaying"} /\ l = "refresh" /\ ~Locked(r.token)
            /\ q.token = r.token /\ r.token # NoToken /\ q.new = r.new
            /\ q.pc = "rotating" => rows[r.token].status = "live"
  BY DEF Turns
<1>4. /\ trace'.epoch = trace.epoch /\ trace'.spared = trace.spared /\ trace'.ended = trace.ended
      /\ trace'.swept = trace.swept /\ trace'.disturbed = trace.disturbed
      /\ trace' \in Trace
  <2>1. trace.replays \cup {browserOf[t]} \in SUBSET Browsers
    BY <1>1 DEF TypeOK, Trace
  <2>2. CASE trace' = trace
    BY <1>1, <2>2 DEF TypeOK
  <2>3. CASE trace' = [trace EXCEPT !.replays = @ \cup {browserOf[t]}]
    BY <1>1, <2>1, <2>3 DEF TypeOK, Trace
  <2> QED BY <2>2, <2>3
<1>5. TypeOK'
  BY <1>1, <1>2, <1>4 DEF TypeOK
<1>6. ASSUME NEW u \in Tabs, NEW m \in Lanes
      PROVE  LaneInv(u, m)'
  <2>1. CASE u = t /\ m = l
    BY <1>1, <1>2, <1>3, <2>1 DEF LaneInv, TypeOK, NoToken
  <2>2. CASE u # t \/ m # l
    <3>1. LaneInv(u, m)
      BY DEF IInv
    <3> QED BY <1>2, <2>2, <3>1 DEF LaneInv
  <2> QED BY <2>1, <2>2
<1>7. Numbered'
  <2>1. \A u \in Tabs, m \in Lanes : req'[u][m].new \in {NoToken, req[u][m].new}
    BY <1>2, <1>3
  <2> QED BY <2>1 DEF IInv, Numbered
<1>8. (\A k \in Token : RowInv(k)') /\ (\A c \in Browsers : JarInv(c)')
  BY <1>4 DEF IInv, RowInv, JarInv
<1>9. \A u \in Tabs : req[u]["refresh"].pc \in {"rotating", "replaying"} =>
        req'[u]["refresh"] = req[u]["refresh"]
  BY <1>2, <1>3 DEF Lanes
<1>10. OwnerInv'
  <2>1. \A k \in Token : Owner(k)' => Owner(k)
    <3> SUFFICES ASSUME NEW k \in Token, Owner(k)', rows[k].status # "live"
                 PROVE  Owner(k)
      BY DEF Owner
    <3>1. PICK u \in Tabs : req'[u]["refresh"].pc = "rotating" /\ req'[u]["refresh"].token = k
      BY DEF Owner, Rotating
    <3>2. u # t \/ "refresh" # l
      BY <1>2, <1>3, <3>1
    <3> QED BY <1>2, <3>1, <3>2 DEF Owner, Rotating, Lanes
  <2> QED BY <1>4, <2>1 DEF IInv, OwnerInv
<1>11. LockInv'
  <2>1. \A u \in Refreshes' : (u \in Refreshes /\ req'[u]["refresh"] = req[u]["refresh"]) \/ u = t
    BY <1>2, <1>9 DEF Refreshes, Lanes
  <2>2. t \in Refreshes' => \/ t \in Refreshes /\ req'[t]["refresh"] = req[t]["refresh"]
                            \/ \A u \in Refreshes : req[u]["refresh"].token # req'[t]["refresh"].token
    <3>1. CASE l = "session"
      BY <1>2, <3>1 DEF Refreshes, Lanes
    <3>2. CASE l = "refresh" /\ t \in Refreshes'
      <4>1. q.pc \in {"rotating", "replaying"}
        BY <1>2, <3>2 DEF Refreshes
      <4>2. ~Locked(r.token) /\ req'[t]["refresh"].token = r.token
        BY <1>2, <1>3, <3>2, <4>1
      <4> QED BY <4>2 DEF Locked, LockedRows
    <3> QED BY <3>1, <3>2 DEF Lanes
  <2> QED BY <1>9, <2>1, <2>2 DEF IInv, LockInv, Refreshes
<1>12. SweepInv'
  BY <1>4, <1>9 DEF IInv, SweepInv, Live
<1>13. LinkInv' /\ RevocationReachesAll'
  BY <1>4 DEF IInv, LinkInv, LinkUsedOnce, RevocationReachesAll, Live
<1>14. Homes'
  <2>1. ASSUME NEW c \in Browsers, NEW k \in Token, Holds(c, k)'
        PROVE  Holds(c, k)
    <3>1. \A u \in Tabs, m \in Lanes : /\ req'[u][m].new \in {NoToken, req[u][m].new}
                                       /\ req'[u][m].token \in {NoToken, req[u][m].token}
      BY <1>2, <1>3
    <3>2. k # NoToken
      BY DEF Token, NoToken
    <3> QED BY <2>1, <3>1, <3>2 DEF Holds
  <2> QED BY <2>1 DEF IInv, Homes
<1>15. ASSUME NEW c \in Browsers \ trace'.disturbed
       PROVE  UndisturbedInv(c)'
  <2>1. UndisturbedInv(c)
    BY <1>4 DEF IInv
  <2>2. \A u \in Tabs, m \in Lanes :
          /\ req'[u][m].pc # "idle" => req[u][m].pc # "idle"
          /\ req'[u][m].pc = "sent" => req'[u][m] = req[u][m]
          /\ req'[u][m].pc = "answered" /\ req'[u][m].granted => req'[u][m] = req[u][m]
          /\ req[u][m].pc = "answered" => req'[u][m] = req[u][m]
    BY <1>2, <1>3
  <2>3. \A u, v \in Tabs, m, n \in Lanes :
          /\ browserOf[u] = c /\ req'[u][m].pc # "idle"
          /\ browserOf[v] = c /\ req'[v][n].pc # "idle"
          => u = v /\ m = n
    BY <2>1, <2>2 DEF UndisturbedInv
  <2>4. jar[c].token # NoToken =>
          \/ Good(jar[c].token)
          \/ \E u \in Tabs, m \in Lanes :
               browserOf[u] = c /\ req'[u][m].pc = "answered" /\ req'[u][m].granted
    BY <2>1, <2>2 DEF UndisturbedInv
  <2>5. \A u \in Tabs, m \in Lanes : browserOf[u] = c =>
          /\ req'[u][m].pc = "sent" /\ req'[u][m].token # NoToken => Good(req[u][m].token)
          /\ req'[u][m].pc = "answered" /\ req'[u][m].granted /\ req'[u][m].kind # "logout"
               => Good(req[u][m].new)
    BY <2>1, <2>2 DEF UndisturbedInv
  <2> QED BY <1>4, <2>2, <2>3, <2>4, <2>5 DEF UndisturbedInv, Good
<1>16. WaitersHaveRefresh'
  <2>1. \A u \in Tabs : req[u]["refresh"].pc # "idle" => req'[u]["refresh"].pc # "idle"
    BY <1>2, <1>3 DEF Lanes
  <2> QED BY <2>1, Constants DEF IInv, WaitersHaveRefresh
<1> QED BY <1>5, <1>6, <1>7, <1>8, <1>10, <1>11, <1>12, <1>13, <1>14, <1>15, <1>16 DEF IInv
\* require_csrf refuses, or the row decides: refused, rotated, or taken for a replay.
LEMMA Opened ==
  ASSUME IInv, NEW t \in Tabs, RefreshOpen(t)
  PROVE  IInv'
<1> DEFINE r == req[t]["refresh"]
<1>1. /\ TypeOK /\ r \in Request /\ "refresh" \in Lanes /\ browserOf[t] \in Browsers
      /\ r.kind = "refresh" /\ r.pc = "sent"
      /\ UNCHANGED <<browserOf, account, rows, sweep, reset, sent, jar, csrf, call, events>>
  BY DEF IInv, TypeOK, Lanes, RefreshOpen, client
<1>2. ReplayMeansDisturbed
  BY DEF IInv
<1>3. CASE req' = [req EXCEPT ![t]["refresh"] = Answered(@, FALSE)] /\ UNCHANGED trace
  <2> DEFINE q == Answered(r, FALSE)
  <2>1. /\ q \in Request /\ q.pc = "answered" /\ q.token = NoToken /\ q.new = NoToken
        /\ ~q.granted /\ q.kind = r.kind
    BY <1>1, AnsweredType
  <2>2. req' = [req EXCEPT ![t]["refresh"] = q]
    BY <1>3
  <2> HIDE DEF q
  <2>3. Turns(t, "refresh", q)
    BY <1>1, <2>1, <2>2 DEF Turns
  <2>4. ReplayMeansDisturbed'
    BY <1>2, <1>3 DEF ReplayMeansDisturbed
  <2> QED BY <1>1, <1>3, <2>1, <2>3, <2>4, TurnsInv
<1>4. ASSUME NEW pc \in {"rotating", "replaying"},
             r.csrfOk, r.token # NoToken, ~Locked(r.token),
             pc = "rotating" => rows[r.token].status = "live",
             req' = [req EXCEPT ![t]["refresh"].pc = pc],
             \/ trace' = trace
             \/ trace' = [trace EXCEPT !.replays = @ \cup {browserOf[t]}],
             ReplayMeansDisturbed'
      PROVE  IInv'
  <2> DEFINE q == [r EXCEPT !.pc = pc]
  <2>1. /\ q \in Request /\ q.pc = pc /\ q.token = r.token /\ q.new = r.new
        /\ q.granted = r.granted /\ q.kind = r.kind
    BY <1>1, <1>4 DEF Request
  <2>2. req' = [req EXCEPT ![t]["refresh"] = q]
    BY <1>4
  <2> HIDE DEF q
  <2>3. Turns(t, "refresh", q)
    BY <1>1, <1>4, <2>1, <2>2 DEF Turns
  <2> QED BY <1>1, <1>4, <2>1, <2>3, TurnsInv
<1>5. CASE /\ r.csrfOk /\ r.token # NoToken /\ ~Locked(r.token)
           /\ rows[r.token].status = "revoked"
           /\ req' = [req EXCEPT ![t]["refresh"].pc = "replaying"]
           /\ trace' = IF r.token \in trace.swept THEN trace
                       ELSE [trace EXCEPT !.replays = @ \cup {browserOf[t]}]
  <2>1. ReplayMeansDisturbed'
    <3>1. r.token \in trace.swept \/ browserOf[t] \in trace.disturbed
      <4> SUFFICES ASSUME browserOf[t] \notin trace.disturbed
                   PROVE  r.token \in trace.swept
        OBVIOUS
      <4>1. UndisturbedInv(browserOf[t])
        BY <1>1 DEF IInv
      <4>2. Good(r.token)
        BY <1>1, <1>5, <4>1 DEF UndisturbedInv
      <4> QED BY <1>5, <4>2 DEF Good
    <3>2. CASE r.token \in trace.swept
      BY <1>2, <1>5, <3>2 DEF ReplayMeansDisturbed
    <3>3. CASE r.token \notin trace.swept
      <4>1. trace'.replays = trace.replays \cup {browserOf[t]} /\ trace'.disturbed = trace.disturbed
        BY <1>1, <1>5, <3>3 DEF TypeOK, Trace
      <4> QED BY <1>2, <3>1, <3>3, <4>1 DEF ReplayMeansDisturbed
    <3> QED BY <3>2, <3>3
  <2>2. trace' = trace \/ trace' = [trace EXCEPT !.replays = @ \cup {browserOf[t]}]
    BY <1>5
  <2> QED BY <1>4, <1>5, <2>1, <2>2
<1>6. CASE /\ r.csrfOk /\ r.token # NoToken /\ ~Locked(r.token)
           /\ rows[r.token].status = "live"
           /\ req' = [req EXCEPT ![t]["refresh"].pc = "rotating"]
           /\ UNCHANGED trace
  <2>1. ReplayMeansDisturbed'
    BY <1>2, <1>6 DEF ReplayMeansDisturbed
  <2> QED BY <1>4, <1>6, <2>1
<1> QED BY <1>3, <1>5, <1>6 DEF RefreshOpen

\* The password is read before it is hashed and compared.
LEMMA Verified ==
  ASSUME IInv, NEW t \in Tabs, LoginVerify(t)
  PROVE  IInv'
<1> DEFINE r == req[t]["session"]
<1>1. /\ TypeOK /\ r \in Request /\ "session" \in Lanes
      /\ r.kind = "login" /\ r.pc = "sent"
      /\ UNCHANGED <<browserOf, account, rows, sweep, reset, sent, jar, csrf, call, events, trace>>
      /\ \/ req' = [req EXCEPT ![t]["session"] = Answered(@, FALSE)]
         \/ req' = [req EXCEPT ![t]["session"].pc = "verified"]
  <2>1. TypeOK /\ r \in Request /\ "session" \in Lanes
    BY DEF IInv, TypeOK, Lanes
  <2> QED BY <2>1 DEF LoginVerify, client
<1>2. ReplayMeansDisturbed'
  BY <1>1 DEF IInv, ReplayMeansDisturbed
<1>3. CASE req' = [req EXCEPT ![t]["session"] = Answered(@, FALSE)]
  <2> DEFINE q == Answered(r, FALSE)
  <2>1. /\ q \in Request /\ q.pc = "answered" /\ q.token = NoToken /\ q.new = NoToken
        /\ ~q.granted /\ q.kind = r.kind
    BY <1>1, AnsweredType
  <2>2. req' = [req EXCEPT ![t]["session"] = q]
    BY <1>3
  <2> HIDE DEF q
  <2>3. Turns(t, "session", q)
    BY <1>1, <2>1, <2>2 DEF Turns
  <2> QED BY <1>1, <1>2, <2>1, <2>3, TurnsInv
<1>4. CASE req' = [req EXCEPT ![t]["session"].pc = "verified"]
  <2> DEFINE q == [r EXCEPT !.pc = "verified"]
  <2>1. /\ q \in Request /\ q.pc = "verified" /\ q.token = r.token /\ q.new = r.new /\ q.kind = r.kind
    BY <1>1 DEF Request
  <2>2. req' = [req EXCEPT ![t]["session"] = q]
    BY <1>4
  <2> HIDE DEF q
  <2>3. Turns(t, "session", q)
    BY <1>1, <2>1, <2>2 DEF Turns
  <2> QED BY <1>1, <1>2, <2>1, <2>3, TurnsInv
<1> QED BY <1>1, <1>3, <1>4
-------------------------------------------------------------------------------
(* A tab sends a request *)

\* Every token a browser has was granted, or is that of a request that was sent.
LEMMA HeldSent ==
  ASSUME IInv, NEW b \in Browsers, NEW k \in Token, Holds(b, k)
  PROVE  k <= sent
<1>1. TypeOK /\ k # NoToken
  BY DEF IInv, Token, NoToken
<1>2. rows[k].status # "none" => k <= sent
  BY Constants DEF IInv, RowInv, TypeOK, Token
<1>3. CASE jar[b].token = k
  BY <1>1, <1>2, <1>3 DEF IInv, JarInv
<1>4. ASSUME NEW t \in Tabs, NEW l \in Lanes, k \in {req[t][l].token, req[t][l].new}
      PROVE  k <= sent
  <2>1. LaneInv(t, l)
    BY DEF IInv
  <2> QED BY <1>1, <1>2, <1>4, <2>1 DEF LaneInv
<1> QED BY <1>3, <1>4 DEF Holds

\* A request is sent with the cookies of its browser, and is the next in number; a
\* browser that had another under way is disturbed.
LEMMA SendsInv ==
  ASSUME IInv, NEW t \in Tabs, NEW l \in Lanes, NEW request \in Request,
         Sends(t, l, request),
         request.pc = "sent",
         request.token \in {NoToken, jar[browserOf[t]].token},
         \/ l = "refresh" /\ request.kind = "refresh"
         \/ l = "session" /\ request.kind = "login"
         \/ l = "session" /\ request.kind = "logout" /\ request.token # NoToken,
         UNCHANGED <<browserOf, account, rows, sweep, reset, jar, events>>,
         csrf' \in [Tabs -> Token \cup {NoToken}],
         call' \in [Calls -> {"idle", "waiting"}],
         WaitersHaveRefresh'
  PROVE  IInv'
<1> DEFINE q == [request EXCEPT !.new = sent + 1]
           b == browserOf[t]
<1>1. /\ TypeOK /\ b \in Browsers /\ sent \in Nat /\ NoToken = 0 /\ JarInv(b)
      /\ req[t][l].pc = "idle" /\ sent' = sent + 1 /\ sent < MaxRequests
      /\ req' = [req EXCEPT ![t][l] = q]
      /\ trace' = [trace EXCEPT !.disturbed = @ \cup Disturbing(t)]
  BY Constants DEF IInv, TypeOK, Sends, NoToken
<1>2. sent + 1 \in Token /\ sent' \in 0 .. MaxRequests
  BY <1>1, Constants DEF Token
<1>3. /\ q \in Request /\ q.pc = "sent" /\ q.new = sent + 1 /\ q.token = request.token
      /\ q.kind = request.kind
  BY <1>2 DEF Request
<1> HIDE DEF q
<1>4. /\ req' \in [Tabs -> [Lanes -> Request]]
      /\ req'[t][l] = q
      /\ \A u \in Tabs, m \in Lanes : (u # t \/ m # l) => req'[u][m] = req[u][m]
  BY <1>1, <1>3 DEF TypeOK, Lanes
<1>5. /\ trace' \in Trace
      /\ trace'.epoch = trace.epoch /\ trace'.spared = trace.spared /\ trace'.ended = trace.ended
      /\ trace'.swept = trace.swept /\ trace'.replays = trace.replays
      /\ trace'.disturbed = trace.disturbed \cup Disturbing(t)
  <2>1. Disturbing(t) \subseteq Browsers
    BY <1>1 DEF Disturbing
  <2> QED BY <1>1, <2>1 DEF TypeOK, Trace
<1>6. TypeOK'
  BY <1>1, <1>2, <1>4, <1>5 DEF TypeOK
<1>7. ASSUME NEW u \in Tabs, NEW m \in Lanes
      PROVE  LaneInv(u, m)'
  <2>1. CASE u = t /\ m = l
    <3>1. rows[sent + 1].status = "none"
      BY <1>1, <1>2 DEF IInv, RowInv
    <3>2. q.token # NoToken => rows[q.token].status # "none"
      BY <1>1, <1>3 DEF JarInv
    <3> QED BY <1>1, <1>3, <1>4, <2>1, <3>1, <3>2 DEF LaneInv, Lanes
  <2>2. CASE u # t \/ m # l
    <3>1. LaneInv(u, m) /\ req[u][m].new \in Nat
      BY <1>1, LaneType DEF IInv
    <3> QED BY <1>1, <1>4, <2>2, <3>1 DEF LaneInv
  <2> QED BY <2>1, <2>2
<1>8. Numbered'
  <2>1. \A u \in Tabs, m \in Lanes : req[u][m].new <= sent /\ req[u][m].new \in Nat
    BY <1>1, LaneType DEF IInv, LaneInv
  <2>2. \A u \in Tabs, m \in Lanes : req'[u][m].new = IF u = t /\ m = l THEN sent + 1 ELSE req[u][m].new
    BY <1>3, <1>4
  <2>3. \A u \in Tabs, m \in Lanes : req[u][m].new # sent + 1
    BY <1>1, <2>1
  <2> QED BY <2>2, <2>3 DEF IInv, Numbered
<1>9. \A k \in Token : RowInv(k)'
  <2> SUFFICES ASSUME NEW k \in Token PROVE RowInv(k)'
    OBVIOUS
  <2>1. RowInv(k) /\ k \in Nat
    BY DEF IInv, Token
  <2>2. k > sent + 1 => k > sent
    BY <1>1, <2>1
  <2> QED BY <1>1, <1>5, <2>1, <2>2 DEF RowInv
<1>10. \A c \in Browsers : JarInv(c)'
  BY DEF IInv, JarInv
<1>11. \A u \in Tabs : /\ req[u]["refresh"].pc \in {"rotating", "replaying"} =>
                             req'[u]["refresh"] = req[u]["refresh"]
                       /\ req'[u]["refresh"].pc \in {"rotating", "replaying"} =>
                             req'[u]["refresh"] = req[u]["refresh"]
  BY <1>1, <1>3, <1>4 DEF Lanes
<1>12. OwnerInv'
  <2>1. \A k \in Token : Owner(k)' <=> Owner(k)
    BY <1>11 DEF Owner, Rotating
  <2> QED BY <1>5, <2>1 DEF IInv, OwnerInv
<1>13. LockInv'
  BY <1>11 DEF IInv, LockInv, Refreshes
<1>14. SweepInv'
  BY <1>5, <1>11 DEF IInv, SweepInv, Live
<1>15. LinkInv' /\ RevocationReachesAll' /\ ReplayMeansDisturbed'
  BY <1>5 DEF IInv, LinkInv, LinkUsedOnce, RevocationReachesAll, Live, ReplayMeansDisturbed
<1>16. Homes'
  <2>1. ASSUME NEW c \in Browsers, NEW k \in Token, Holds(c, k)'
        PROVE  Holds(c, k) \/ (c = b /\ k = sent + 1)
    <3>1. CASE jar[c].token = k
      BY <3>1 DEF Holds
    <3>2. ASSUME NEW u \in Tabs, NEW m \in Lanes, browserOf[u] = c,
                 k \in {req'[u][m].token, req'[u][m].new}
          PROVE  Holds(c, k) \/ (c = b /\ k = sent + 1)
      <4>1. CASE u = t /\ m = l
        <5>1. k \in {q.token, sent + 1} /\ c = b
          BY <1>3, <1>4, <3>2, <4>1
        <5>2. k # NoToken
          BY DEF Token, NoToken
        <5> QED BY <1>3, <5>1, <5>2 DEF Holds
      <4>2. CASE u # t \/ m # l
        BY <1>4, <3>2, <4>2 DEF Holds
      <4> QED BY <4>1, <4>2
    <3> QED BY <2>1, <3>1, <3>2 DEF Holds
  <2>2. \A c \in Browsers : ~Holds(c, sent + 1)
    BY <1>1, <1>2, HeldSent
  <2> QED BY <2>1, <2>2 DEF IInv, Homes
<1>17. ASSUME NEW c \in Browsers \ trace'.disturbed
       PROVE  UndisturbedInv(c)'
  <2>1. UndisturbedInv(c)
    BY <1>5 DEF IInv
  <2>2. CASE c # b
    <3>1. \A u \in Tabs, m \in Lanes : browserOf[u] = c => req'[u][m] = req[u][m]
      BY <1>4, <2>2
    <3> QED BY <1>5, <2>1, <3>1 DEF UndisturbedInv, Good
  <2>3. CASE c = b
    <3>1. \A u \in Tabs, m \in Lanes : browserOf[u] = b => req[u][m].pc = "idle"
      BY <1>5, <2>3 DEF Disturbing
    <3>2. \A u \in Tabs, m \in Lanes : browserOf[u] = b =>
            \/ u = t /\ m = l /\ req'[u][m] = q
            \/ req'[u][m].pc = "idle"
      BY <1>4, <3>1
    <3>3. jar[b].token # NoToken => Good(jar[b].token)
      BY <2>1, <2>3, <3>1 DEF UndisturbedInv
    <3>4. q.token # NoToken => Good(q.token)
      BY <1>3, <3>3
    <3>5. \A u, v \in Tabs, m, n \in Lanes :
            /\ browserOf[u] = c /\ req'[u][m].pc # "idle"
            /\ browserOf[v] = c /\ req'[v][n].pc # "idle"
            => u = v /\ m = n
      BY <2>3, <3>2
    <3>6. \A u \in Tabs, m \in Lanes : browserOf[u] = c =>
            /\ req'[u][m].pc = "sent" /\ req'[u][m].token # NoToken => Good(req[u][m].token)'
            /\ req'[u][m].pc # "answered"
      BY <1>3, <1>5, <2>3, <3>2, <3>4 DEF Good
    <3> QED BY <1>5, <2>3, <3>3, <3>5, <3>6 DEF UndisturbedInv, Good
  <2> QED BY <2>2, <2>3
<1> QED BY <1>6, <1>7, <1>8, <1>9, <1>10, <1>12, <1>13, <1>14, <1>15, <1>16, <1>17 DEF IInv
\* What a tab takes from the cookie is a token, or none.
LEMMA HydratedType ==
  ASSUME TypeOK, NEW t \in Tabs
  PROVE  [csrf EXCEPT ![t] = Hydrated(t)] \in [Tabs -> Token \cup {NoToken}]
BY DEF TypeOK, Hydrated

\* A step that changes no call leaves those that wait with what they wait for.
LEMMA WaitersStay ==
  ASSUME IInv, UNCHANGED call,
         \A t \in Tabs : req'[t]["refresh"].pc = "idle" => req[t]["refresh"].pc = "idle"
  PROVE  WaitersHaveRefresh'
BY Constants DEF IInv, WaitersHaveRefresh

\* A login is sent with the password of the account.
LEMMA LoginSent ==
  ASSUME IInv, NEW t \in Tabs, LoginSend(t)
  PROVE  IInv'
<1> DEFINE request == [Quiet EXCEPT !.kind = "login", !.pc = "sent", !.password = account.password]
<1>1. TypeOK /\ account.password \in Nat
  BY DEF IInv, TypeOK
<1>2. request \in Request /\ request.pc = "sent" /\ request.kind = "login" /\ request.token = NoToken
  BY <1>1 DEF Quiet, Request, NoToken
<1>3. /\ Sends(t, "session", request)
      /\ UNCHANGED <<browserOf, account, rows, sweep, reset, jar, csrf, call, events>>
  BY DEF LoginSend, server, client
<1> HIDE DEF request
<1>4. /\ csrf' \in [Tabs -> Token \cup {NoToken}] /\ call' \in [Calls -> {"idle", "waiting"}]
  BY <1>1, <1>3 DEF TypeOK
<1>5. WaitersHaveRefresh'
  <2>1. \A u \in Tabs : req'[u]["refresh"] = req[u]["refresh"]
    BY <1>1, <1>3 DEF Sends, TypeOK, Lanes
  <2> QED BY <1>3, <2>1, WaitersStay
<1> QED BY <1>2, <1>3, <1>4, <1>5, SendsInv DEF Lanes

\* A logout is sent with the token of the browser.
LEMMA LogoutSent ==
  ASSUME IInv, NEW t \in Tabs, LogoutSend(t)
  PROVE  IInv'
<1> DEFINE request == [Quiet EXCEPT !.kind = "logout", !.pc = "sent", !.csrfOk = CsrfOk(t),
                                    !.token = jar[browserOf[t]].token]
<1>1. TypeOK /\ jar[browserOf[t]].token \in Token \cup {NoToken}
  BY DEF IInv, TypeOK
<1>2. CsrfOk(t) \in BOOLEAN
  BY DEF CsrfOk
<1>3. /\ request \in Request /\ request.pc = "sent" /\ request.kind = "logout"
      /\ request.token = jar[browserOf[t]].token
  BY <1>1, <1>2 DEF Quiet, Request, NoToken
<1>4. /\ Sends(t, "session", request) /\ jar[browserOf[t]].token # NoToken
      /\ csrf' = [csrf EXCEPT ![t] = Hydrated(t)]
      /\ UNCHANGED <<browserOf, account, rows, sweep, reset, jar, call, events>>
  BY DEF LogoutSend, server
<1> HIDE DEF request
<1>5. /\ csrf' \in [Tabs -> Token \cup {NoToken}] /\ call' \in [Calls -> {"idle", "waiting"}]
  BY <1>1, <1>4, HydratedType DEF TypeOK
<1>6. WaitersHaveRefresh'
  <2>1. \A u \in Tabs : req'[u]["refresh"] = req[u]["refresh"]
    BY <1>1, <1>4 DEF Sends, TypeOK, Lanes
  <2> QED BY <1>4, <2>1, WaitersStay
<1> QED BY <1>3, <1>4, <1>5, <1>6, SendsInv DEF Lanes

\* A step beside the tokens: of the account, the link, or a tab's memory; a cookie
\* may be dropped.
LEMMA AsideInv ==
  ASSUME IInv, TypeOK', LinkInv', WaitersHaveRefresh',
         UNCHANGED <<browserOf, rows, sent, sweep, req, trace>>,
         \A b \in Browsers : jar'[b].token \in {jar[b].token, NoToken},
         \A r \in Resets : reset[r] = "open" => reset'[r] = "open"
  PROVE  IInv'
<1>1. \A t \in Tabs, l \in Lanes : LaneInv(t, l)'
  BY DEF IInv, LaneInv
<1>2. Numbered' /\ (\A k \in Token : RowInv(k)') /\ OwnerInv' /\ LockInv'
  BY DEF IInv, Numbered, RowInv, OwnerInv, Owner, Rotating, LockInv, Refreshes
<1>3. (\A b \in Browsers : JarInv(b)') /\ SweepInv' /\ RevocationReachesAll' /\ ReplayMeansDisturbed'
  BY DEF IInv, JarInv, SweepInv, Live, RevocationReachesAll, ReplayMeansDisturbed
<1>4. Homes'
  <2>1. ASSUME NEW c \in Browsers, NEW k \in Token, Holds(c, k)'
        PROVE  Holds(c, k)
    BY <2>1 DEF Holds, Token, NoToken
  <2> QED BY <2>1 DEF IInv, Homes
<1>5. \A b \in Browsers \ trace'.disturbed : UndisturbedInv(b)'
  <2> SUFFICES ASSUME NEW b \in Browsers \ trace.disturbed PROVE UndisturbedInv(b)'
    OBVIOUS
  <2>1. UndisturbedInv(b)
    BY DEF IInv
  <2> QED BY <2>1 DEF UndisturbedInv, Good
<1> QED BY <1>1, <1>2, <1>3, <1>4, <1>5 DEF IInv

\* A call that is answered at once, and one that is refused for its CSRF token.
LEMMA Called ==
  ASSUME IInv, NEW k \in Calls,
         CallForbidden(k) \/ \E kind \in {"me", "post"} : CallOk(k, kind)
  PROVE  IInv'
<1>1. TypeOK /\ TabOf[k] \in Tabs
  BY Constants DEF IInv
<1>2. /\ UNCHANGED <<browserOf, account, rows, sweep, reset, sent, jar, call, req, trace, events>>
      /\ \/ csrf' = [csrf EXCEPT ![TabOf[k]] = NoToken]
         \/ csrf' = [csrf EXCEPT ![TabOf[k]] = Hydrated(TabOf[k])]
  BY DEF CallForbidden, CallOk, server
<1>3. csrf' \in [Tabs -> Token \cup {NoToken}]
  BY <1>1, <1>2, HydratedType DEF TypeOK
<1>4. TypeOK'
  BY <1>1, <1>2, <1>3 DEF TypeOK
<1>5. LinkInv' /\ WaitersHaveRefresh'
  BY <1>2 DEF IInv, LinkInv, LinkUsedOnce, WaitersHaveRefresh
<1> QED BY <1>2, <1>4, <1>5, AsideInv

\* A call that is refused for its access token waits for a refresh of its tab.
LEMMA Unauthorized ==
  ASSUME IInv, NEW k \in Calls, NEW kind \in {"me", "post"}, CallUnauthorized(k, kind)
  PROVE  IInv'
<1> DEFINE t == TabOf[k]
           request == [Quiet EXCEPT !.kind = "refresh", !.pc = "sent", !.csrfOk = CsrfOk(t),
                                    !.token = jar[browserOf[t]].token]
<1>1. TypeOK /\ t \in Tabs
  BY Constants DEF IInv
<1>2. /\ call' = [call EXCEPT ![k] = "waiting"]
      /\ csrf' = [csrf EXCEPT ![t] = Hydrated(t)]
      /\ \/ req[t]["refresh"].pc # "idle" /\ UNCHANGED <<sent, req, trace>>
         \/ Sends(t, "refresh", request)
      /\ UNCHANGED <<browserOf, account, rows, sweep, reset, jar, events>>
  BY DEF CallUnauthorized, server
<1>3. /\ csrf' \in [Tabs -> Token \cup {NoToken}] /\ call' \in [Calls -> {"idle", "waiting"}]
  BY <1>1, <1>2, HydratedType DEF TypeOK
<1> HIDE DEF t
<1>4. CASE req[t]["refresh"].pc # "idle" /\ UNCHANGED <<sent, req, trace>>
  <2>1. TypeOK'
    BY <1>1, <1>2, <1>3, <1>4 DEF TypeOK
  <2>2. LinkInv'
    BY <1>2 DEF IInv, LinkInv, LinkUsedOnce
  <2>3. WaitersHaveRefresh'
    BY <1>1, <1>2, <1>4 DEF IInv, TypeOK, WaitersHaveRefresh, t
  <2> QED BY <1>2, <1>4, <2>1, <2>2, <2>3, AsideInv
<1>5. CASE Sends(t, "refresh", request)
  <2>1. CsrfOk(t) \in BOOLEAN /\ jar[browserOf[t]].token \in Token \cup {NoToken}
    BY <1>1 DEF CsrfOk, TypeOK
  <2>2. /\ request \in Request /\ request.pc = "sent" /\ request.kind = "refresh"
        /\ request.token = jar[browserOf[t]].token
    BY <2>1 DEF Quiet, Request, NoToken
  <2> HIDE DEF request
  <2>3. WaitersHaveRefresh'
    <3> DEFINE q == [request EXCEPT !.new = sent + 1]
    <3>1. q.pc = "sent"
      BY <2>2 DEF Request
    <3>2. req' = [req EXCEPT ![t]["refresh"] = q]
      BY <1>5 DEF Sends
    <3> HIDE DEF q
    <3>3. req'[t]["refresh"].pc = "sent" /\ \A u \in Tabs \ {t} : req'[u] = req[u]
      BY <1>1, <3>1, <3>2 DEF TypeOK, Lanes
    <3>4. \A j \in Calls \ {k} : call'[j] = call[j]
      BY <1>1, <1>2 DEF TypeOK
    <3>5. \A u \in Tabs : req[u]["refresh"].pc # "idle" => req'[u]["refresh"].pc # "idle"
      BY <3>3
    <3> QED BY <1>1, <3>3, <3>4, <3>5, Constants DEF IInv, WaitersHaveRefresh, t
  <2> QED BY <1>1, <1>2, <1>3, <1>5, <2>2, <2>3, SendsInv DEF Lanes
<1> QED BY <1>2, <1>4, <1>5
\* An account is registered, a link is asked for, an access token expires.
LEMMA Beside ==
  ASSUME IInv, \/ Register \/ RequestReset \/ (\E b \in Browsers : AccessExpires(b))
               \/ UNCHANGED vars
  PROVE  IInv'
<1>1. TypeOK /\ LinkInv /\ WaitersHaveRefresh
  BY DEF IInv
<1>2. ASSUME Event PROVE events' \in 0 .. MaxEvents
  BY <1>1, <1>2, Constants DEF Event, TypeOK
<1>3. CASE Register \/ RequestReset
  <2>1. /\ UNCHANGED <<browserOf, rows, sent, sweep, reset, jar, csrf, call, req, trace>>
        /\ events' \in 0 .. MaxEvents
    BY <1>1, <1>2, <1>3 DEF Register, RequestReset, client, TypeOK
  <2>2. \/ account' = [account EXCEPT !.registered = TRUE]
        \/ account.link = "none" /\ account' = [account EXCEPT !.link = "issued"]
    BY <1>3 DEF Register, RequestReset
  <2>3. TypeOK'
    <3>1. account' \in [registered : BOOLEAN, password : 0 .. 1, link : {"none", "issued", "used"}]
      BY <1>1, <2>2 DEF TypeOK
    <3> QED BY <1>1, <2>1, <3>1 DEF TypeOK
  <2>4. LinkInv'
    <3>1. /\ account'.password = account.password
          /\ \/ account'.link = account.link
             \/ account.link = "none" /\ account'.link = "issued"
      BY <1>1, <2>2 DEF TypeOK
    <3> QED BY <1>1, <2>1, <3>1 DEF LinkInv, LinkUsedOnce
  <2>5. WaitersHaveRefresh'
    BY <1>1, <2>1 DEF WaitersHaveRefresh
  <2> QED BY <2>1, <2>3, <2>4, <2>5, AsideInv
<1>4. ASSUME NEW b \in Browsers, AccessExpires(b)
      PROVE  IInv'
  <2>1. /\ UNCHANGED <<browserOf, account, rows, sent, sweep, reset, csrf, call, req, trace>>
        /\ events' \in 0 .. MaxEvents
        /\ jar' = [jar EXCEPT ![b].access = FALSE]
    BY <1>2, <1>4 DEF AccessExpires, server
  <2>2. /\ jar' \in [Browsers -> [access : BOOLEAN, token : Token \cup {NoToken}]]
        /\ \A c \in Browsers : jar'[c].token = jar[c].token
    <3> DEFINE j == [jar[b] EXCEPT !.access = FALSE]
    <3>1. jar[b] \in [access : BOOLEAN, token : Token \cup {NoToken}]
      BY <1>1 DEF TypeOK
    <3>2. j \in [access : BOOLEAN, token : Token \cup {NoToken}] /\ j.token = jar[b].token
      BY <3>1
    <3>3. jar' = [jar EXCEPT ![b] = j]
      BY <2>1
    <3> HIDE DEF j
    <3> QED BY <1>1, <3>2, <3>3 DEF TypeOK
  <2>3. TypeOK'
    BY <1>1, <2>1, <2>2 DEF TypeOK
  <2>4. LinkInv' /\ WaitersHaveRefresh'
    BY <1>1, <2>1 DEF LinkInv, LinkUsedOnce, WaitersHaveRefresh
  <2> QED BY <2>1, <2>2, <2>3, <2>4, AsideInv
<1>5. CASE UNCHANGED vars
  <2>1. TypeOK' /\ LinkInv' /\ WaitersHaveRefresh'
    BY <1>1, <1>5 DEF vars, TypeOK, LinkInv, LinkUsedOnce, WaitersHaveRefresh
  <2> QED BY <1>5, <2>1, AsideInv DEF vars
<1> QED BY <1>3, <1>4, <1>5

\* A form takes the link, which no other has.
LEMMA FormOpened ==
  ASSUME IInv, NEW r \in Resets, ResetOpen(r)
  PROVE  IInv'
<1>1. TypeOK /\ LinkInv /\ WaitersHaveRefresh
  BY DEF IInv
<1>2. /\ UNCHANGED <<browserOf, account, rows, sent, sweep, jar, csrf, call, req, trace, events>>
      /\ reset' = [reset EXCEPT ![r] = "open"] /\ account.link = "issued"
      /\ \A s \in Resets : reset[s] # "open"
  BY DEF ResetOpen, client
<1>3. /\ reset' \in [Resets -> {"idle", "open", "done"}]
      /\ \A s \in Resets : reset'[s] = "open" <=> s = r
  BY <1>1, <1>2 DEF TypeOK
<1>4. TypeOK'
  BY <1>1, <1>2, <1>3 DEF TypeOK
<1>5. LinkInv' /\ WaitersHaveRefresh'
  BY <1>1, <1>2, <1>3 DEF LinkInv, LinkUsedOnce, WaitersHaveRefresh
<1> QED BY <1>2, <1>3, <1>4, <1>5, AsideInv

\* The calls that waited for a refresh of a tab do not wait when it has ended.
LEMMA WaitersGo ==
  ASSUME IInv, NEW t \in Tabs,
         call' = [k \in Calls |-> IF k \in Waiters(t) THEN "idle" ELSE call[k]],
         \A u \in Tabs \ {t} : req'[u]["refresh"] = req[u]["refresh"]
  PROVE  call' \in [Calls -> {"idle", "waiting"}] /\ WaitersHaveRefresh'
<1>1. call \in [Calls -> {"idle", "waiting"}]
  BY DEF IInv, TypeOK
<1>2. call' \in [Calls -> {"idle", "waiting"}]
  BY <1>1
<1>3. ASSUME NEW k \in Calls, call'[k] = "waiting"
      PROVE  req'[TabOf[k]]["refresh"].pc # "idle"
  <2>1. call[k] = "waiting" /\ TabOf[k] # t
    BY <1>1, <1>3 DEF Waiters
  <2> QED BY <2>1, Constants DEF IInv, WaitersHaveRefresh
<1> QED BY <1>2, <1>3 DEF WaitersHaveRefresh

\* The answer of a refresh, of a login and of a logout, and an answer that is lost.
LEMMA Ended ==
  ASSUME IInv, NEW t \in Tabs,
         \/ RefreshGranted(t) \/ RefreshRefused(t) \/ SessionAnswer(t)
         \/ \E lane \in Lanes : AnswerLost(t, lane)
  PROVE  IInv'
<1> DEFINE b == browserOf[t]
<1>1. TypeOK /\ b \in Browsers /\ "refresh" \in Lanes /\ "session" \in Lanes /\ NoToken = 0
  BY DEF IInv, TypeOK, Lanes, NoToken
<1>2. ASSUME NEW l \in Lanes, req' = [req EXCEPT ![t][l] = Quiet]
      PROVE  /\ req' \in [Tabs -> [Lanes -> Request]]
             /\ \A u \in Tabs \ {t} : req'[u] = req[u]
             /\ l = "session" => \A u \in Tabs : req'[u]["refresh"] = req[u]["refresh"]
  BY <1>1, <1>2, QuietType DEF TypeOK, Lanes
<1>3. ASSUME NEW l \in Lanes
      PROVE  /\ req[t][l].new \in Token \cup {NoToken}
             /\ [csrf EXCEPT ![t] = req[t][l].new] \in [Tabs -> Token \cup {NoToken}]
             /\ [csrf EXCEPT ![t] = NoToken] \in [Tabs -> Token \cup {NoToken}]
  <2>1. req[t][l].new \in Token \cup {NoToken}
    BY <1>1, LaneType
  <2> QED BY <1>1, <2>1 DEF TypeOK
<1>4. ASSUME NEW x \in BOOLEAN, NEW k \in Token \cup {NoToken},
             jar' = [jar EXCEPT ![b] = [access |-> x, token |-> k]]
      PROVE  /\ jar' \in [Browsers -> [access : BOOLEAN, token : Token \cup {NoToken}]]
             /\ jar'[b].token = k
             /\ \A c \in Browsers \ {b} : jar'[c].token = jar[c].token
  BY <1>1, <1>4 DEF TypeOK
<1> HIDE DEF b
<1>5. CASE RefreshGranted(t)
  <2> DEFINE r == req[t]["refresh"]
  <2>1. /\ r.pc = "answered" /\ r.granted
        /\ jar' = [jar EXCEPT ![b] = [access |-> TRUE, token |-> r.new]]
        /\ csrf' = [csrf EXCEPT ![t] = r.new]
        /\ call' = [k \in Calls |-> IF k \in Waiters(t) THEN "idle" ELSE call[k]]
        /\ req' = [req EXCEPT ![t]["refresh"] = Quiet]
        /\ UNCHANGED <<browserOf, account, rows, sweep, reset, sent, trace, events>>
    BY <1>5 DEF RefreshGranted, server, b
  <2>2. r.kind = "refresh" /\ r.new \in Token \cup {NoToken}
    <3>1. LaneInv(t, "refresh")
      BY <1>1 DEF IInv
    <3> QED BY <1>1, <1>3, <2>1, <3>1 DEF LaneInv
  <2>3. call' \in [Calls -> {"idle", "waiting"}] /\ WaitersHaveRefresh'
    BY <1>1, <1>2, <2>1, WaitersGo
  <2>4. /\ jar' \in [Browsers -> [access : BOOLEAN, token : Token \cup {NoToken}]]
        /\ jar'[b].token = r.new /\ \A c \in Browsers \ {b} : jar'[c].token = jar[c].token
    BY <1>4, <2>1, <2>2
  <2>5. TypeOK'
    BY <1>1, <1>2, <1>3, <2>1, <2>3, <2>4 DEF TypeOK
  <2> QED BY <1>1, <2>1, <2>2, <2>3, <2>4, <2>5, EndsInv DEF b
<1>6. CASE RefreshRefused(t)
  <2> DEFINE r == req[t]["refresh"]
  <2>1. /\ r.pc = "answered" /\ ~r.granted
        /\ csrf' = [csrf EXCEPT ![t] = NoToken]
        /\ call' = [k \in Calls |-> IF k \in Waiters(t) THEN "idle" ELSE call[k]]
        /\ req' = [req EXCEPT ![t]["refresh"] = Quiet]
        /\ UNCHANGED <<browserOf, account, rows, sweep, reset, sent, jar, trace, events>>
    BY <1>6 DEF RefreshRefused, server
  <2>2. call' \in [Calls -> {"idle", "waiting"}] /\ WaitersHaveRefresh'
    BY <1>1, <1>2, <2>1, WaitersGo
  <2>3. TypeOK'
    BY <1>1, <1>2, <1>3, <2>1, <2>2 DEF TypeOK
  <2> QED BY <1>1, <2>1, <2>2, <2>3, EndsInv
<1>7. CASE SessionAnswer(t)
  <2> DEFINE r == req[t]["session"]
  <2>1. /\ r.pc = "answered"
        /\ req' = [req EXCEPT ![t]["session"] = Quiet]
        /\ UNCHANGED <<browserOf, account, rows, sweep, reset, sent, call, trace, events>>
        /\ \/ /\ r.kind = "login" /\ r.granted
              /\ jar' = [jar EXCEPT ![b] = [access |-> TRUE, token |-> r.new]]
              /\ csrf' = [csrf EXCEPT ![t] = r.new]
           \/ /\ r.kind = "logout" /\ r.granted
              /\ jar' = [jar EXCEPT ![b] = [access |-> FALSE, token |-> NoToken]]
              /\ csrf' = [csrf EXCEPT ![t] = NoToken]
           \/ /\ ~r.granted
              /\ csrf' = [csrf EXCEPT ![t] = NoToken]
              /\ UNCHANGED jar
    BY <1>7 DEF SessionAnswer, server, b
  <2>2. WaitersHaveRefresh'
    BY <1>1, <1>2, <2>1, WaitersStay
  <2>3. /\ jar' \in [Browsers -> [access : BOOLEAN, token : Token \cup {NoToken}]]
        /\ \A c \in Browsers \ {b} : jar'[c].token = jar[c].token
        /\ \/ jar'[b].token = NoToken
           \/ r.granted /\ r.kind # "logout" /\ jar'[b].token = r.new
           \/ ~r.granted /\ jar'[b].token = jar[b].token
    BY <1>1, <1>3, <1>4, <2>1 DEF TypeOK
  <2>4. csrf' \in [Tabs -> Token \cup {NoToken}]
    BY <1>1, <1>3, <2>1
  <2>5. TypeOK'
    BY <1>1, <1>2, <2>1, <2>3, <2>4 DEF TypeOK
  <2> QED BY <1>1, <2>1, <2>2, <2>3, <2>5, EndsInv DEF b
<1>8. ASSUME NEW l \in Lanes, AnswerLost(t, l)
      PROVE  IInv'
  <2>1. /\ req[t][l].pc = "answered" /\ Event
        /\ req' = [req EXCEPT ![t][l] = Quiet]
        /\ csrf' = IF l = "refresh" THEN [csrf EXCEPT ![t] = NoToken] ELSE csrf
        /\ call' = [k \in Calls |-> IF l = "refresh" /\ k \in Waiters(t) THEN "idle" ELSE call[k]]
        /\ trace' = [trace EXCEPT !.disturbed = @ \cup {b}]
        /\ UNCHANGED <<browserOf, account, rows, sweep, reset, sent, jar>>
    BY <1>8 DEF AnswerLost, server, b
  <2>2. call' \in [Calls -> {"idle", "waiting"}] /\ WaitersHaveRefresh'
    <3>1. CASE l = "refresh"
      BY <1>1, <1>2, <2>1, <3>1, WaitersGo
    <3>2. CASE l = "session"
      <4>1. call' = call
        BY <1>1, <2>1, <3>2 DEF TypeOK
      <4> QED BY <1>1, <1>2, <2>1, <3>2, <4>1, WaitersStay DEF TypeOK
    <3> QED BY <3>1, <3>2 DEF Lanes
  <2>3. trace' \in Trace /\ b \in trace'.disturbed
    <3>1. trace.disturbed \cup {b} \in SUBSET Browsers
      BY <1>1 DEF TypeOK, Trace, b
    <3> QED BY <1>1, <2>1, <3>1 DEF TypeOK, Trace
  <2>4. csrf' \in [Tabs -> Token \cup {NoToken}]
    BY <1>1, <1>3, <2>1 DEF TypeOK
  <2>5. events' \in 0 .. MaxEvents
    BY <1>1, <2>1, Constants DEF Event, TypeOK
  <2>6. TypeOK'
    BY <1>1, <1>2, <2>1, <2>2, <2>3, <2>4, <2>5 DEF TypeOK
  <2> QED BY <1>1, <2>1, <2>2, <2>3, <2>6, EndsInv DEF b
<1> QED BY <1>5, <1>6, <1>7, <1>8
-------------------------------------------------------------------------------
(* The server commits *)

\* A transaction that grants its request revokes at most the token of the request,
\* and makes at most the row of its number.
Commits(t, l) ==
  LET r == req[t][l] IN
  /\ r.pc \in {"sent", "rotating", "verified"}
  /\ r.pc = "sent" => r.kind = "logout"
  /\ req' = [req EXCEPT ![t][l] = Answered(r, TRUE)]
  /\ UNCHANGED <<browserOf, account, sent, sweep, reset, jar, csrf, call, events>>
  /\ \A k \in Token \ {r.token, r.new} : rows'[k] = rows[k]
  /\ r.kind # "logout" => rows'[r.new].status = "live"
  /\ r.kind = "logout" /\ r.new # r.token => rows'[r.new] = rows[r.new]
  /\ r.token # NoToken => rows'[r.token].status # "none"

\* What such a step keeps of the requests, the jars and the browsers.
LEMMA CommitsInv ==
  ASSUME IInv, NEW t \in Tabs, NEW l \in Lanes, Commits(t, l), rows' \in [Token -> Row],
         trace'.swept = trace.swept, trace'.replays = trace.replays,
         trace'.disturbed = trace.disturbed
  PROVE  /\ req' \in [Tabs -> [Lanes -> Request]]
         /\ req'[t][l].pc = "answered"
         /\ \A u \in Tabs, m \in Lanes : (u # t \/ m # l) => req'[u][m] = req[u][m]
         /\ \A u \in Tabs, m \in Lanes : LaneInv(u, m)'
         /\ Numbered'
         /\ \A b \in Browsers : JarInv(b)'
         /\ LockInv'
         /\ LinkInv'
         /\ Homes'
         /\ ReplayMeansDisturbed'
         /\ \A b \in Browsers \ trace'.disturbed : UndisturbedInv(b)'
         /\ WaitersHaveRefresh'
<1> DEFINE r == req[t][l]
           q == Answered(r, TRUE)
           b == browserOf[t]
<1>1. /\ TypeOK /\ b \in Browsers /\ r \in Request /\ LaneInv(t, l)
      /\ r.pc # "idle" /\ r.pc # "answered"
      /\ r.new \in Token /\ rows[r.new].status = "none" /\ r.token \in Token \cup {NoToken}
      /\ r.token # r.new
  <2>1. TypeOK /\ b \in Browsers /\ LaneInv(t, l) /\ r.pc # "idle" /\ r.pc # "answered"
    BY DEF IInv, TypeOK, Commits
  <2>2. r \in Request /\ (r.new # NoToken => r.new \in Token) /\ (r.token # NoToken => r.token \in Token)
    BY <2>1, LaneType
  <2>3. r.new # NoToken /\ rows[r.new].status = "none" /\ r.token # r.new
    BY <2>1 DEF LaneInv
  <2> QED BY <2>1, <2>2, <2>3
<1>2. /\ q \in Request /\ q.kind = r.kind /\ q.pc = "answered" /\ q.token = NoToken
      /\ q.granted = TRUE /\ q.new = r.new
  BY <1>1, AnsweredType
<1>3. req' = [req EXCEPT ![t][l] = q]
  BY DEF Commits
<1> HIDE DEF q
<1>4. /\ req' \in [Tabs -> [Lanes -> Request]]
      /\ req'[t][l] = q
      /\ \A u \in Tabs, m \in Lanes : (u # t \/ m # l) => req'[u][m] = req[u][m]
  BY <1>1, <1>2, <1>3 DEF TypeOK, Lanes
<1>5. /\ UNCHANGED <<browserOf, account, sent, sweep, reset, jar, csrf, call, events>>
      /\ \A k \in Token \ {r.token, r.new} : rows'[k] = rows[k]
      /\ r.kind # "logout" => rows'[r.new].status = "live"
      /\ r.kind = "logout" => rows'[r.new] = rows[r.new]
      /\ r.token # NoToken => rows'[r.token].status # "none"
  BY <1>1 DEF Commits
<1>6. \A k \in Token : rows[k].status # "none" => rows'[k].status # "none"
  BY <1>1, <1>5, Constants DEF Token, NoToken
<1>7. \A k \in Token \ {r.new} : rows[k].status = "none" => rows'[k].status = "none"
  <2>1. r.token # NoToken => rows[r.token].status # "none"
    BY <1>1 DEF LaneInv
  <2> QED BY <1>5, <2>1 DEF Token, NoToken
<1>8. ASSUME NEW u \in Tabs, NEW m \in Lanes
      PROVE  LaneInv(u, m)'
  <2>1. CASE u = t /\ m = l
    <3>1. q.new <= sent
      BY <1>1, <1>2 DEF LaneInv
    <3>2. q.kind \in (IF l = "refresh" THEN {"refresh"} ELSE {"login", "logout"})
      BY <1>1, <1>2 DEF LaneInv
    <3>3. q.kind # "logout" => q.new # NoToken /\ rows'[q.new].status # "none"
      BY <1>1, <1>2, <1>5 DEF LaneInv
    <3> QED BY <1>2, <1>4, <1>5, <2>1, <3>1, <3>2, <3>3 DEF LaneInv
  <2>2. CASE u # t \/ m # l
    <3>1. /\ LaneInv(u, m)
          /\ (req[u][m].new # NoToken => req[u][m].new \in Token)
          /\ (req[u][m].token # NoToken => req[u][m].token \in Token)
      BY <1>1, LaneType DEF IInv
    <3>2. req[u][m].new # NoToken => req[u][m].new # r.new
      BY <2>2 DEF IInv, Numbered
    <3> QED BY <1>4, <1>5, <1>6, <1>7, <2>2, <3>1, <3>2 DEF LaneInv
  <2> QED BY <2>1, <2>2
<1>9. Numbered'
  <2>1. \A u \in Tabs, m \in Lanes : req'[u][m].new = req[u][m].new
    BY <1>2, <1>4
  <2> QED BY <2>1 DEF IInv, Numbered
<1>10. \A c \in Browsers : JarInv(c)'
  <2>1. \A c \in Browsers : JarInv(c) /\ jar[c].token \in Token \cup {NoToken}
    BY <1>1 DEF IInv, TypeOK
  <2> QED BY <1>5, <1>6, <2>1 DEF JarInv
<1>11. \A u \in Tabs : /\ req'[u]["refresh"].pc \in {"rotating", "replaying"} =>
                             req'[u]["refresh"] = req[u]["refresh"]
                       /\ req[u]["refresh"].pc # "idle" => req'[u]["refresh"].pc # "idle"
  BY <1>2, <1>4 DEF Lanes
<1>12. LockInv'
  BY <1>11 DEF IInv, LockInv, Refreshes
<1>13. LinkInv' /\ ReplayMeansDisturbed'
  BY <1>5 DEF IInv, LinkInv, LinkUsedOnce, ReplayMeansDisturbed
<1>14. Homes'
  <2>1. ASSUME NEW c \in Browsers, NEW k \in Token, Holds(c, k)'
        PROVE  Holds(c, k)
    <3>1. \A u \in Tabs, m \in Lanes : /\ req'[u][m].new = req[u][m].new
                                       /\ req'[u][m].token \in {NoToken, req[u][m].token}
      BY <1>2, <1>4
    <3>2. k # NoToken
      BY DEF Token, NoToken
    <3> QED BY <1>5, <2>1, <3>1, <3>2 DEF Holds
  <2> QED BY <2>1 DEF IInv, Homes
<1>15. ASSUME NEW c \in Browsers \ trace'.disturbed
       PROVE  UndisturbedInv(c)'
  <2>1. UndisturbedInv(c)
    BY DEF IInv
  <2>2. \A k \in Token \ {r.token} : Good(k) => Good(k)'
    <3> SUFFICES ASSUME NEW k \in Token \ {r.token}, Good(k) PROVE Good(k)'
      OBVIOUS
    <3>1. CASE k # r.new
      BY <1>5, <3>1 DEF Good
    <3>2. CASE k = r.new
      <4>1. r.new \notin trace.swept
        BY <1>1 DEF IInv, SweepInv
      <4> QED BY <1>1, <3>2, <4>1 DEF Good
    <3> QED BY <3>1, <3>2
  <2>3. \A u, v \in Tabs, m, n \in Lanes :
          /\ browserOf[u] = c /\ req'[u][m].pc # "idle"
          /\ browserOf[v] = c /\ req'[v][n].pc # "idle"
          => u = v /\ m = n
    <3>1. \A u \in Tabs, m \in Lanes : req'[u][m].pc # "idle" => req[u][m].pc # "idle"
      BY <1>1, <1>4
    <3> QED BY <2>1, <3>1 DEF UndisturbedInv
  <2>4. CASE c # b
    <3>1. \A u \in Tabs, m \in Lanes : browserOf[u] = c => req'[u][m] = req[u][m]
      BY <1>4, <2>4
    <3>2. \A k \in Token : Holds(c, k) => k # r.token
      BY <1>1, <2>4 DEF IInv, Homes, Holds
    <3>3. \A k \in Token : Holds(c, k) /\ Good(k) => Good(k)'
      BY <2>2, <3>2
    <3>4. jar[c].token # NoToken =>
            \/ Good(jar[c].token)'
            \/ \E u \in Tabs, m \in Lanes :
                 browserOf[u] = c /\ req'[u][m].pc = "answered" /\ req'[u][m].granted
      <4>1. jar[c].token \in Token \cup {NoToken} /\ Holds(c, jar[c].token)
        BY <1>1 DEF TypeOK, Holds
      <4>2. jar[c].token # NoToken /\ Good(jar[c].token) => Good(jar[c].token)'
        BY <1>5, <3>3, <4>1 DEF Good
      <4> QED BY <2>1, <3>1, <4>2 DEF UndisturbedInv
    <3>5. ASSUME NEW u \in Tabs, NEW m \in Lanes, browserOf[u] = c
          PROVE  /\ req'[u][m].pc = "sent" /\ req'[u][m].token # NoToken => Good(req[u][m].token)'
                 /\ req'[u][m].pc = "answered" /\ req'[u][m].granted /\ req'[u][m].kind # "logout"
                      => Good(req[u][m].new)'
      <4>1. /\ (req[u][m].token # NoToken => req[u][m].token \in Token)
            /\ (req[u][m].new # NoToken => req[u][m].new \in Token)
            /\ Holds(c, req[u][m].token) /\ Holds(c, req[u][m].new)
            /\ LaneInv(u, m)
        BY <1>1, <3>5, LaneType DEF IInv, Holds
      <4>2. req'[u][m] = req[u][m]
        BY <3>1, <3>5
      <4>3. /\ req[u][m].pc = "sent" /\ req[u][m].token # NoToken => Good(req[u][m].token)
            /\ req[u][m].pc = "answered" /\ req[u][m].granted /\ req[u][m].kind # "logout"
                 => Good(req[u][m].new) /\ req[u][m].new # NoToken
        BY <2>1, <3>5, <4>1 DEF UndisturbedInv, LaneInv
      <4> QED BY <3>3, <4>1, <4>2, <4>3 DEF Good
    <3> QED BY <1>5, <2>3, <3>4, <3>5 DEF UndisturbedInv
  <2>5. CASE c = b
    <3>1. \A u \in Tabs, m \in Lanes : browserOf[u] = c /\ req'[u][m].pc # "idle" =>
            u = t /\ m = l /\ req'[u][m] = q
      BY <1>2, <1>4, <2>3, <2>5
    <3>2. q.kind # "logout" => rows'[q.new].status = "live"
      BY <1>2, <1>5
    <3>3. \E u \in Tabs, m \in Lanes :
            browserOf[u] = c /\ req'[u][m].pc = "answered" /\ req'[u][m].granted
      BY <1>2, <1>4, <2>5
    <3>4. ASSUME NEW u \in Tabs, NEW m \in Lanes, browserOf[u] = c
          PROVE  /\ req'[u][m].pc = "sent" /\ req'[u][m].token # NoToken => Good(req[u][m].token)'
                 /\ req'[u][m].pc = "answered" /\ req'[u][m].granted /\ req'[u][m].kind # "logout"
                      => Good(req[u][m].new)'
      BY <1>2, <3>1, <3>2, <3>4 DEF Good
    <3> QED BY <1>5, <2>3, <3>3, <3>4 DEF UndisturbedInv
  <2> QED BY <2>4, <2>5
<1>16. WaitersHaveRefresh'
  BY <1>5, <1>11, WaitersStay
<1> QED BY <1>2, <1>4, <1>8, <1>9, <1>10, <1>12, <1>13, <1>14, <1>15, <1>16

\* A token is made for a login, which gives up the one it had.
LEMMA Issued ==
  ASSUME IInv, NEW t \in Tabs, NEW l \in Lanes, NEW c \in Token, Commits(t, l),
         req[t][l].kind # "logout",
         rows' \in [Token -> Row],
         rows'[req[t][l].new] = [status |-> "live", chain |-> c, epoch |-> trace.epoch],
         \A k \in Token \ {req[t][l].new} :
           /\ rows'[k].chain = rows[k].chain /\ rows'[k].epoch = rows[k].epoch
           /\ rows'[k].status = "live" => rows[k].status = "live"
           /\ rows'[k].status = "none" <=> rows[k].status = "none"
           /\ Owner(k)' => rows'[k] = rows[k] /\ rows[k].chain # c,
         \A k \in trace.swept : rows'[k] = rows[k],
         rows'[c].status # "none", c \notin trace.ended,
         trace' = [trace EXCEPT !.spared = @ \cup Escaping(req[t][l].new)]
  PROVE  IInv'
<1> DEFINE n == req[t][l].new
<1>1. /\ TypeOK /\ req[t][l].pc \in {"rotating", "verified"} /\ n \in Token
      /\ rows[n].status = "none" /\ n <= sent
  <2>1. /\ TypeOK /\ LaneInv(t, l) /\ req[t][l].pc \in {"rotating", "verified"}
    BY DEF IInv, Commits
  <2>2. n # NoToken => n \in Token
    BY <2>1, LaneType
  <2> QED BY <2>1, <2>2 DEF LaneInv
<1>2. /\ trace'.epoch = trace.epoch /\ trace'.ended = trace.ended /\ trace'.swept = trace.swept
      /\ trace'.replays = trace.replays /\ trace'.disturbed = trace.disturbed
      /\ trace'.spared = trace.spared \cup Escaping(n)
      /\ trace' \in Trace
  <2>1. trace.spared \cup Escaping(n) \in SUBSET Token
    BY <1>1 DEF TypeOK, Trace, Escaping
  <2> QED BY <1>1, <2>1 DEF TypeOK, Trace
<1>3. /\ req' \in [Tabs -> [Lanes -> Request]]
      /\ req'[t][l].pc = "answered"
      /\ \A u \in Tabs, m \in Lanes : (u # t \/ m # l) => req'[u][m] = req[u][m]
      /\ \A u \in Tabs, m \in Lanes : LaneInv(u, m)'
      /\ Numbered' /\ LockInv' /\ LinkInv' /\ Homes' /\ ReplayMeansDisturbed'
      /\ WaitersHaveRefresh'
      /\ \A b \in Browsers : JarInv(b)'
      /\ \A b \in Browsers \ trace'.disturbed : UndisturbedInv(b)'
  BY <1>2, CommitsInv
<1>4. UNCHANGED <<browserOf, account, sent, sweep, reset, jar, csrf, call, events>>
  BY DEF Commits
<1>5. TypeOK'
  BY <1>1, <1>2, <1>3, <1>4 DEF TypeOK
<1>6. \A u \in Tabs : /\ Rotating(u)' => Rotating(u) /\ req'[u]["refresh"] = req[u]["refresh"]
                      /\ req[u]["refresh"].pc = "replaying" =>
                           req'[u]["refresh"] = req[u]["refresh"]
  BY <1>1, <1>3 DEF Rotating, Lanes
<1>7. \A k \in Token \ {n} : Owner(k)' => Owner(k)
  BY <1>6 DEF Owner
<1>8. /\ rows'[n].status = "live" /\ rows'[n].chain = c /\ rows'[n].epoch = trace.epoch
  OBVIOUS
<1>9. ASSUME NEW k \in Token
      PROVE  RowInv(k)'
  <2>1. /\ RowInv(k) /\ \A j \in Token : rows[j].status # "none" => rows'[j].status # "none"
    BY <1>1, <1>8 DEF IInv
  <2>2. CASE k = n
    <3>1. ~(k > sent)
      BY <1>1, <2>2, Constants DEF TypeOK, Token
    <3>2. trace.epoch <= trace.epoch
      BY <1>1 DEF TypeOK, Trace
    <3> QED BY <1>2, <1>4, <1>8, <2>2, <3>1, <3>2 DEF RowInv
  <2>3. CASE k # n
    BY <1>2, <1>4, <2>1, <2>3 DEF RowInv
  <2> QED BY <2>2, <2>3
<1>10. OwnerInv'
  <2>1. OwnerInv
    BY DEF IInv
  <2>2. ASSUME NEW j \in Token, NEW k \in Token, Owner(j)', Owner(k)',
               rows'[j].chain = rows'[k].chain
        PROVE  j = k
    <3>1. CASE j = n \/ k = n
      BY <1>8, <2>2, <3>1
    <3>2. CASE j # n /\ k # n
      BY <1>7, <2>1, <2>2, <3>2 DEF OwnerInv
    <3> QED BY <3>1, <3>2
  <2>3. ASSUME NEW k \in Token, Owner(k)'
        PROVE  rows'[k].status \in {"live", "expired"} /\ rows'[k].chain \notin trace'.ended
    <3>1. CASE k = n
      BY <1>2, <1>8, <3>1
    <3>2. CASE k # n
      BY <1>2, <1>7, <2>1, <2>3, <3>2 DEF OwnerInv
    <3> QED BY <3>1, <3>2
  <2>4. \A k \in trace'.ended : rows'[k].status # "none"
    <3>1. \A k \in trace.ended : rows[k].status # "none" /\ k \in Token
      BY <1>1, <2>1 DEF OwnerInv, TypeOK, Trace
    <3> QED BY <1>1, <1>2, <3>1
  <2> QED BY <2>2, <2>3, <2>4 DEF OwnerInv
<1>11. SweepInv'
  <2>1. SweepInv
    BY DEF IInv
  <2>2. sweep.by \in Tabs => req'[sweep.by]["refresh"].pc = "replaying"
    BY <1>6, <2>1 DEF SweepInv
  <2>3. sweep.by # "none" => Live' \subseteq sweep.over \cup trace'.spared
    BY <1>2, <2>1 DEF SweepInv, Live, Escaping
  <2>4. \A k \in trace'.swept : rows'[k].status = "revoked" /\ rows'[k].epoch < trace'.epoch
    BY <1>2, <2>1 DEF SweepInv
  <2> QED BY <1>4, <2>1, <2>2, <2>3, <2>4 DEF SweepInv
<1>12. RevocationReachesAll'
  <2>1. \A k \in Live' : k = n \/ (k \in Live /\ rows'[k].epoch = rows[k].epoch)
    BY DEF Live
  <2> QED BY <1>2, <1>8, <2>1 DEF IInv, RevocationReachesAll
<1> QED BY <1>3, <1>5, <1>9, <1>10, <1>11, <1>12 DEF IInv

\* A rotation revokes the token it locked and makes the next of the login.
LEMMA Rotated ==
  ASSUME IInv, NEW t \in Tabs, RotateCommit(t)
  PROVE  IInv'
<1> DEFINE r == req[t]["refresh"]
           k0 == r.token
           n == r.new
           c == rows[k0].chain
<1>1. /\ TypeOK /\ OwnerInv /\ "refresh" \in Lanes /\ LaneInv(t, "refresh") /\ r.pc = "rotating"
      /\ trace.swept \subseteq Token
  BY DEF IInv, Lanes, RotateCommit, TypeOK, Trace
<1>2. /\ n \in Token /\ k0 \in Token /\ k0 # n
      /\ rows[n].status = "none" /\ rows[k0].status # "none" /\ r.kind = "refresh"
  <2>1. /\ n # NoToken /\ k0 # NoToken /\ rows[n].status = "none" /\ rows[k0].status # "none"
        /\ r.kind = "refresh"
    BY <1>1 DEF LaneInv
  <2> QED BY <1>1, <2>1, LaneType
<1>3. Owner(k0) /\ rows[k0].status \in {"live", "expired"} /\ c \notin trace.ended
  <2>1. Owner(k0)
    BY <1>1 DEF Owner, Rotating
  <2> QED BY <1>1, <1>2, <2>1 DEF OwnerInv
<1>4. c \in Token /\ rows[c].status # "none"
  <2>1. RowInv(k0)
    BY <1>2 DEF IInv
  <2> QED BY <1>2, <2>1 DEF RowInv
<1>5. /\ rows' = [rows EXCEPT ![k0].status = "revoked",
                              ![n] = [status |-> "live", chain |-> c, epoch |-> trace.epoch]]
      /\ trace' = [trace EXCEPT !.spared = @ \cup Escaping(n)]
      /\ req' = [req EXCEPT ![t]["refresh"] = Answered(r, TRUE)]
      /\ UNCHANGED <<browserOf, account, sent, sweep, reset, jar, csrf, call, events>>
  BY DEF RotateCommit, client
<1> DEFINE p == [rows[k0] EXCEPT !.status = "revoked"]
           q == [status |-> "live", chain |-> c, epoch |-> trace.epoch]
<1>6. /\ p \in Row /\ p.status = "revoked" /\ p.chain = rows[k0].chain /\ p.epoch = rows[k0].epoch
      /\ q \in Row /\ q.status = "live" /\ q.chain = c /\ q.epoch = trace.epoch
  BY <1>1, <1>2, <1>4 DEF TypeOK, Row, Trace
<1>7. rows' = [rows EXCEPT ![k0] = p, ![n] = q]
  BY <1>5
<1> HIDE DEF p, q
<1>8. /\ rows' \in [Token -> Row] /\ rows'[n] = q /\ rows'[k0] = p
      /\ \A k \in Token \ {k0, n} : rows'[k] = rows[k]
  BY <1>1, <1>2, <1>6, <1>7 DEF TypeOK
<1>9. Commits(t, "refresh")
  BY <1>1, <1>2, <1>5, <1>6, <1>8 DEF Commits
<1>10. Answered(r, TRUE).pc = "answered"
  BY <1>1, LaneType, AnsweredType
<1>11. ASSUME NEW k \in Token, k = k0
       PROVE  ~Owner(k)'
  <2>1. rows'[k].status # "live"
    BY <1>6, <1>8, <1>11
  <2>2. ASSUME NEW u \in Tabs, Rotating(u)', req'[u]["refresh"].token = k
        PROVE  FALSE
    <3>1. req'[t]["refresh"].pc = "answered" /\ (u # t => req'[u]["refresh"] = req[u]["refresh"])
      BY <1>1, <1>5, <1>10 DEF TypeOK
    <3>2. u # t /\ u \in Refreshes /\ t \in Refreshes
      BY <1>1, <2>2, <3>1 DEF Rotating, Refreshes
    <3> QED BY <1>11, <2>2, <3>1, <3>2 DEF IInv, LockInv
  <2> QED BY <2>1, <2>2 DEF Owner
<1>12. ASSUME NEW k \in Token \ {n}, Owner(k)'
       PROVE  rows'[k] = rows[k] /\ rows[k].chain # c
  <2>1. k # k0
    BY <1>11, <1>12
  <2>2. \A u \in Tabs : Rotating(u)' => req'[u]["refresh"] = req[u]["refresh"]
    BY <1>1, <1>5, <1>10 DEF TypeOK, Rotating
  <2>3. Owner(k)
    BY <1>8, <1>12, <2>1, <2>2 DEF Owner, Rotating
  <2> QED BY <1>1, <1>2, <1>3, <1>8, <2>1, <2>3 DEF OwnerInv
<1>13. \A k \in trace.swept : rows'[k] = rows[k]
  <2>1. \A k \in trace.swept : rows[k].status = "revoked"
    BY DEF IInv, SweepInv
  <2> QED BY <1>1, <1>2, <1>3, <1>8, <2>1
<1>14. rows'[n] = [status |-> "live", chain |-> c, epoch |-> trace.epoch] /\ rows'[c].status # "none"
  BY <1>4, <1>6, <1>8 DEF q
<1>15. \A k \in Token \ {n} :
         /\ rows'[k].chain = rows[k].chain /\ rows'[k].epoch = rows[k].epoch
         /\ rows'[k].status = "live" => rows[k].status = "live"
         /\ rows'[k].status = "none" <=> rows[k].status = "none"
         /\ Owner(k)' => rows'[k] = rows[k] /\ rows[k].chain # c
  BY <1>2, <1>6, <1>8, <1>12
<1> HIDE DEF c, n, k0
<1> QED BY <1>1, <1>2, <1>3, <1>4, <1>5, <1>8, <1>9, <1>13, <1>14, <1>15, Issued DEF n

\* A login begins a chain of its own.
LEMMA LoggedIn ==
  ASSUME IInv, NEW t \in Tabs, LoginCommit(t)
  PROVE  IInv'
<1> DEFINE r == req[t]["session"]
           n == r.new
<1>1. /\ TypeOK /\ OwnerInv /\ "session" \in Lanes /\ LaneInv(t, "session") /\ r.pc = "verified"
      /\ trace.swept \subseteq Token
  BY DEF IInv, Lanes, LoginCommit, TypeOK, Trace
<1>2. /\ n \in Token /\ rows[n].status = "none" /\ r.kind = "login"
      /\ r.token \in Token \cup {NoToken} /\ r.token # n
      /\ r.token # NoToken => rows[r.token].status # "none"
  <2>1. /\ n # NoToken /\ rows[n].status = "none" /\ r.kind = "login"
        /\ r.token # NoToken => rows[r.token].status # "none"
    BY <1>1 DEF LaneInv
  <2> QED BY <1>1, <2>1, LaneType
<1>3. /\ rows' = [rows EXCEPT ![n] = [status |-> "live", chain |-> n, epoch |-> trace.epoch]]
      /\ trace' = [trace EXCEPT !.spared = @ \cup Escaping(n)]
      /\ req' = [req EXCEPT ![t]["session"] = Answered(r, TRUE)]
      /\ UNCHANGED <<browserOf, account, sent, sweep, reset, jar, csrf, call, events>>
  BY DEF LoginCommit, client
<1> DEFINE q == [status |-> "live", chain |-> n, epoch |-> trace.epoch]
<1>4. q \in Row /\ q.status = "live"
  BY <1>1, <1>2 DEF TypeOK, Row, Trace
<1>5. rows' = [rows EXCEPT ![n] = q]
  BY <1>3
<1> HIDE DEF q
<1>6. /\ rows' \in [Token -> Row] /\ rows'[n] = q
      /\ \A k \in Token \ {n} : rows'[k] = rows[k]
  BY <1>1, <1>2, <1>4, <1>5 DEF TypeOK
<1>7. Commits(t, "session")
  <2>1. r.token # NoToken => rows'[r.token].status # "none"
    BY <1>2, <1>6
  <2> QED BY <1>1, <1>2, <1>3, <1>4, <1>6, <2>1 DEF Commits
<1>8. n \notin trace.ended
  BY <1>1, <1>2 DEF OwnerInv
<1>9. \A k \in trace.swept : rows'[k] = rows[k]
  <2>1. \A k \in trace.swept : rows[k].status = "revoked"
    BY DEF IInv, SweepInv
  <2> QED BY <1>1, <1>2, <1>6, <2>1
<1>10. \A u \in Tabs : req'[u]["refresh"] = req[u]["refresh"]
  BY <1>1, <1>3 DEF TypeOK, Lanes
<1>11. ASSUME NEW k \in Token \ {n}, Owner(k)'
       PROVE  rows[k].chain # n
  <2>1. Owner(k)
    BY <1>6, <1>10, <1>11 DEF Owner, Rotating
  <2>2. rows[k].status # "none" /\ RowInv(k)
    BY <1>1, <2>1 DEF OwnerInv, IInv
  <2> QED BY <1>2, <2>2 DEF RowInv
<1>12. rows'[n] = [status |-> "live", chain |-> n, epoch |-> trace.epoch] /\ rows'[n].status # "none"
  BY <1>4, <1>6 DEF q
<1>13. \A k \in Token \ {n} :
         /\ rows'[k].chain = rows[k].chain /\ rows'[k].epoch = rows[k].epoch
         /\ rows'[k].status = "live" => rows[k].status = "live"
         /\ rows'[k].status = "none" <=> rows[k].status = "none"
         /\ Owner(k)' => rows'[k] = rows[k] /\ rows[k].chain # n
  BY <1>6, <1>11
<1> HIDE DEF n
<1> QED BY <1>1, <1>2, <1>3, <1>6, <1>7, <1>8, <1>9, <1>12, <1>13, Issued DEF n

\* A logout ends the login of its token, unless it was refused or the token revoked.
LEMMA LoggedOut ==
  ASSUME IInv, NEW t \in Tabs, LogoutCommit(t)
  PROVE  IInv'
<1> DEFINE r == req[t]["session"]
           k0 == r.token
<1>1. /\ TypeOK /\ OwnerInv /\ SweepInv /\ "session" \in Lanes /\ LaneInv(t, "session")
      /\ r.kind = "logout" /\ r.pc = "sent" /\ r \in Request
  BY DEF IInv, Lanes, LogoutCommit, TypeOK
<1>2. UNCHANGED <<browserOf, account, sent, sweep, reset, jar, csrf, call, events>>
  BY DEF LogoutCommit, client
<1>3. CASE ~r.csrfOk
  <2>1. req' = [req EXCEPT ![t]["session"] = Answered(r, FALSE)] /\ UNCHANGED <<rows, trace>>
    BY <1>3 DEF LogoutCommit
  <2> DEFINE q == Answered(r, FALSE)
  <2>2. /\ q \in Request /\ q.kind = r.kind /\ q.pc = "answered" /\ q.token = NoToken
        /\ ~q.granted /\ q.new = NoToken
    BY <1>1, AnsweredType
  <2>3. req' = [req EXCEPT ![t]["session"] = q]
    BY <2>1
  <2> HIDE DEF q
  <2>4. Turns(t, "session", q)
    BY <1>1, <2>2, <2>3 DEF Turns
  <2>5. ReplayMeansDisturbed'
    BY <2>1 DEF IInv, ReplayMeansDisturbed
  <2> QED BY <1>1, <1>2, <2>1, <2>2, <2>4, <2>5, TurnsInv
<1>4. CASE r.csrfOk
  <2>1. /\ ~Locked(k0)
        /\ rows' = IF rows[k0].status = "live"
                   THEN [rows EXCEPT ![k0].status = "revoked"] ELSE rows
        /\ trace' = IF rows[k0].status = "live"
                    THEN [trace EXCEPT !.ended = @ \cup {rows[k0].chain}] ELSE trace
        /\ req' = [req EXCEPT ![t]["session"] = Answered(r, TRUE)]
    BY <1>4 DEF LogoutCommit
  <2>2. k0 \in Token /\ rows[k0].status # "none" /\ k0 # r.new /\ RowInv(k0)
    <3>1. k0 # NoToken /\ rows[k0].status # "none" /\ rows[r.new].status = "none"
      BY <1>1 DEF LaneInv
    <3> QED BY <1>1, <3>1, LaneType DEF IInv
  <2>3. rows[k0].chain \in Token /\ rows[rows[k0].chain].status # "none"
    BY <2>2 DEF RowInv
  <2>4. /\ rows' \in [Token -> Row] /\ rows'[k0].status \notin {"none", "live"}
        /\ rows'[k0].chain = rows[k0].chain /\ rows'[k0].epoch = rows[k0].epoch
        /\ \A k \in Token \ {k0} : rows'[k] = rows[k]
        /\ rows[k0].status # "live" => rows'[k0] = rows[k0]
    <3> DEFINE p == [rows[k0] EXCEPT !.status = "revoked"]
    <3>1. rows[k0] \in Row
      BY <1>1, <2>2 DEF TypeOK
    <3>2. p \in Row /\ p.status = "revoked" /\ p.chain = rows[k0].chain /\ p.epoch = rows[k0].epoch
      BY <3>1 DEF Row
    <3>3. rows[k0].status = "live" => rows' = [rows EXCEPT ![k0] = p]
      BY <2>1
    <3> HIDE DEF p
    <3> QED BY <1>1, <2>1, <2>2, <3>2, <3>3 DEF TypeOK
  <2>5. /\ trace' \in Trace /\ trace'.epoch = trace.epoch /\ trace'.spared = trace.spared
        /\ trace'.swept = trace.swept /\ trace'.replays = trace.replays
        /\ trace'.disturbed = trace.disturbed
        /\ \/ rows[k0].status = "live" /\ trace'.ended = trace.ended \cup {rows[k0].chain}
           \/ rows[k0].status # "live" /\ trace'.ended = trace.ended
    <3>1. trace.ended \cup {rows[k0].chain} \in SUBSET Token
      BY <1>1, <2>3 DEF TypeOK, Trace
    <3>2. CASE rows[k0].status = "live"
      BY <1>1, <2>1, <3>1, <3>2 DEF TypeOK, Trace
    <3>3. CASE rows[k0].status # "live"
      BY <1>1, <2>1, <3>3 DEF TypeOK
    <3> QED BY <3>2, <3>3
  <2>6. Commits(t, "session")
    BY <1>1, <1>2, <2>1, <2>2, <2>4 DEF Commits
  <2>7. /\ req' \in [Tabs -> [Lanes -> Request]]
        /\ \A u \in Tabs, m \in Lanes : LaneInv(u, m)'
        /\ Numbered' /\ LockInv' /\ LinkInv' /\ Homes' /\ ReplayMeansDisturbed'
        /\ WaitersHaveRefresh'
        /\ \A b \in Browsers : JarInv(b)'
        /\ \A b \in Browsers \ trace'.disturbed : UndisturbedInv(b)'
    BY <1>1, <2>4, <2>5, <2>6, CommitsInv
  <2>8. TypeOK'
    BY <1>1, <1>2, <2>4, <2>5, <2>7 DEF TypeOK
  <2>9. \A u \in Tabs : req'[u]["refresh"] = req[u]["refresh"]
    BY <1>1, <2>1 DEF TypeOK, Lanes
  <2>10. \A k \in Token : RowInv(k)'
    <3>1. \A k \in Token : /\ RowInv(k) /\ rows'[k].chain = rows[k].chain
                           /\ rows'[k].epoch = rows[k].epoch
                           /\ rows'[k].status = "none" <=> rows[k].status = "none"
      BY <2>2, <2>4 DEF IInv
    <3> QED BY <1>2, <2>5, <3>1 DEF RowInv
  <2>11. OwnerInv'
    <3>1. \A k \in Token : Owner(k)' => Owner(k)
      BY <2>4, <2>9 DEF Owner, Rotating
    <3>2. \A k \in Token : rows'[k].chain = rows[k].chain
      BY <2>4
    <3>3. ASSUME rows[k0].status = "live", NEW k \in Token, Owner(k)'
          PROVE  k # k0 /\ rows[k].chain # rows[k0].chain
      <4>1. \A u \in Tabs : Rotating(u)' => u \in Refreshes /\ req'[u]["refresh"].token # k0
        BY <2>1, <2>9 DEF Rotating, Refreshes, Locked, LockedRows
      <4>2. k # k0
        BY <2>4, <3>3, <4>1 DEF Owner
      <4>3. Owner(k) /\ Owner(k0)
        BY <3>1, <3>3 DEF Owner
      <4> QED BY <1>1, <2>2, <4>2, <4>3 DEF OwnerInv
    <3>4. ASSUME NEW k \in Token, Owner(k)'
          PROVE  rows'[k].status \in {"live", "expired"} /\ rows'[k].chain \notin trace'.ended
      <4>1. rows[k].status \in {"live", "expired"} /\ rows[k].chain \notin trace.ended
        BY <1>1, <3>1, <3>4 DEF OwnerInv
      <4> QED BY <2>4, <2>5, <3>2, <3>3, <3>4, <4>1
    <3>5. \A k \in trace'.ended : rows'[k].status # "none"
      <4>1. \A k \in trace'.ended : k \in Token /\ rows[k].status # "none"
        BY <1>1, <2>3, <2>5 DEF OwnerInv, TypeOK, Trace
      <4> QED BY <2>4, <4>1
    <3>6. \A j, k \in Token : Owner(j)' /\ Owner(k)' /\ rows'[j].chain = rows'[k].chain => j = k
      BY <1>1, <3>1, <3>2 DEF OwnerInv
    <3> QED BY <3>4, <3>5, <3>6 DEF OwnerInv
  <2>12. Live' \subseteq Live
    BY <2>4 DEF Live
  <2>13. SweepInv'
    <3>1. \A k \in trace.swept : k \in Token /\ rows[k].status = "revoked"
                                 /\ rows[k].epoch < trace.epoch
      BY <1>1 DEF SweepInv, TypeOK, Trace
    <3>2. \A k \in trace'.swept : rows'[k].status = "revoked" /\ rows'[k].epoch < trace'.epoch
      BY <2>4, <2>5, <3>1
    <3> QED BY <1>1, <1>2, <2>5, <2>9, <2>12, <3>2 DEF SweepInv
  <2>14. RevocationReachesAll'
    <3>1. \A k \in Live' : k \in Live /\ rows'[k].epoch = rows[k].epoch
      BY <2>4, <2>12 DEF Live
    <3> QED BY <2>5, <3>1 DEF IInv, RevocationReachesAll
  <2> QED BY <2>7, <2>8, <2>10, <2>11, <2>13, <2>14 DEF IInv
<1> QED BY <1>3, <1>4
-------------------------------------------------------------------------------
(* Tokens that expire, and statements over all of them *)

\* A token expires in its row and in the jar at once.
LEMMA Expired ==
  ASSUME IInv, NEW t \in Token, RefreshExpires(t)
  PROVE  IInv'
<1>1. TypeOK /\ OwnerInv /\ SweepInv /\ rows[t] \in Row /\ rows[t].status = "live"
  BY DEF IInv, TypeOK, RefreshExpires
<1>2. /\ UNCHANGED <<browserOf, account, sent, sweep, reset, csrf, call, req, trace>>
      /\ rows' = [rows EXCEPT ![t].status = "expired"]
      /\ jar' = [b \in Browsers |->
                  IF jar[b].token = t THEN [jar[b] EXCEPT !.token = NoToken] ELSE jar[b]]
      /\ Event
  BY DEF RefreshExpires
<1>3. /\ rows' \in [Token -> Row] /\ rows'[t].status = "expired"
      /\ rows'[t].chain = rows[t].chain /\ rows'[t].epoch = rows[t].epoch
      /\ \A k \in Token \ {t} : rows'[k] = rows[k]
  <2> DEFINE p == [rows[t] EXCEPT !.status = "expired"]
  <2>1. /\ p \in Row /\ p.status = "expired" /\ p.chain = rows[t].chain /\ p.epoch = rows[t].epoch
    BY <1>1 DEF Row
  <2>2. rows' = [rows EXCEPT ![t] = p]
    BY <1>2
  <2> HIDE DEF p
  <2> QED BY <1>1, <2>1, <2>2 DEF TypeOK
<1>4. /\ jar' \in [Browsers -> [access : BOOLEAN, token : Token \cup {NoToken}]]
      /\ \A b \in Browsers : jar'[b].token \in {jar[b].token, NoToken}
  <2>1. ASSUME NEW b \in Browsers
        PROVE  /\ jar'[b] \in [access : BOOLEAN, token : Token \cup {NoToken}]
               /\ jar'[b].token \in {jar[b].token, NoToken}
    <3>1. jar[b] \in [access : BOOLEAN, token : Token \cup {NoToken}]
      BY <1>1 DEF TypeOK
    <3>2. jar'[b] = [jar[b] EXCEPT !.token = NoToken] \/ jar'[b] = jar[b]
      BY <1>2
    <3> QED BY <3>1, <3>2
  <2>2. jar' = [b \in Browsers |-> jar'[b]]
    BY <1>2
  <2> QED BY <2>1, <2>2
<1>5. events' \in 0 .. MaxEvents
  BY <1>1, <1>2, Constants DEF Event, TypeOK
<1>6. TypeOK'
  BY <1>1, <1>2, <1>3, <1>4, <1>5 DEF TypeOK
<1>7. \A k \in Token : /\ rows'[k].status = "none" <=> rows[k].status = "none"
                       /\ rows'[k].status = "live" => rows[k].status = "live"
                       /\ rows'[k].chain = rows[k].chain /\ rows'[k].epoch = rows[k].epoch
                       /\ rows[k].status \in {"live", "expired"} =>
                            rows'[k].status \in {"live", "expired"}
  BY <1>1, <1>3
<1>8. \A u \in Tabs, m \in Lanes : LaneInv(u, m)'
  <2>1. ASSUME NEW u \in Tabs, NEW m \in Lanes
        PROVE  LaneInv(u, m)'
    <3>1. /\ LaneInv(u, m)
          /\ (req[u][m].new # NoToken => req[u][m].new \in Token)
          /\ (req[u][m].token # NoToken => req[u][m].token \in Token)
      BY <1>1, LaneType DEF IInv
    <3> QED BY <1>2, <1>7, <3>1 DEF LaneInv
  <2> QED BY <2>1
<1>9. Numbered' /\ LockInv' /\ LinkInv' /\ ReplayMeansDisturbed' /\ WaitersHaveRefresh'
  BY <1>2 DEF IInv, Numbered, LockInv, Refreshes, LinkInv, LinkUsedOnce, ReplayMeansDisturbed,
              WaitersHaveRefresh
<1>10. \A k \in Token : RowInv(k)'
  <2>1. \A k \in Token : RowInv(k)
    BY DEF IInv
  <2> QED BY <1>2, <1>7, <2>1 DEF RowInv
<1>11. \A b \in Browsers : JarInv(b)'
  <2>1. \A b \in Browsers : JarInv(b) /\ jar[b].token \in Token \cup {NoToken}
    BY <1>1 DEF IInv, TypeOK
  <2> QED BY <1>4, <1>7, <2>1 DEF JarInv
<1>12. OwnerInv'
  <2>1. \A k \in Token : Owner(k)' => Owner(k)
    BY <1>2, <1>7 DEF Owner, Rotating
  <2>2. \A k \in trace.ended : k \in Token
    BY <1>1 DEF TypeOK, Trace
  <2> QED BY <1>1, <1>2, <1>7, <2>1, <2>2 DEF OwnerInv
<1>13. SweepInv' /\ RevocationReachesAll'
  <2>1. \A k \in trace.swept : rows'[k] = rows[k]
    BY <1>1, <1>3 DEF SweepInv, TypeOK, Trace
  <2>2. Live' \subseteq Live
    BY <1>7 DEF Live
  <2>3. SweepInv'
    BY <1>1, <1>2, <2>1, <2>2 DEF SweepInv
  <2>4. \A k \in Live' : k \in Token
    BY DEF Live
  <2>5. RevocationReachesAll'
    BY <1>2, <1>7, <2>2, <2>4 DEF IInv, RevocationReachesAll
  <2> QED BY <2>3, <2>5
<1>14. Homes'
  <2>1. ASSUME NEW c \in Browsers, NEW k \in Token, Holds(c, k)'
        PROVE  Holds(c, k)
    BY <1>2, <1>4, <2>1 DEF Holds, Token, NoToken
  <2> QED BY <2>1 DEF IInv, Homes
<1>15. ASSUME NEW b \in Browsers \ trace'.disturbed
       PROVE  UndisturbedInv(b)'
  <2>1. UndisturbedInv(b)
    BY <1>2 DEF IInv
  <2>2. \A k \in Token : Good(k) => Good(k)'
    BY <1>2, <1>7 DEF Good
  <2>3. jar[b].token \in Token \cup {NoToken}
    BY <1>1 DEF TypeOK
  <2>4. jar'[b].token # NoToken =>
          \/ Good(jar[b].token)'
          \/ \E u \in Tabs, m \in Lanes :
               browserOf[u] = b /\ req[u][m].pc = "answered" /\ req[u][m].granted
    <3>1. ASSUME jar'[b].token # NoToken
          PROVE  jar'[b].token = jar[b].token /\ jar[b].token \in Token
      BY <1>4, <2>3, <3>1
    <3> QED BY <2>1, <2>2, <3>1 DEF UndisturbedInv, Good
  <2>5. ASSUME NEW u \in Tabs, NEW m \in Lanes, browserOf[u] = b
        PROVE  /\ req[u][m].pc = "sent" /\ req[u][m].token # NoToken => Good(req[u][m].token)'
               /\ req[u][m].pc = "answered" /\ req[u][m].granted /\ req[u][m].kind # "logout"
                    => Good(req[u][m].new)'
    <3>1. /\ LaneInv(u, m)
          /\ (req[u][m].new # NoToken => req[u][m].new \in Token)
          /\ (req[u][m].token # NoToken => req[u][m].token \in Token)
      BY <1>1, LaneType DEF IInv
    <3>2. req[u][m].pc = "answered" /\ req[u][m].granted /\ req[u][m].kind # "logout"
            => Good(req[u][m].new) /\ req[u][m].new \in Token
      BY <2>1, <2>5, <3>1 DEF UndisturbedInv, LaneInv
    <3>3. req[u][m].pc = "sent" /\ req[u][m].token # NoToken =>
            Good(req[u][m].token) /\ req[u][m].token \in Token
      BY <2>1, <2>5, <3>1 DEF UndisturbedInv
    <3> QED BY <1>2, <2>2, <3>2, <3>3 DEF Good
  <2>6. jar'[b].token # NoToken => jar'[b].token = jar[b].token
    BY <1>4
  <2> QED BY <1>2, <2>1, <2>4, <2>5, <2>6 DEF UndisturbedInv, Good
<1> QED BY <1>6, <1>8, <1>9, <1>10, <1>11, <1>12, <1>13, <1>14, <1>15 DEF IInv

\* A statement over all rows begins with the rows that are live.
LEMMA SweepBegun ==
  ASSUME IInv, NEW x \in Tabs \cup Resets, SweepBegin(x)
  PROVE  IInv'
<1>1. /\ TypeOK /\ x \in Sweepers /\ sweep' = [by |-> x, over |-> Live]
      /\ UNCHANGED <<browserOf, account, rows, sent, reset, jar, csrf, call, req, trace, events>>
  BY DEF IInv, SweepBegin, client, Live
<1>2. sweep'.by = x /\ sweep'.over = Live /\ Live \subseteq Token
  BY <1>1 DEF Live
<1>3. TypeOK'
  <2>1. sweep' \in [by : {"none"} \cup Tabs \cup Resets, over : SUBSET Token]
    BY <1>1, <1>2
  <2> QED BY <1>1, <2>1 DEF TypeOK
<1>4. /\ x \in Tabs => req[x]["refresh"].pc = "replaying"
      /\ x \in Resets => reset[x] = "open"
      /\ x # "none"
  BY <1>1, Constants DEF Sweepers
<1>5. SweepInv'
  BY <1>1, <1>2, <1>4 DEF IInv, SweepInv, Live
<1>6. \A u \in Tabs, m \in Lanes : LaneInv(u, m)'
  BY <1>1 DEF IInv, LaneInv
<1>7. Numbered' /\ (\A k \in Token : RowInv(k)') /\ OwnerInv' /\ LockInv'
  BY <1>1 DEF IInv, Numbered, RowInv, OwnerInv, Owner, Rotating, LockInv, Refreshes
<1>8. (\A b \in Browsers : JarInv(b)') /\ LinkInv' /\ RevocationReachesAll' /\ ReplayMeansDisturbed'
  BY <1>1 DEF IInv, JarInv, LinkInv, LinkUsedOnce, Live, RevocationReachesAll, ReplayMeansDisturbed
<1>9. Homes' /\ WaitersHaveRefresh'
  BY <1>1 DEF IInv, Homes, Holds, WaitersHaveRefresh
<1>10. \A b \in Browsers \ trace'.disturbed : UndisturbedInv(b)'
  BY <1>1 DEF IInv, UndisturbedInv, Good
<1> QED BY <1>3, <1>5, <1>6, <1>7, <1>8, <1>9, <1>10 DEF IInv

\* What a statement over all rows does to the rows, when it commits.
LEMMA SweptRows ==
  ASSUME IInv, NEW x \in Tabs \cup Resets, SweepCommit(x)
  PROVE  /\ rows' \in [Token -> Row]
         /\ \A k \in Token : /\ rows'[k].chain = rows[k].chain /\ rows'[k].epoch = rows[k].epoch
                             /\ rows'[k].status = "none" <=> rows[k].status = "none"
         /\ \A k \in Token \ Reached : rows'[k] = rows[k]
         /\ \A k \in Reached : k \in Token /\ rows[k].status = "live" /\ rows'[k].status = "revoked"
<1>1. /\ TypeOK /\ Reached \subseteq Token
      /\ rows' = [k \in Token |->
                   IF k \in Reached THEN [rows[k] EXCEPT !.status = "revoked"] ELSE rows[k]]
  BY DEF IInv, SweepCommit, TypeOK, Reached
<1>2. ASSUME NEW k \in Token
      PROVE  /\ rows'[k] \in Row
             /\ rows'[k].chain = rows[k].chain /\ rows'[k].epoch = rows[k].epoch
             /\ k \notin Reached => rows'[k] = rows[k]
             /\ k \in Reached => rows[k].status = "live" /\ rows'[k].status = "revoked"
  <2>1. rows[k] \in Row
    BY <1>1 DEF TypeOK
  <2>2. CASE k \in Reached
    <3>1. rows'[k] = [rows[k] EXCEPT !.status = "revoked"] /\ rows[k].status = "live"
      BY <1>1, <2>2 DEF Reached
    <3> QED BY <2>1, <2>2, <3>1 DEF Row
  <2>3. CASE k \notin Reached
    BY <1>1, <2>1, <2>3
  <2> QED BY <2>2, <2>3
<1>3. rows' = [k \in Token |-> rows'[k]]
  BY <1>1
<1>4. rows' \in [Token -> Row]
  BY <1>2, <1>3
<1> QED BY <1>1, <1>2, <1>4

\* What it does to the request that was taken for a replay, and to the form of the
\* reset.
LEMMA SweptBy ==
  ASSUME IInv, NEW x \in Tabs \cup Resets, SweepCommit(x)
  PROVE  /\ req' \in [Tabs -> [Lanes -> Request]]
         /\ account' \in [registered : BOOLEAN, password : 0 .. 1,
                          link : {"none", "issued", "used"}]
         /\ reset' \in [Resets -> {"idle", "open", "done"}]
         /\ LinkInv'
         /\ \A u \in Tabs, m \in Lanes :
              \/ req'[u][m] = req[u][m]
              \/ /\ u = x /\ m = "refresh" /\ req[u][m].pc = "replaying"
                 /\ req'[u][m].kind = "refresh" /\ req'[u][m].pc = "answered"
                 /\ req'[u][m].token = NoToken /\ req'[u][m].new = NoToken
                 /\ ~req'[u][m].granted
         /\ \A u \in Tabs : Rotating(u)' => u # x
<1>1. /\ TypeOK /\ SweepInv /\ LinkInv /\ sweep.by = x
  BY DEF IInv, SweepCommit
<1>2. CASE x \in Tabs
  <2> DEFINE r == req[x]["refresh"]
             q == Answered(r, FALSE)
  <2>1. x \notin Resets
    BY <1>2, Constants
  <2>2. req' = [req EXCEPT ![x]["refresh"] = q] /\ UNCHANGED <<account, reset>>
    BY <2>1 DEF SweepCommit
  <2>3. /\ "refresh" \in Lanes /\ r \in Request /\ r.pc = "replaying" /\ r.kind = "refresh"
    <3>1. "refresh" \in Lanes /\ LaneInv(x, "refresh")
      BY <1>2 DEF IInv, Lanes
    <3> QED BY <1>1, <1>2, <3>1 DEF SweepInv, LaneInv, TypeOK
  <2>4. /\ q \in Request /\ q.kind = "refresh" /\ q.pc = "answered" /\ q.token = NoToken
        /\ q.new = NoToken /\ ~q.granted
    BY <2>3, AnsweredType
  <2> HIDE DEF q
  <2>5. /\ req' \in [Tabs -> [Lanes -> Request]]
        /\ req'[x]["refresh"] = q
        /\ \A u \in Tabs, m \in Lanes : (u # x \/ m # "refresh") => req'[u][m] = req[u][m]
    BY <1>1, <1>2, <2>2, <2>3, <2>4 DEF TypeOK, Lanes
  <2>6. \A u \in Tabs, m \in Lanes :
          \/ req'[u][m] = req[u][m]
          \/ /\ u = x /\ m = "refresh" /\ req[u][m].pc = "replaying"
             /\ req'[u][m].kind = "refresh" /\ req'[u][m].pc = "answered"
             /\ req'[u][m].token = NoToken /\ req'[u][m].new = NoToken /\ ~req'[u][m].granted
    BY <2>3, <2>4, <2>5
  <2>7. \A u \in Tabs : Rotating(u)' => u # x
    BY <2>4, <2>5 DEF Rotating
  <2>8. LinkInv'
    BY <1>1, <2>2 DEF LinkInv, LinkUsedOnce
  <2> QED BY <1>1, <2>2, <2>5, <2>6, <2>7, <2>8 DEF TypeOK
<1>3. CASE x \in Resets
  <2>1. x \notin Tabs
    BY <1>3, Constants
  <2>2. /\ account' = [account EXCEPT !.password = @ + 1, !.link = "used"]
        /\ reset' = [reset EXCEPT ![x] = "done"] /\ req' = req
    BY <2>1 DEF SweepCommit
  <2>3. reset[x] = "open" /\ account.link = "issued" /\ account.password = 0
    <3>1. reset[x] = "open" /\ account.link = "issued"
      BY <1>1, <1>3 DEF SweepInv, LinkInv
    <3> QED BY <1>1, <3>1 DEF LinkInv, LinkUsedOnce, TypeOK
  <2>4. /\ account' \in [registered : BOOLEAN, password : 0 .. 1,
                         link : {"none", "issued", "used"}]
        /\ account'.password = 1 /\ account'.link = "used"
    <3>1. account \in [registered : BOOLEAN, password : 0 .. 1, link : {"none", "issued", "used"}]
      BY <1>1 DEF TypeOK
    <3>2. account' = [account EXCEPT !.password = 1, !.link = "used"]
      BY <2>2, <2>3
    <3>3. 1 \in 0 .. 1
      OBVIOUS
    <3> QED BY <3>1, <3>2, <3>3
  <2>5. /\ reset' \in [Resets -> {"idle", "open", "done"}]
        /\ \A r \in Resets : reset'[r] # "open"
    <3>1. \A r \in Resets : reset[r] = "open" => r = x
      BY <1>1, <1>3, <2>3 DEF LinkInv
    <3> QED BY <1>1, <1>3, <2>2, <3>1 DEF TypeOK
  <2>6. LinkInv'
    BY <2>4, <2>5 DEF LinkInv, LinkUsedOnce
  <2> QED BY <1>1, <2>1, <2>2, <2>4, <2>5, <2>6 DEF TypeOK
<1> QED BY <1>2, <1>3

\* Every token it met is revoked; those it did not meet are of transactions that
\* overlapped it.
LEMMA Swept ==
  ASSUME IInv, NEW x \in Tabs \cup Resets, SweepCommit(x)
  PROVE  IInv'
<1>1. /\ TypeOK /\ OwnerInv /\ SweepInv /\ LockInv /\ sweep.by = x /\ x # "none"
      /\ \A u \in Refreshes \ {x} : req[u]["refresh"].token \notin sweep.over
      /\ sweep' = [by |-> "none", over |-> {}]
      /\ trace' = [trace EXCEPT !.epoch = @ + 1, !.spared = @ \cup Uncommitted,
                                !.swept = @ \cup Reached]
      /\ UNCHANGED <<browserOf, sent, jar, csrf, call, events>>
  BY DEF IInv, SweepCommit, client
<1>2. /\ rows' \in [Token -> Row]
      /\ \A k \in Token : /\ rows'[k].chain = rows[k].chain /\ rows'[k].epoch = rows[k].epoch
                          /\ rows'[k].status = "none" <=> rows[k].status = "none"
      /\ \A k \in Token \ Reached : rows'[k] = rows[k]
      /\ \A k \in Reached : k \in Token /\ rows[k].status = "live" /\ rows'[k].status = "revoked"
  BY SweptRows
<1>3. /\ req' \in [Tabs -> [Lanes -> Request]]
      /\ account' \in [registered : BOOLEAN, password : 0 .. 1, link : {"none", "issued", "used"}]
      /\ reset' \in [Resets -> {"idle", "open", "done"}]
      /\ LinkInv'
      /\ \A u \in Tabs, m \in Lanes :
           \/ req'[u][m] = req[u][m]
           \/ /\ u = x /\ m = "refresh" /\ req[u][m].pc = "replaying"
              /\ req'[u][m].kind = "refresh" /\ req'[u][m].pc = "answered"
              /\ req'[u][m].token = NoToken /\ req'[u][m].new = NoToken
              /\ ~req'[u][m].granted
      /\ \A u \in Tabs : Rotating(u)' => u # x
  BY SweptBy
<1>4. Uncommitted \subseteq Token
  <2>1. \A u \in Tabs : /\ req[u]["refresh"].pc = "rotating" => req[u]["refresh"].new \in Token
                        /\ req[u]["session"].pc = "verified" => req[u]["session"].new \in Token
    <3>1. \A u \in Tabs, m \in Lanes :
            LaneInv(u, m) /\ (req[u][m].new # NoToken => req[u][m].new \in Token)
      BY <1>1, LaneType DEF IInv
    <3> QED BY <3>1 DEF LaneInv, Lanes
  <2> QED BY <2>1 DEF Uncommitted
<1>5. /\ trace' \in Trace /\ trace'.epoch = trace.epoch + 1 /\ trace.epoch \in Nat
      /\ trace'.spared = trace.spared \cup Uncommitted /\ trace'.swept = trace.swept \cup Reached
      /\ trace'.ended = trace.ended /\ trace'.replays = trace.replays
      /\ trace'.disturbed = trace.disturbed
      /\ trace.swept \subseteq Token /\ trace.ended \subseteq Token
  <2>1. trace.spared \cup Uncommitted \in SUBSET Token /\ trace.swept \cup Reached \in SUBSET Token
    BY <1>1, <1>2, <1>4 DEF TypeOK, Trace
  <2>2. trace.epoch + 1 \in Nat
    BY <1>1 DEF TypeOK, Trace
  <2> QED BY <1>1, <2>1, <2>2 DEF TypeOK, Trace
<1>6. TypeOK'
  <2>1. sweep' \in [by : {"none"} \cup Tabs \cup Resets, over : SUBSET Token]
    BY <1>1
  <2> QED BY <1>1, <1>2, <1>3, <1>5, <2>1 DEF TypeOK
<1>7. \A u \in Tabs, m \in Lanes : LaneInv(u, m)'
  <2>1. ASSUME NEW u \in Tabs, NEW m \in Lanes
        PROVE  LaneInv(u, m)'
    <3>1. /\ LaneInv(u, m)
          /\ (req[u][m].new # NoToken => req[u][m].new \in Token)
          /\ (req[u][m].token # NoToken => req[u][m].token \in Token)
      BY <1>1, LaneType DEF IInv
    <3>2. CASE req'[u][m] = req[u][m]
      BY <1>1, <1>2, <3>1, <3>2 DEF LaneInv
    <3>3. CASE req'[u][m] # req[u][m]
      <4>1. /\ m = "refresh" /\ req'[u][m].kind = "refresh" /\ req'[u][m].pc = "answered"
            /\ req'[u][m].token = NoToken /\ req'[u][m].new = NoToken /\ ~req'[u][m].granted
        BY <1>3, <3>3
      <4>2. req'[u][m].new <= sent'
        BY <1>1, <4>1 DEF TypeOK, NoToken
      <4> QED BY <4>1, <4>2 DEF LaneInv
    <3> QED BY <3>2, <3>3
  <2> QED BY <2>1
<1>8. Numbered'
  <2>1. \A u \in Tabs, m \in Lanes : req'[u][m].new \in {NoToken, req[u][m].new}
    BY <1>3
  <2> QED BY <2>1 DEF IInv, Numbered
<1>9. ASSUME NEW k \in Token
      PROVE  RowInv(k)'
  <2>1. RowInv(k)
    BY DEF IInv
  <2>2. rows[k].epoch \in Nat
    BY <1>1 DEF TypeOK, Row
  <2> QED BY <1>1, <1>2, <1>5, <2>1, <2>2 DEF RowInv
<1>10. \A b \in Browsers : JarInv(b)'
  <2>1. \A b \in Browsers : JarInv(b) /\ jar[b].token \in Token \cup {NoToken}
    BY <1>1 DEF IInv, TypeOK
  <2> QED BY <1>1, <1>2, <2>1 DEF JarInv
<1>11. \A u \in Tabs : /\ Rotating(u)' => u # x /\ u \in Refreshes /\ Rotating(u)
                       /\ req'[u]["refresh"].pc \in {"rotating", "replaying"} =>
                            u \in Refreshes /\ req'[u]["refresh"] = req[u]["refresh"]
  BY <1>3 DEF Rotating, Refreshes, Lanes
<1>12. ASSUME NEW k \in Token, Owner(k)'
       PROVE  Owner(k) /\ rows'[k] = rows[k]
  <2>1. CASE rows'[k].status = "live"
    BY <1>2, <2>1 DEF Owner
  <2>2. CASE rows'[k].status # "live"
    <3>1. PICK u \in Tabs : Rotating(u)' /\ req'[u]["refresh"].token = k
      BY <1>12, <2>2 DEF Owner
    <3>2. u # x /\ u \in Refreshes /\ Rotating(u) /\ req[u]["refresh"].token = k
      BY <1>11, <3>1 DEF Rotating
    <3>3. k \notin Reached
      BY <1>1, <3>2 DEF Reached
    <3> QED BY <1>2, <3>2, <3>3 DEF Owner
  <2> QED BY <2>1, <2>2
<1>13. OwnerInv'
  <2>1. \A j, k \in Token : Owner(j)' /\ Owner(k)' /\ rows'[j].chain = rows'[k].chain => j = k
    BY <1>1, <1>12 DEF OwnerInv
  <2>2. \A k \in Token : Owner(k)' => /\ rows'[k].status \in {"live", "expired"}
                                      /\ rows'[k].chain \notin trace'.ended
    BY <1>1, <1>5, <1>12 DEF OwnerInv
  <2>3. \A k \in trace'.ended : rows'[k].status # "none"
    BY <1>1, <1>2, <1>5 DEF OwnerInv
  <2> QED BY <2>1, <2>2, <2>3 DEF OwnerInv
<1>14. LockInv'
  BY <1>1, <1>11 DEF LockInv, Refreshes
<1>15. SweepInv'
  <2>1. sweep'.by = "none" /\ sweep'.over = {} /\ sweep'.by \notin Tabs /\ sweep'.by \notin Resets
    BY <1>1, Constants
  <2>2. ASSUME NEW k \in trace'.swept
        PROVE  rows'[k].status = "revoked" /\ rows'[k].epoch < trace'.epoch
    <3>1. CASE k \in Reached
      <4>1. k \in Token /\ RowInv(k) /\ rows[k].epoch \in Nat
        BY <1>1, <1>2, <3>1 DEF IInv, TypeOK, Row
      <4>2. rows[k].epoch <= trace.epoch
        BY <1>2, <3>1, <4>1 DEF RowInv
      <4> QED BY <1>2, <1>5, <3>1, <4>1, <4>2
    <3>2. CASE k \notin Reached
      <4>1. k \in trace.swept /\ k \in Token /\ rows[k].epoch \in Nat
        BY <1>1, <1>5, <2>2, <3>2 DEF TypeOK, Row
      <4>2. rows'[k] = rows[k] /\ rows[k].status = "revoked" /\ rows[k].epoch < trace.epoch
        BY <1>1, <1>2, <3>2, <4>1 DEF SweepInv
      <4> QED BY <1>5, <4>1, <4>2
    <3> QED BY <3>1, <3>2
  <2> QED BY <2>1, <2>2 DEF SweepInv
<1>16. RevocationReachesAll'
  <2>1. \A k \in Live' : k \in Live /\ k \notin sweep.over
    BY <1>2 DEF Live, Reached
  <2>2. \A k \in Live' : k \in trace.spared
    BY <1>1, <2>1 DEF SweepInv
  <2> QED BY <1>5, <2>2 DEF RevocationReachesAll
<1>17. Homes'
  <2>1. ASSUME NEW c \in Browsers, NEW k \in Token, Holds(c, k)'
        PROVE  Holds(c, k)
    <3>1. \A u \in Tabs, m \in Lanes : /\ req'[u][m].new \in {NoToken, req[u][m].new}
                                       /\ req'[u][m].token \in {NoToken, req[u][m].token}
      BY <1>3
    <3>2. k # NoToken
      BY DEF Token, NoToken
    <3> QED BY <1>1, <2>1, <3>1, <3>2 DEF Holds
  <2> QED BY <2>1 DEF IInv, Homes
<1>18. ReplayMeansDisturbed' /\ WaitersHaveRefresh'
  <2>1. \A u \in Tabs : req'[u]["refresh"].pc = "idle" => req[u]["refresh"].pc = "idle"
    BY <1>3 DEF Lanes
  <2>2. UNCHANGED call
    BY <1>1
  <2> QED BY <1>5, <2>1, <2>2, WaitersStay DEF IInv, ReplayMeansDisturbed
<1>19. ASSUME NEW b \in Browsers \ trace'.disturbed
       PROVE  UndisturbedInv(b)'
  <2>1. UndisturbedInv(b)
    BY <1>5 DEF IInv
  <2>2. ASSUME NEW k \in Token, Good(k)
        PROVE  Good(k)'
    BY <1>2, <1>5, <2>2 DEF Good
  <2>3. \A u \in Tabs, m \in Lanes : /\ req'[u][m].pc # "idle" => req[u][m].pc # "idle"
                                     /\ req'[u][m].pc = "sent" => req'[u][m] = req[u][m]
                                     /\ req'[u][m].granted => req'[u][m] = req[u][m]
                                     /\ req[u][m].pc = "answered" => req'[u][m] = req[u][m]
    BY <1>3
  <2>4. \A u, v \in Tabs, m, n \in Lanes :
          /\ browserOf[u] = b /\ req'[u][m].pc # "idle"
          /\ browserOf[v] = b /\ req'[v][n].pc # "idle"
          => u = v /\ m = n
    BY <2>1, <2>3 DEF UndisturbedInv
  <2>5. jar[b].token # NoToken =>
          \/ Good(jar[b].token)'
          \/ \E u \in Tabs, m \in Lanes :
               browserOf[u] = b /\ req'[u][m].pc = "answered" /\ req'[u][m].granted
    <3>1. jar[b].token # NoToken => jar[b].token \in Token
      BY <1>1 DEF TypeOK
    <3>2. CASE Good(jar[b].token) /\ jar[b].token # NoToken
      <4>1. jar'[b].token = jar[b].token
        BY <1>1
      <4> QED BY <2>2, <3>1, <3>2, <4>1 DEF Good
    <3>3. CASE \E u \in Tabs, m \in Lanes :
                 browserOf[u] = b /\ req[u][m].pc = "answered" /\ req[u][m].granted
      BY <2>3, <3>3
    <3> QED BY <2>1, <3>2, <3>3 DEF UndisturbedInv
  <2>6. ASSUME NEW u \in Tabs, NEW m \in Lanes, browserOf[u] = b
        PROVE  /\ req'[u][m].pc = "sent" /\ req'[u][m].token # NoToken => Good(req[u][m].token)'
               /\ req'[u][m].pc = "answered" /\ req'[u][m].granted /\ req'[u][m].kind # "logout"
                    => Good(req[u][m].new)'
    <3>1. /\ LaneInv(u, m)
          /\ (req[u][m].new # NoToken => req[u][m].new \in Token)
          /\ (req[u][m].token # NoToken => req[u][m].token \in Token)
      BY <1>1, LaneType DEF IInv
    <3>2. req[u][m].pc = "answered" /\ req[u][m].granted /\ req[u][m].kind # "logout"
            => Good(req[u][m].new) /\ req[u][m].new \in Token
      BY <2>1, <2>6, <3>1 DEF UndisturbedInv, LaneInv
    <3>3. req[u][m].pc = "sent" /\ req[u][m].token # NoToken =>
            Good(req[u][m].token) /\ req[u][m].token \in Token
      BY <2>1, <2>6, <3>1 DEF UndisturbedInv
    <3> QED BY <2>2, <2>3, <3>2, <3>3 DEF Good
  <2>7. UNCHANGED <<browserOf, jar>>
    BY <1>1
  <2> QED BY <2>4, <2>5, <2>6, <2>7 DEF UndisturbedInv
<1> QED BY <1>3, <1>6, <1>7, <1>8, <1>9, <1>10, <1>13, <1>14, <1>15, <1>16, <1>17, <1>18, <1>19 DEF IInv
-------------------------------------------------------------------------------
(* The invariant *)

\* Nothing has been sent, and there is no row.
LEMMA InitInv == Init => IInv
<1> SUFFICES ASSUME Init PROVE IInv
  OBVIOUS
<1>1. /\ browserOf \in [Tabs -> Browsers]
      /\ account = [registered |-> FALSE, password |-> 0, link |-> "none"]
      /\ rows = [t \in Token |-> [status |-> "none", chain |-> NoToken, epoch |-> 0]]
      /\ sent = 0 /\ events = 0
      /\ sweep = [by |-> "none", over |-> {}]
      /\ jar = [b \in Browsers |-> [access |-> FALSE, token |-> NoToken]]
      /\ csrf = [t \in Tabs |-> NoToken]
      /\ req = [t \in Tabs |-> [l \in Lanes |-> Quiet]]
      /\ call = [k \in Calls |-> "idle"]
      /\ reset = [r \in Resets |-> "idle"]
      /\ trace = [epoch |-> 0, spared |-> {}, disturbed |-> {}, ended |-> {},
                  swept |-> {}, replays |-> {}]
  BY DEF Init
<1>2. /\ \A t \in Tabs, l \in Lanes : req[t][l] = Quiet
      /\ \A k \in Token : rows[k].status = "none" /\ rows[k].epoch = 0
      /\ Live = {} /\ Refreshes = {}
      /\ \A t \in Tabs : ~Rotating(t)
  BY <1>1, QuietType DEF Live, Refreshes, Rotating, Lanes
<1>3. TypeOK
  <2>1. /\ account \in [registered : BOOLEAN, password : 0 .. 1,
                        link : {"none", "issued", "used"}]
        /\ sent \in 0 .. MaxRequests /\ events \in 0 .. MaxEvents
    BY <1>1, Constants
  <2>2. rows \in [Token -> Row]
    BY <1>1 DEF Row
  <2>3. req \in [Tabs -> [Lanes -> Request]]
    BY <1>1, QuietType
  <2>4. trace \in Trace
    BY <1>1 DEF Trace
  <2> QED BY <1>1, <2>1, <2>2, <2>3, <2>4 DEF TypeOK
<1>4. \A t \in Tabs, l \in Lanes : LaneInv(t, l)
  BY <1>1, <1>2, QuietType DEF LaneInv, NoToken
<1>5. Numbered /\ (\A k \in Token : RowInv(k)) /\ (\A b \in Browsers : JarInv(b)) /\ LockInv
  BY <1>1, <1>2, QuietType DEF Numbered, RowInv, JarInv, LockInv
<1>6. OwnerInv
  <2>1. \A k \in Token : ~Owner(k)
    BY <1>2 DEF Owner
  <2> QED BY <1>1, <2>1 DEF OwnerInv
<1>7. SweepInv /\ LinkInv /\ RevocationReachesAll /\ ReplayMeansDisturbed /\ WaitersHaveRefresh
  <2>1. sweep.by \notin Tabs /\ sweep.by \notin Resets
    BY <1>1, Constants
  <2> QED BY <1>1, <1>2, <2>1 DEF SweepInv, LinkInv, LinkUsedOnce, RevocationReachesAll,
                                  ReplayMeansDisturbed, WaitersHaveRefresh
<1>8. Homes
  <2>1. \A b \in Browsers, k \in Token : ~Holds(b, k)
    BY <1>1, <1>2, QuietType DEF Holds, Token, NoToken
  <2> QED BY <2>1 DEF Homes
<1>9. \A b \in Browsers : UndisturbedInv(b)
  BY <1>1, <1>2, QuietType DEF UndisturbedInv
<1> QED BY <1>3, <1>4, <1>5, <1>6, <1>7, <1>8, <1>9 DEF IInv

\* Every step keeps it.
LEMMA NextInv == IInv /\ [Next]_vars => IInv'
<1> SUFFICES ASSUME IInv, [Next]_vars PROVE IInv'
  OBVIOUS
<1>1. CASE Register \/ RequestReset \/ (\E b \in Browsers : AccessExpires(b)) \/ UNCHANGED vars
  BY <1>1, Beside
<1>2. ASSUME NEW t \in Token, RefreshExpires(t) PROVE IInv'
  BY <1>2, Expired
<1>3. ASSUME NEW r \in Resets, ResetOpen(r) PROVE IInv'
  BY <1>3, FormOpened
<1>4. ASSUME NEW x \in Tabs \cup Resets, SweepStep(x) PROVE IInv'
  BY <1>4, SweepBegun, Swept DEF SweepStep
<1>5. ASSUME NEW t \in Tabs, LoginSend(t) \/ LogoutSend(t) PROVE IInv'
  BY <1>5, LoginSent, LogoutSent
<1>6. ASSUME NEW t \in Tabs, ServerStep(t) PROVE IInv'
  BY <1>6, Opened, Rotated, Verified, LoggedIn, LoggedOut DEF ServerStep
<1>7. ASSUME NEW t \in Tabs, TabStep(t) \/ \E lane \in Lanes : AnswerLost(t, lane) PROVE IInv'
  BY <1>7, Ended DEF TabStep
<1>8. ASSUME NEW k \in Calls, CallForbidden(k) PROVE IInv'
  BY <1>8, Called
<1>9. ASSUME NEW k \in Calls, NEW kind \in {"me", "post"}, CallOk(k, kind) PROVE IInv'
  BY <1>9, Called
<1>10. ASSUME NEW k \in Calls, NEW kind \in {"me", "post"}, CallUnauthorized(k, kind) PROVE IInv'
  BY <1>10, Unauthorized
<1> QED BY <1>1, <1>2, <1>3, <1>4, <1>5, <1>6, <1>7, <1>8, <1>9, <1>10 DEF Next

\* So it holds throughout.
THEOREM Invariance == Spec => []IInv
BY InitInv, NextInv, PTL DEF Spec
-------------------------------------------------------------------------------
(* The properties *)

\* A login has one token that can be rotated at any time, and a link changes the
\* password once, whatever requests overlap: consume_and_rotate_refresh_token and
\* get_valid_reset_token lock the row that is spent.
THEOREM SpentOnce == Spec => []UsedOnce
<1>1. IInv => UsedOnce
  <2> SUFFICES ASSUME IInv PROVE OneLivePerLogin
    BY DEF UsedOnce, IInv, LinkInv
  <2> QED BY DEF IInv, OwnerInv, OneLivePerLogin, Owner, Live
<1> QED BY <1>1, Invariance, PTL

\* No token that was committed before a replay or a reset revoked them all is left:
\* only one whose transaction overlapped revoke_all_user_tokens escapes it.
THEOREM AllRevoked == Spec => []RevocationReachesAll
<1>1. IInv => RevocationReachesAll
  BY DEF IInv
<1> QED BY <1>1, Invariance, PTL

\* No refresh under way continues a login that a logout has ended.
THEOREM LogoutHolds == Spec => []LoggedOutStaysOut
<1>1. IInv => LoggedOutStaysOut
  BY DEF IInv, OwnerInv, Owner, LoggedOutStaysOut, Live
<1> QED BY <1>1, Invariance, PTL

\* A browser that loses no answer and has one auth request at a time is not taken
\* for a replay, keeps a token that works, and none of its calls hangs.
THEOREM QuietBrowser == Spec => []QuietBrowserLeftAlone
<1>1. ASSUME IInv
      PROVE  QuietBrowserKeepsSession
  <2>1. ASSUME NEW b \in Browsers \ trace.disturbed, jar[b].token # NoToken,
               \A u \in Tabs, l \in Lanes : browserOf[u] = b => req[u][l].pc = "idle"
        PROVE  \/ rows[jar[b].token].status \in {"live", "expired"}
               \/ rows[jar[b].token].epoch < trace.epoch
    <3>1. UndisturbedInv(b)
      BY <1>1 DEF IInv
    <3>2. Good(jar[b].token)
      BY <2>1, <3>1 DEF UndisturbedInv
    <3> QED BY <1>1, <3>2 DEF Good, IInv, SweepInv
  <2> QED BY <2>1 DEF QuietBrowserKeepsSession
<1>2. IInv => QuietBrowserLeftAlone
  BY <1>1 DEF IInv, QuietBrowserLeftAlone
<1> QED BY <1>2, Invariance, PTL
===============================================================================
